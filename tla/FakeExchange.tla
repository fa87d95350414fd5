---------------------------- MODULE FakeExchange ----------------------------
(***************************************************************************)
(* A bot on the fake exchange (tbot/exchanges/fake.py): no user data       *)
(* stream, the operator plays the exchange with fake_order_fill, _cancel   *)
(* and _expire, and _callback_order and everything it leads to run inside  *)
(* the caller.  One operator types the commands, so a command is one step; *)
(* the two that ask "Are you sure?" are two steps, and what they read      *)
(* before the prompt they still hold when other commands have run.         *)
(*                                                                         *)
(* What a command does is computed as the set of worlds it can end in: the *)
(* tables and the history of callbacks.  The operators call each other as  *)
(* the methods do.  Placing and cancelling orders report to _callback_order*)
(* too, and would call the algorithm back inside its own callback; nested  *)
(* records that one did so, and such a callback is not followed.  It is    *)
(* never set (NeverNested), so nothing is left out.                        *)
(***************************************************************************)
EXTENDS OrderStore

CONSTANTS
  Sale,     \* the market order of a bot_stop of type revert
  Sells     \* orders of side SELL; the others buy

ASSUME SaleAssumption ==
  /\ Sale \in Sells \ (HasCallback \cup DOMAIN Oco)
  /\ Sells \subseteq Orders
  /\ Workers = {}
  /\ IsFiniteSet(Orders)

VARIABLES
  runs,     \* history: how often the callback of an order was started
  nested,   \* history: placing or cancelling an order started a callback
  created,  \* bot_create has run
  fill,     \* the order an open prompt of fake_order_fill is about
  stop,     \* an open prompt of bot_stop and what was read for it
  forced,   \* history: the orders order_callback was given, once each
  sold      \* history: the quantity of Sale, 0 before it is placed

vars == <<storeVars, runs, nested, created, fill, stop, forced, sold>>

World == [row |-> row, bot |-> bot, runs |-> runs, nested |-> nested]

Become(w) ==
  /\ row' = w.row /\ bot' = w.bot /\ runs' = w.runs /\ nested' = w.nested
  /\ UNCHANGED fresh

(* One order, or the legs of an OCO, limit leg first.                       *)
Placements ==
  {<<o>> : o \in Orders \ (DOMAIN Oco \cup {Sale})}
    \cup {<<o, Oco[o]>> : o \in DOMAIN Oco}

(* The objects a queryset of ACTIVE orders holds.                           *)
ActiveObjects(rows) ==
  [o \in {x \in Orders : rows[x].status = "ACTIVE"} |-> rows[o]]

-----------------------------------------------------------------------------
(* Statements, on a world: InsertRows, SaveAll, SaveResult, SaveCallback.   *)

Inserted(w, S) ==
  [w EXCEPT !.row = [o \in Orders |-> IF o \in S THEN NewRow ELSE @[o]]]

Stored(w, o, r) == [w EXCEPT !.row[o] = r]

StoredResult(w, o, s) == Stored(w, o, WithResult(w.row[o], s))

StoredCallback(w, o, c) == Stored(w, o, [w.row[o] EXCEPT !.cb = c])

-----------------------------------------------------------------------------
(* From a report to the callback.  Where it ends is a world, and whose      *)
(* callback is then to be started for which object: None for nobody's.      *)

Nobody(w) == [w |-> w, called |-> None, object |-> NoRow]

(* Faulty variant of Execute: callback_status is not looked at.             *)
ExecuteAlways(w, o, r) ==
  IF o \in HasCallback THEN [w |-> w, called |-> o, object |-> r] ELSE Nobody(w)

Execute(w, o, r) ==
  IF r.cb = "WAITING" /\ o \in HasCallback
  THEN [w |-> w, called |-> o, object |-> r] ELSE Nobody(w)

(* services.execute_order_callback of the object r: while the peer is       *)
(* ACTIVE neither leg is called; else r is saved whole and the peer called. *)
ExecuteOrderCallback(w, o, r) ==
  IF ~HasOco(o) THEN Execute(w, o, r)
  ELSE IF w.row[Oco[o]].status = "ACTIVE" THEN Nobody(w)
  ELSE Execute(Stored(w, o, [r EXCEPT !.cb = "OCO_CANCELED"]),
               Oco[o], w.row[Oco[o]])

(* Which writes are followed by the callback: not an expired leg, not for a *)
(* bot that is not ON, not a status that is not an end.  Faulty variant:    *)
(* whatever the bot's status.                                               *)
DispatchesAnyBot(w, o, s) == s # "ACTIVE" /\ ~(s = "EXPIRED" /\ HasOco(o))

Dispatches(w, o, s) ==
  /\ ~(s = "EXPIRED" /\ HasOco(o))
  /\ w.bot = "ON" /\ s # "ACTIVE"

(* Exchange._callback_order, without updated_at.                            *)
CallbackOrder(w, o, s) ==
  LET saved == StoredResult(w, o, s)
  IN IF Dispatches(w, o, s)
     THEN ExecuteOrderCallback(saved, o, saved.row[o]) ELSE Nobody(saved)

-----------------------------------------------------------------------------
(* Placing and cancelling *)

(* The report of an order the program itself placed or cancels.             *)
OwnReport(w, o, s) ==
  LET c == CallbackOrder(w, o, s)
  IN [c.w EXCEPT !.nested = @ \/ c.called # None]

CanPlace(w, legs) == \A i \in DOMAIN legs : w.row[legs[i]] = NoRow

(* new_order_*: the rows are inserted; the exchange answers with            *)
(* _mark_active, callback_order_new of each leg.                            *)
Place(w, legs) ==
  LET inserted == Inserted(w, {legs[i] : i \in DOMAIN legs})
      first == OwnReport(inserted, legs[1], "ACTIVE")
  IN IF Len(legs) = 1 THEN first ELSE OwnReport(first, legs[2], "ACTIVE")

(* Faulty variant of CancelOrder: its own callback stays WAITING.           *)
CancelOrderPeerOnly(w, o, r) ==
  IF w.row[o].status # "ACTIVE" THEN w
  ELSE OwnReport(IF HasOco(o) THEN StoredCallback(w, Oco[o], "CANCELED") ELSE w,
                 o, "CANCELED")

(* Exchange.cancel_order of the object r, read earlier: its callback and    *)
(* its peer's are cancelled; _cancel_order reports this order, and of an    *)
(* OCO the peer stays ACTIVE.                                               *)
CancelOrder(w, o, r) ==
  IF w.row[o].status # "ACTIVE" THEN w
  ELSE LET peer == IF HasOco(o) THEN StoredCallback(w, Oco[o], "CANCELED")
                   ELSE w
           both == Stored(peer, o, [r EXCEPT !.cb = "CANCELED"])
       IN OwnReport(both, o, "CANCELED")

(* Faulty variant of CancelListed: an order that is no longer ACTIVE ends   *)
(* the loop.                                                                *)
CancelListedOrStop(w, objects) ==
  LET after[S \in SUBSET DOMAIN objects] ==
        IF S = {} THEN {w}
        ELSE UNION {{CancelOrder(x, o, objects[o]) : x \in after[S \ {o}]} :
                      o \in S}
  IN IF \A o \in DOMAIN objects : w.row[o].status = "ACTIVE"
     THEN after[DOMAIN objects] ELSE {w}

(* for order in orders: cancel_order(order), in whatever order they come;   *)
(* after[S]: where the loop is once it is through with those of S.          *)
CancelListed(w, objects) ==
  LET after[S \in SUBSET DOMAIN objects] ==
        IF S = {} THEN {w}
        ELSE UNION {{CancelOrder(x, o, objects[o]) : x \in after[S \ {o}]} :
                      o \in S}
  IN after[DOMAIN objects]

-----------------------------------------------------------------------------
(* Callbacks *)

(* A callback of the algorithm for the object r of o, with how it ends.     *)
(* disable_on_cancel stops the bot for a cancelled order (of an OCO, when   *)
(* both legs are); else the method does nothing, raises, places orders or   *)
(* cancels the open ones.                                                   *)
Method(w, o, r) ==
  LET Ends(W, cb) == {[w |-> x, cb |-> cb] : x \in W}
      stops == /\ r.status = "CANCELED"
               /\ HasOco(o) => w.row[Oco[o]].status = "CANCELED"
      stopped == [w EXCEPT !.bot = "CANCELED"]
      placeable == {legs \in Placements : CanPlace(w, legs)}
  IN IF stops
     THEN Ends(CancelListed(stopped, ActiveObjects(w.row)), "DONE")
     ELSE Ends({w}, "DONE") \cup Ends({w}, "ERROR")
            \cup Ends({Place(w, legs) : legs \in placeable}, "DONE")
            \cup Ends(CancelListed(w, ActiveObjects(w.row)), "DONE")

(* What follows the check of callback_status: STARTED, the method, outcome. *)
Run(w, o, r) ==
  LET started == [StoredCallback(w, o, "STARTED") EXCEPT !.runs[o] = @ + 1]
  IN {StoredCallback(e.w, o, e.cb) : e \in Method(started, o, r)}

Follow(c) == IF c.called = None THEN {c.w} ELSE Run(c.w, c.called, c.object)

(* A status reported by the operator, and what follows.                     *)
Report(w, o, s) == Follow(CallbackOrder(w, o, s))

(* Then the peer's cancellation, when there is a peer.                      *)
ReportPeer(w, o) == IF HasOco(o) THEN Report(w, Oco[o], "CANCELED") ELSE {w}

-----------------------------------------------------------------------------
(* bot_create, after its checks and its prompt: the bot is saved and        *)
(* Algorithm.start sets it ON and places the first orders.                  *)

CreateBot ==
  /\ ~created /\ created' = TRUE
  /\ \E first, more \in Placements :
       LET w == Place([World EXCEPT !.bot = "ON"], first) IN
       \/ Become(w)
       \/ CanPlace(w, more) /\ Become(Place(w, more))
  /\ UNCHANGED <<fill, stop, forced, sold>>

-----------------------------------------------------------------------------
(* fake_order_fill, fake_order_cancel, fake_order_expire *)

AskFill(o) ==
  /\ fill = None /\ row[o].status = "ACTIVE"
  /\ fill' = o
  /\ UNCHANGED <<storeVars, runs, nested, created, stop, forced, sold>>

(* Faulty variant of FillReports: the peer is reported first.               *)
FillReportsPeerFirst(w, o) ==
  UNION {Report(x, o, "FILLED") : x \in ReportPeer(w, o)}

FillReports(w, o) == UNION {ReportPeer(x, o) : x \in Report(w, o, "FILLED")}

(* The status was checked before the prompt, and is not checked again.      *)
AnswerFill ==
  /\ fill # None /\ fill' = None
  /\ \E w \in {World} \cup FillReports(World, fill) : Become(w)
  /\ UNCHANGED <<created, stop, forced, sold>>

(* No status is checked.                                                    *)
FakeCancel(o) ==
  /\ row[o] # NoRow
  /\ \E x \in Report(World, o, "CANCELED") : \E w \in ReportPeer(x, o) : Become(w)
  /\ UNCHANGED <<created, fill, stop, forced, sold>>

FakeExpire(o) ==
  /\ row[o].status = "ACTIVE"
  /\ \E w \in Report(World, o, "EXPIRED") : Become(w)
  /\ UNCHANGED <<created, fill, stop, forced, sold>>

-----------------------------------------------------------------------------
(* order_cancel, order_callback *)

CancelCommand(o) ==
  /\ row[o] # NoRow
  /\ Become(CancelOrder(World, o, row[o]))
  /\ UNCHANGED <<created, fill, stop, forced, sold>>

(* The object is WAITING in memory, whatever the row says.                  *)
CallbackCommand(o) ==
  /\ row[o] # NoRow /\ o \notin forced
  /\ \E w \in Follow(ExecuteOrderCallback(World, o,
                                          [row[o] EXCEPT !.cb = "WAITING"])) :
       Become(w)
  /\ forced' = forced \cup {o}
  /\ UNCHANGED <<created, fill, stop, sold>>

-----------------------------------------------------------------------------
(* bot_stop.  An order trades one unit; every order is in the last round.   *)

NoPrompt == [type |-> "none", objects |-> <<>>, qty |-> 0]

Filled == {o \in Orders : row[o].filled}

(* Faulty variant of SellQty: nothing filled is a quantity of 0.            *)
SellQtyOrZero(type) == IF type = "revert" THEN {Cardinality(Filled)} ELSE {0}

(* Sum of result_filled_quantity over the orders of the last round, sells   *)
(* too.  With none filled it is NULL, and dividing it raises.               *)
SellQty(type) ==
  IF type # "revert" THEN {0}
  ELSE IF Filled = {} THEN {} ELSE {Cardinality(Filled)}

AskStop(type) ==
  /\ stop = NoPrompt /\ created /\ bot = "ON"
  /\ \E qty \in SellQty(type) :
       stop' = [type |-> type, objects |-> ActiveObjects(row), qty |-> qty]
  /\ UNCHANGED <<storeVars, runs, nested, created, fill, forced, sold>>

DeclineStop ==
  /\ stop # NoPrompt /\ stop' = NoPrompt
  /\ UNCHANGED <<storeVars, runs, nested, created, fill, forced, sold>>

(* The bot object read before the prompt is saved, the objects listed then  *)
(* are cancelled, and the quantity computed then is sold.                   *)
ConfirmStop ==
  /\ stop # NoPrompt /\ stop' = NoPrompt
  /\ LET off == [World EXCEPT !.bot = "OFF"] IN
     \E w \in IF stop.type = "freeze" THEN {off}
              ELSE CancelListed(off, stop.objects) :
       IF stop.qty = 0 THEN Become(w) /\ UNCHANGED sold
       ELSE Become(Place(w, <<Sale>>)) /\ sold' = stop.qty
  /\ UNCHANGED <<created, fill, forced>>

-----------------------------------------------------------------------------

Init ==
  /\ row = [o \in Orders |-> NoRow]
  /\ bot = "OFF"
  /\ fresh = [w \in Workers |-> {}]
  /\ runs = [o \in Orders |-> 0]
  /\ nested = FALSE
  /\ created = FALSE
  /\ fill = None
  /\ stop = NoPrompt
  /\ forced = {}
  /\ sold = 0

Next ==
  \/ CreateBot
  \/ \E o \in Orders :
       AskFill(o) \/ FakeCancel(o) \/ FakeExpire(o) \/ CancelCommand(o)
         \/ CallbackCommand(o)
  \/ AnswerFill
  \/ \E type \in {"freeze", "keep", "revert"} : AskStop(type)
  \/ DeclineStop \/ ConfirmStop

Spec == Init /\ [][Next]_vars

StopTypeOK ==
  /\ DOMAIN stop.objects \subseteq Orders
  /\ \A o \in DOMAIN stop.objects : stop.objects[o] \in Rows
  /\ stop.type \in {"none", "freeze", "keep", "revert"}
  /\ stop.qty \in IF stop.type = "revert" THEN 1..Cardinality(Orders) ELSE {0}

(* The tables, the history and what the prompts hold have the types the     *)
(* code gives them; a quantity to be sold is there for revert only, and     *)
(* never 0: bot_stop's `sell_qty != 0' must tell revert from the others.    *)
TypeOK ==
  /\ StoreTypeOK
  /\ runs \in [Orders -> Nat]
  /\ {nested, created} \subseteq BOOLEAN
  /\ fill \in Orders \cup {None}
  /\ StopTypeOK
  /\ forced \subseteq Orders
  /\ sold \in 0..Cardinality(Orders)

-----------------------------------------------------------------------------
(* Properties *)

ByHand == forced \cup {Oco[o] : o \in forced \cap DOMAIN Oco}

Over == {o \in Orders : row[o].status \in Terminal} \cup ByHand

Contract == INSTANCE CallbackContract WITH
  over <- Over, calls <- runs, void <- ByHand

(* The fake exchange keeps the promise the real one keeps: a callback is    *)
(* started after its order has ended, once, and of an OCO for one leg.      *)
(* Orders given to order_callback are outside it.                           *)
KeepsContract == Contract!Spec

(* cancel_order marks both callbacks before the fake exchange reports the   *)
(* cancellation inside the same call: an algorithm that cancels its orders  *)
(* is not called back in the middle of its own callback.                    *)
NeverNested == ~nested

(* An order whose callback cancel_order cancelled, and its peer, which the  *)
(* fake exchange leaves ACTIVE to be filled or cancelled later, are called  *)
(* no more, except by hand.                                                 *)
CancelledIsSilent ==
  [][\A o \in Orders :
       row[o].cb = "CANCELED" /\ forced' = forced
       => /\ runs'[o] = runs[o]
          /\ HasOco(o) => runs'[Oco[o]] = runs[Oco[o]]]_vars

(* The two reports of fake_order_fill reach the filled leg and only it: the *)
(* first one finds the peer ACTIVE and skips both, the second one passes    *)
(* the peer and calls the filled leg.                                       *)
FillIsCalled ==
  [][\A o \in HasCallback :
       (/\ fill = o /\ fill' = None /\ row' # row
        /\ row[o].status = "ACTIVE" /\ row[o].cb = "WAITING" /\ bot = "ON"
        /\ HasOco(o) => row[Oco[o]].status = "ACTIVE")
       => /\ runs'[o] = runs[o] + 1
          /\ HasOco(o) => runs'[Oco[o]] = runs[Oco[o]]]_vars

(* From the command that switches the bot OFF on, the cancellations it      *)
(* causes included, no callback starts and no order is placed but Sale.     *)
QuietWhenStopped ==
  [][(created /\ (bot # "ON" \/ bot' = "OFF") /\ forced' = forced)
     => /\ runs' = runs
        /\ \A o \in Orders \ {Sale} : row[o] = NoRow => row'[o] = NoRow]_vars

(* When bot_stop of type keep or revert ends, no order it listed before its *)
(* prompt is ACTIVE, whatever became of them meanwhile.                     *)
ListedAreCancelled ==
  [][(stop.type \in {"keep", "revert"} /\ stop' = NoPrompt
      /\ bot # "OFF" /\ bot' = "OFF")
     => \A o \in DOMAIN stop.objects : row'[o].status # "ACTIVE"]_vars

(* bot_stop, revert: "bought base asset will be sold".  When the orders of  *)
(* the round have sold no more than they bought, what Sale is placed for is *)
(* not more than what is left of it.                                        *)
SoldWasBought ==
  [][LET bought == Cardinality(Filled \ Sells)
         gone == Cardinality(Filled \cap Sells)
     IN sold' # sold /\ gone <= bought => sold' + gone <= bought]_vars

(* order_callback: "Call order callback" starts the callback of the order   *)
(* it is given.                                                             *)
CommandCallsItsOrder ==
  [][\A o \in (forced' \ forced) \cap HasCallback :
       runs'[o] = runs[o] + 1]_vars

-----------------------------------------------------------------------------
(* The inductive invariant.  Of a table and its history: no order is left   *)
(* NEW, the legs of an OCO are inserted together, a callback that           *)
(* cancel_order cancelled leaves none to start for the peer, and one that   *)
(* was started, but by hand, is spent together with the peer's.             *)

Worlds == [row    : [Orders -> Rows],
           bot    : BotStatuses,
           runs   : [Orders -> Nat],
           nested : {FALSE}]

Placed == {"ACTIVE"} \cup Terminal

SpentCall(w, o) ==
  w.runs[o] > 0 =>
    /\ w.runs[o] = 1 /\ w.row[o].cb # "WAITING"
    /\ HasOco(o) => w.runs[Oco[o]] = 0 /\ w.row[Oco[o]].cb # "WAITING"

LegsOK(w, o) ==
  /\ w.row[o] = NoRow <=> w.row[Oco[o]] = NoRow
  /\ w.row[o].cb = "CANCELED" => w.row[Oco[o]].cb # "WAITING"

WorldOK(w, void) ==
  /\ w \in Worlds
  /\ \A o \in Orders : w.row[o] = NoRow \/ w.row[o].status \in Placed
  /\ \A o \in DOMAIN Oco : LegsOK(w, o)
  /\ \A o \in Orders \ void : SpentCall(w, o)

(* What a prompt holds was in the table; the sale is placed once, and ends  *)
(* the bot's time.                                                          *)
FakeInv ==
  /\ TypeOK
  /\ WorldOK(World, ByHand)
  /\ fill # None => row[fill] # NoRow
  /\ stop # NoPrompt => created
  /\ \A o \in DOMAIN stop.objects : row[o] # NoRow
  /\ ~created => bot = "OFF" /\ \A o \in Orders : row[o] = NoRow
  /\ row[Sale] # NoRow => created /\ stop = NoPrompt /\ bot # "ON"
=============================================================================
