----------------------------- MODULE OrderFlow -----------------------------
(***************************************************************************)
(* The life of the orders of one bot on Binance: operator commands         *)
(* (bot_create's start of the algorithm, order_cancel, bot_stop), the      *)
(* user-data-stream workers, and the exchange, all meeting only in the     *)
(* database and at the exchange.  A command runs once, as its own process. *)
(***************************************************************************)
EXTENDS OrderCallback

CONSTANTS
  Placers,      \* commands in which an algorithm places orders
  Cancelers,    \* order_cancel
  Stoppers,     \* bot_stop, freeze or keep
  MaxFaults,    \* bound: kills, lost reports and rerun statements in all
  MaxOld        \* bound: orders that leave the last 500 of the symbol

ASSUME CommandsAssumption ==
  /\ Commands = Placers \cup Cancelers \cup Stoppers
  /\ Commands \cap Workers = {}
  /\ MaxFaults \in Nat /\ MaxOld \in Nat

VARIABLES
  cmd,     \* cmd[c]: where command c is
  faults   \* faults injected so far

vars == <<storeVars, exchangeVars, placementVars, cancel, callbackVars,
          cmd, faults>>

(* listed: history, the orders bot_stop showed to the operator.             *)
CommandRecords ==
  [pc     : {"ready", "list", "prompt", "placing", "cancelling",
             "done", "aborted"},
   listed : SUBSET Orders]

CommandAt(pc) == [pc |-> pc, listed |-> {}]

To(c, pc) == cmd' = [cmd EXCEPT ![c].pc = pc]

-----------------------------------------------------------------------------
(* An algorithm places orders outside a callback (Algorithm.start).         *)

StartPlacement(c) ==
  /\ c \in Placers /\ cmd[c].pc = "ready"
  /\ \E legs \in Placements : CreateRows(c, legs)
  /\ To(c, "placing")
  /\ UNCHANGED <<bot, exchangeVars, late, cancel>>

PlaceInCommand(c) ==
  /\ cmd[c].pc = "placing"
  /\ \/ CallAccepted(c) /\ To(c, "done") /\ UNCHANGED storeVars
     \/ /\ CallRejected(c) \/ CallAnswerLost(c)
        /\ UNCHANGED <<storeVars, cmd>>
     \/ OnErrorOrder(c) /\ UNCHANGED <<bot, exchangeVars, late, cmd>>
     \/ /\ PlacementRaised(c)
        /\ place' = [place EXCEPT ![c] = NotPlacing]
        /\ To(c, "aborted")
        /\ UNCHANGED <<storeVars, exchangeVars, late>>
  /\ UNCHANGED cancel

-----------------------------------------------------------------------------
(* order_cancel *)

GetOrder(c) ==
  /\ c \in Cancelers /\ cmd[c].pc = "ready"
  /\ \E o \in Orders :
       /\ row[o] # NoRow
       /\ cancel' = [cancel EXCEPT ![c] = LoopWith(Snapshot({o}))]
  /\ To(c, "cancelling")
  /\ UNCHANGED <<storeVars, exchangeVars, placementVars>>

CancelInCommand(c) ==
  /\ cmd[c].pc = "cancelling"
  /\ \/ CancelStep(c) /\ UNCHANGED cmd
     \/ CancelRaises(c, NotCancelling) /\ To(c, "aborted")
     \/ /\ LoopDone(c)
        /\ cancel' = [cancel EXCEPT ![c] = NotCancelling]
        /\ To(c, "done")
        /\ UNCHANGED <<storeVars, exchangeVars>>
  /\ UNCHANGED placementVars

-----------------------------------------------------------------------------
(* bot_stop *)

(* The bot is read; it must be ON.                                          *)
GetBot(c) ==
  /\ c \in Stoppers /\ cmd[c].pc = "ready"
  /\ To(c, IF bot = "ON" THEN "list" ELSE "done")
  /\ UNCHANGED <<storeVars, exchangeVars, placementVars, cancel>>

(* print_orders evaluates active_orders: these objects are the ones the     *)
(* loop will use after the prompt.  freeze has nothing to cancel.  Before   *)
(* that the last round is looked up: a bot without one, which has no orders *)
(* either, ends the command with an IndexError.                             *)
ListActive(c) ==
  /\ cmd[c].pc = "list"
  /\ \/ /\ cancel' = [cancel EXCEPT ![c].snap = Snapshot(ActiveOrders)]
        /\ cmd' = [cmd EXCEPT ![c] =
                     [pc |-> "prompt", listed |-> ActiveOrders]]
     \/ UNCHANGED cancel /\ To(c, "prompt")
     \/ /\ \A o \in Orders : row[o] = NoRow
        /\ UNCHANGED cancel /\ To(c, "aborted")
  /\ UNCHANGED <<storeVars, exchangeVars, placementVars>>

(* "Are you sure?" no.                                                      *)
Decline(c) ==
  /\ cmd[c].pc = "prompt"
  /\ cancel' = [cancel EXCEPT ![c] = NotCancelling]
  /\ cmd' = [cmd EXCEPT ![c] = CommandAt("done")]
  /\ UNCHANGED <<storeVars, exchangeVars, placementVars>>

(* bot.status = OFF; bot.save(), on the object read before the prompt.      *)
Confirm(c) ==
  /\ cmd[c].pc = "prompt"
  /\ SaveBot("OFF")
  /\ cancel' = [cancel EXCEPT ![c].pc = "next"]
  /\ To(c, "cancelling")
  /\ UNCHANGED <<row, fresh, exchangeVars, placementVars>>

-----------------------------------------------------------------------------

CommandStep(c) ==
  /\ \/ StartPlacement(c) \/ PlaceInCommand(c)
     \/ GetOrder(c) \/ CancelInCommand(c)
     \/ GetBot(c) \/ ListActive(c) \/ Decline(c) \/ Confirm(c)
  /\ UNCHANGED <<callbackVars, faults>>

(* The operator interrupts a command: what it had in memory is gone.        *)
KillCommand(c) ==
  /\ cmd[c].pc \notin {"ready", "done", "aborted"}
  /\ place' = [place EXCEPT ![c] = NotPlacing]
  /\ cancel' = [cancel EXCEPT ![c] = NotCancelling]
  /\ To(c, "aborted")
  /\ UNCHANGED <<storeVars, exchangeVars, late, callbackVars>>

WorkerRuns(w) == WorkerStep(w) /\ UNCHANGED <<cmd, faults>>

(* The exchange acts on its own: a match, the user's own cancel, a rule,    *)
(* orders of others.                                                        *)
ExchangeStep ==
  /\ \E o \in Orders :
       \/ Fill(o) \/ CancelAtExchange(o) \/ Expire(o) \/ PartFill(o)
       \/ Cardinality(old) < MaxOld /\ PushOut(o)
  /\ UNCHANGED <<storeVars, placementVars, cancel, callbackVars, cmd, faults>>

Fault ==
  /\ faults < MaxFaults
  /\ faults' = faults + 1
  /\ \/ \E w \in Workers : WorkerFault(w) /\ UNCHANGED cmd
     \/ \E c \in Commands : KillCommand(c)

Init ==
  /\ StoreInit /\ ExchangeInit /\ PlacementInit /\ CancelInit /\ CallbackInit
  /\ cmd = [c \in Commands |-> CommandAt("ready")]
  /\ faults = 0

Next ==
  \/ \E c \in Commands : CommandStep(c)
  \/ \E w \in Workers : WorkerRuns(w)
  \/ ExchangeStep
  \/ Fault

Spec == Init /\ [][Next]_vars

TypeOK ==
  /\ StoreTypeOK /\ ExchangeTypeOK /\ PlacementTypeOK /\ CancelTypeOK
  /\ CallbackTypeOK
  /\ cmd \in [Commands -> CommandRecords]
  /\ faults \in 0..MaxFaults

-----------------------------------------------------------------------------
(* Fairness: a running worker keeps running, a worker that ended is started *)
(* again (ProcessWorker.run), and it stops by its timer after 23 hours.     *)
(* Nothing is assumed of the operator or of the exchange.                   *)
FairSpec == Spec /\ \A w \in Workers : WF_vars(WorkerRuns(w))

-----------------------------------------------------------------------------
(* Safety *)

(* A final status in the table is the exchange's final status, whatever old *)
(* object was saved over the row last.                                      *)
DbTerminalIsTrue ==
  \A o \in Orders : row[o].status \in Terminal => ex[o] = row[o].status

(* A FILLED row has its executed quantities (bot_stop sums them), and only  *)
(* an order that was executed has any.                                      *)
ResultsRecorded ==
  \A o \in Orders : /\ row[o].status = "FILLED" => row[o].filled
                    /\ row[o].filled => ex[o] = "FILLED"

(* A callback is started only when the order can trade no more, for the     *)
(* peer that is called in place of a reported leg too.                      *)
CallbackAfterTheEnd ==
  \A o \in Orders : runs[o] > 0 => ex[o] \in Terminal

(* One worker starts the callback of an order at most once, through         *)
(* restarts, synchronisations and stale saves; only a placement that raised *)
(* after the exchange had accepted it puts WAITING back.                    *)
CallbackOnce == \A o \in Orders \ late : runs[o] <= 1

(* Of an OCO at most one leg is called.                                     *)
OneLegCalled ==
  \A o \in DOMAIN Oco \ late : runs[o] > 0 => runs[Oco[o]] = 0

(* A finished order without peer whose callback still waits is being        *)
(* dispatched, or its dispatch was cut off at a known place: a kill, a      *)
(* rerun UPDATE, a bot that is not ON.                                      *)
WaitingIsExplained ==
  \A o \in HasCallback \ (DOMAIN Oco \cup late) :
    row[o].status \in Terminal /\ row[o].cb = "WAITING" =>
      o \in lost \/ \E w \in Workers : Dispatching(w) /\ wk[w].o = o

(* When bot_stop ends normally, none of the orders it listed can trade.     *)
(* This holds while nobody beside it holds an object read while its order   *)
(* was NEW (NothingNewBeside below): an order_cancel that read an order     *)
(* before it was placed may write NEW over ACTIVE, and bot_stop skips it.   *)
ListedAreGone ==
  \A c \in Stoppers : cmd[c].pc = "done" =>
    \A o \in cmd[c].listed \ late : ex[o] \notin OnBook

(* The callback of an order leaves WAITING once: no stale save brings it    *)
(* back, but for a placement whose answer was lost.                         *)
NeverWaitingAgain ==
  [][\A o \in Orders \ late :
       row[o].cb # "WAITING" => row'[o].cb # "WAITING"]_vars

-----------------------------------------------------------------------------
(* Liveness *)

Agrees(o) ==
  /\ ex[o] = "live" => row[o].status = "ACTIVE"
  /\ ex[o] \in Terminal => row[o].status = ex[o]

(* Whatever was lost or overwritten, the table ends up agreeing with the    *)
(* exchange about every order among the last 500 of the symbol, but for     *)
(* those that stay partially executed, which neither the synchronisation    *)
(* nor the handler has a case for.                                          *)
EventuallyAgrees == <>[](\A o \in Orders \ old : Agrees(o))

(* A filled order without peer gets its callback, unless somebody cancelled *)
(* it, the dispatch was cut off, or it left the last 500 of the symbol      *)
(* first: then a synchronisation cannot stand in for its report.            *)
FillIsAnswered ==
  \A o \in HasCallback \ DOMAIN Oco :
    ex[o] = "FILLED" ~>
      (runs[o] > 0 \/ row[o].cb # "WAITING" \/ o \in lost \cup late \cup old)

-----------------------------------------------------------------------------
(* The inductive invariant: every copy of a status, in a queue, in a list   *)
(* or in an object some process holds, is true whenever it is final, and    *)
(* ACTIVE in none before the exchange has accepted the order.               *)

Confirmed(o, s) ==
  /\ s \in Terminal => ex[o] = s
  /\ s = "ACTIVE" => ex[o] # "none"

Honest(o, r) ==
  /\ Confirmed(o, r.status)
  /\ r.status = "FILLED" => r.filled
  /\ r.filled => ex[o] = "FILLED"

StoreInv == StoreTypeOK /\ \A o \in Orders : Honest(o, row[o])

(* The legs of an OCO are accepted together, and once one is FILLED or      *)
(* CANCELED the other is over too.                                          *)
LegsEndTogether ==
  \A o \in DOMAIN Oco :
    /\ ex[o] = "none" => ex[Oco[o]] = "none"
    /\ ex[o] \in {"FILLED", "CANCELED"} => ex[Oco[o]] \in Terminal

ExchangeInv ==
  /\ ExchangeTypeOK
  /\ LegsEndTogether
  /\ \A w \in Workers : \A i \in DOMAIN feed[w] :
       Confirmed(feed[w][i].o, feed[w][i].s)

PlacementInv ==
  /\ PlacementTypeOK
  /\ \A p \in Procs : place[p].pc = "call" => place[p].legs \in Placements

CancelOK(c) ==
  /\ c.pc \in {"peer", "savepeer", "own", "call"} =>
       c.o \in Orders /\ ex[c.o] # "none"
  /\ c.pc \in {"peer", "savepeer"} => HasOco(c.o)
  /\ c.pc = "savepeer" => Honest(Oco[c.o], c.peer)
  /\ \A o \in Orders : Honest(o, c.snap[o])

CancelInv == CancelTypeOK /\ \A p \in Procs : CancelOK(cancel[p])

(* From "save" on a worker has a report in hand, from "pass" on an order to *)
(* call, and that one is over.                                              *)
Calling == {"pass", "start", "run", "stop", "loop", "place", "done", "error"}

Handling == Calling \cup {"save", "bot", "oco"}

WorkerOK(k) ==
  /\ k.pc \in Handling => /\ k.o \in Orders /\ k.s # "NONE"
                         /\ Confirmed(k.o, k.s) /\ Honest(k.o, k.mem)
  /\ k.pc \in {"bot", "oco", "pass"} => ~IgnoredCallback(k.o, k.s)
  /\ k.pc \in {"oco", "pass"} => HasOco(k.o)
  /\ k.pc = "oco" => k.s # "ACTIVE"
  /\ k.pc \in Calling => k.act \in Orders /\ ex[k.act] \in Terminal

WorkerInv ==
  /\ CallbackTypeOK
  /\ \A w \in Workers : WorkerOK(wk[w])
  /\ \A w \in Workers : \A r \in todo[w] : Confirmed(r.o, r.s)
  /\ \A o \in Orders : runs[o] > 0 => ex[o] \in Terminal

CommandInv ==
  /\ cmd \in [Commands -> CommandRecords]
  /\ faults \in 0..MaxFaults

(* No process, however old the object it saves, can put a final status in   *)
(* the table that the exchange did not give the order.                      *)
Truthful ==
  /\ StoreInv /\ ExchangeInv /\ PlacementInv /\ CancelInv /\ WorkerInv
  /\ CommandInv

-----------------------------------------------------------------------------
(* Who may write WAITING: on_error_order only, which is harmless while the  *)
(* exchange does not know the order, since nobody calls or cancels it then. *)

RowsInv ==
  \A o \in Orders : /\ row[o].cb # "WAITING" => ex[o] # "none"
                    /\ ex[o] # "none" => row[o] # NoRow

(* An order is placed by one process, and unknown to the exchange until its *)
(* call has ended, unless the answer was lost.                              *)
PlacingInv ==
  \A p \in Procs :
    /\ place[p].pc = "idle" => place[p].legs = <<>>
    /\ \A i \in DOMAIN place[p].legs :
         LET o == place[p].legs[i] IN
         /\ row[o] # NoRow
         /\ ex[o] = "none" \/ (place[p].pc = "error" /\ o \in late)
         /\ \A q \in Procs : \A j \in DOMAIN place[q].legs :
              place[q].legs[j] = o => q = p

(* The object in hand was read from the row, so if its callback does not    *)
(* wait the row's does not either; a plain order is called itself.          *)
InHand == {"save", "bot", "oco", "pass"}

ObjectOK(k) ==
  /\ k.pc \in InHand /\ k.o \notin late /\ k.mem.cb # "WAITING" =>
       row[k.o].cb # "WAITING"
  /\ k.pc = "start" /\ ~HasOco(k.o) => k.act = k.o

Explained(o) ==
  row[o].status \in Terminal /\ row[o].cb = "WAITING" =>
    o \in lost \/ \E w \in Workers : /\ Dispatching(w) /\ wk[w].o = o
                                     /\ wk[w].s \in Terminal

Accounted ==
  /\ RowsInv /\ PlacingInv
  /\ \A w \in Workers : ObjectOK(wk[w])
  /\ \A o \in HasCallback \ (DOMAIN Oco \cup late) : Explained(o)

-----------------------------------------------------------------------------
(* With one worker, runs changes only under the eyes of the worker that     *)
(* holds the objects.                                                       *)

LegsLateTogether == \A o \in DOMAIN Oco : o \in late => Oco[o] \in late

Spent(o) == runs[o] <= 1 /\ (runs[o] > 0 => row[o].cb # "WAITING")

(* What starting the callback of a leg leaves behind at the other leg.      *)
PeerSpent(o) ==
  runs[o] > 0 => runs[Oco[o]] = 0 /\ row[Oco[o]].cb # "WAITING"

FirstCall(k) ==
  /\ k.pc \in InHand /\ k.o \notin late /\ k.mem.cb = "WAITING" =>
       runs[k.o] = 0
  /\ k.pc = "pass" =>
       /\ k.act = Oco[k.o]
       /\ k.o \notin late /\ k.actmem.cb = "WAITING" =>
            runs[k.act] = 0 /\ runs[k.o] = 0
  /\ k.pc = "start" /\ k.act \notin late =>
       /\ runs[k.act] = 0
       /\ HasOco(k.act) => /\ runs[Oco[k.act]] = 0
                           /\ row[Oco[k.act]].cb # "WAITING"

CalledOnce ==
  /\ LegsLateTogether
  /\ \A o \in Orders \ late : Spent(o)
  /\ \A o \in DOMAIN Oco \ late : PeerSpent(o)
  /\ \A w \in Workers : FirstCall(wk[w])

-----------------------------------------------------------------------------
(* With one worker, callbacks are started as CallbackContract promises.     *)

Over == {o \in Orders : ex[o] \in Terminal}

Contract == INSTANCE CallbackContract
              WITH over <- Over, calls <- runs, void <- late

(* The steps of every process together keep the contract: a callback starts *)
(* only for an order that is over, once, and for one leg of an OCO.         *)
KeepsContract == Contract!Spec

-----------------------------------------------------------------------------
(* What bot_stop leaves undone: it skips a listed order only when its row   *)
(* has come to be neither ACTIVE nor final, and only an object read while   *)
(* the order was NEW, saved by somebody else, does that to an order whose   *)
(* placement did not raise.                                                 *)

NothingNewBeside ==
  \A c \in Stoppers : \A p \in Procs \ {c} :
    /\ \A o \in Orders : cancel[p].snap[o].status # "NEW"
    /\ cancel[p].peer.status # "NEW"

(* The orders whose call has raised and that nobody can place any more.     *)
Refused ==
  {o \in Orders :
     /\ ex[o] = "none" /\ row[o] # NoRow
     /\ \A p \in Procs : place[p].pc = "call" =>
          \A i \in DOMAIN place[p].legs : place[p].legs[i] # o}

(* What a copy of the row of o can say besides NEW and what is Confirmed.   *)
Known(o, r) ==
  /\ r.status = "ABSENT" => r = NoRow
  /\ r.status = "ERROR" => o \in late \cup Refused

Settled == {"ACTIVE"} \cup Terminal

LoopOK(p) ==
  /\ \A o \in Orders : Known(o, cancel[p].snap[o])
  /\ cancel[p].pc \in {"peer", "savepeer", "own", "call"} =>
       cancel[p].snap[cancel[p].o] # NoRow
  /\ cancel[p].pc = "savepeer" =>
       cancel[p].peer # NoRow /\ Known(Oco[cancel[p].o], cancel[p].peer)

ObjectsKnown ==
  /\ \A o \in Orders : Known(o, row[o])
  /\ \A p \in Procs : LoopOK(p)
  /\ \A w \in Workers : wk[w].pc \in InHand => wk[w].mem.status \in Settled
  /\ \A c \in Commands : cmd[c].pc \in {"ready", "placing", "list", "prompt"} =>
       cancel[c].pc = "idle"

(* The loop of bot_stop c drops a listed order only when it is over.        *)
ListedOK(c) ==
  /\ cmd[c].pc \in {"ready", "placing", "list"} => cmd[c].listed = {}
  /\ \A o \in cmd[c].listed \ late :
       /\ row[o].status \in Settled
       /\ cancel[c].snap[o] # NoRow => cancel[c].snap[o].status \in Settled
       /\ cancel[c].pc = "savepeer" /\ Oco[cancel[c].o] = o =>
            cancel[c].peer.status \in Settled
       /\ (\/ cmd[c].pc = "done"
           \/ cmd[c].pc \in {"prompt", "cancelling"} /\ cancel[c].snap[o] = NoRow)
            => ex[o] \in Terminal

ListedInv == \A c \in Stoppers : ListedOK(c)

-----------------------------------------------------------------------------
(* What comments and messages of the repository say *)

(* Nobody is in the middle of anything.                                    *)
AtRest ==
  /\ \A w \in Workers : Holds(w, "ready") /\ todo[w] = {} /\ feed[w] = <<>>
  /\ \A c \in Commands : cmd[c].pc \in {"ready", "done", "aborted"}

(* models.py: NEW "means, that is not placed on exchange"; asked only when  *)
(* every report has been handled and every command has ended.               *)
NewIsNotPlaced ==
  AtRest => \A o \in Orders : row[o].status = "NEW" => ex[o] # "live"

(* bot_stop: "will not be placed any new orders" once the bot is OFF.       *)
NoOrderAfterStop ==
  [][\A w \in Workers :
       place[w].pc = "idle" /\ place'[w].pc = "call" => bot # "OFF"]_vars
=============================================================================
