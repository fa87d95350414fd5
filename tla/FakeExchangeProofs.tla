------------------------- MODULE FakeExchangeProofs -------------------------
(***************************************************************************)
(* The fake exchange, for every number of orders and pairs: what an        *)
(* operator's command may do to the tables and to the history of callbacks,*)
(* through callbacks that place and cancel and stop the bot.               *)
(***************************************************************************)
EXTENDS FakeExchange, FiniteSetTheorems, NaturalsInduction,
        WellFoundedInduction, TLAPS

-----------------------------------------------------------------------------
(* Rows and worlds *)

LEMMA RowFacts ==
  ASSUME NEW r \in Rows, NEW s \in Statuses
  PROVE  /\ WithResult(r, s) \in Rows
         /\ WithResult(r, s).status = s /\ WithResult(r, s).cb = r.cb
BY DEF Rows, WithResult

LEMMA CallbackFacts ==
  ASSUME NEW r \in Rows, NEW c \in CallbackStatuses
  PROVE  /\ [r EXCEPT !.cb = c] \in Rows
         /\ [r EXCEPT !.cb = c].status = r.status /\ [r EXCEPT !.cb = c].cb = c
BY DEF Rows

LEMMA NoRowFacts ==
  /\ NoRow \in Rows /\ NoRow.status = "ABSENT" /\ NoRow.cb = "WAITING"
  /\ NewRow \in Rows /\ NewRow.status = "NEW" /\ NewRow.cb = "WAITING"
BY DEF NoRow, NewRow, Rows, Statuses, CallbackStatuses

(* x is w but for the row of o.                                             *)
RowOnly(w, x, o) ==
  /\ x \in Worlds /\ x.bot = w.bot /\ x.runs = w.runs
  /\ \A z \in Orders \ {o} : x.row[z] = w.row[z]

LEMMA WorldFacts ==
  ASSUME NEW w \in Worlds
  PROVE  /\ w.row \in [Orders -> Rows] /\ w.bot \in BotStatuses
         /\ w.runs \in [Orders -> Nat] /\ w.nested = FALSE
         /\ \A o \in Orders : w.row[o] \in Rows /\ w.runs[o] \in Nat
BY DEF Worlds

LEMMA StoredFacts ==
  ASSUME NEW w \in Worlds, NEW o \in Orders, NEW r \in Rows
  PROVE  RowOnly(w, Stored(w, o, r), o) /\ Stored(w, o, r).row[o] = r
<1>1. PICK x : x = Stored(w, o, r)
  OBVIOUS
<1>2. x.row = [w.row EXCEPT ![o] = r] /\ x.bot = w.bot /\ x.runs = w.runs
  BY <1>1 DEF Worlds, Stored
<1>3. x \in Worlds
  BY <1>1 DEF Worlds, Stored
<1>4. RowOnly(w, x, o) /\ x.row[o] = r
  BY ONLY <1>2, <1>3, WorldFacts, w \in Worlds, o \in Orders, r \in Rows
     DEF RowOnly
<1> QED BY <1>1, <1>4

LEMMA StoredResultFacts ==
  ASSUME NEW w \in Worlds, NEW o \in Orders, NEW s \in Statuses
  PROVE  /\ RowOnly(w, StoredResult(w, o, s), o)
         /\ StoredResult(w, o, s).row[o] = WithResult(w.row[o], s)
         /\ StoredResult(w, o, s).row[o].status = s
         /\ StoredResult(w, o, s).row[o].cb = w.row[o].cb
<1>1. PICK r \in Rows : /\ r = WithResult(w.row[o], s)
                        /\ r.status = s /\ r.cb = w.row[o].cb
  <2>1. w.row[o] \in Rows
    BY WorldFacts
  <2> QED BY <2>1, RowFacts
<1>2. RowOnly(w, Stored(w, o, r), o) /\ Stored(w, o, r).row[o] = r
  BY StoredFacts
<1> QED BY <1>1, <1>2 DEF StoredResult

LEMMA StoredCallbackFacts ==
  ASSUME NEW w \in Worlds, NEW o \in Orders, NEW c \in CallbackStatuses
  PROVE  /\ RowOnly(w, StoredCallback(w, o, c), o)
         /\ StoredCallback(w, o, c).row[o].status = w.row[o].status
         /\ StoredCallback(w, o, c).row[o].cb = c
<1>1. PICK r \in Rows : /\ r = [w.row[o] EXCEPT !.cb = c]
                        /\ r.status = w.row[o].status /\ r.cb = c
  BY WorldFacts, CallbackFacts
<1>2. RowOnly(w, Stored(w, o, r), o) /\ Stored(w, o, r).row[o] = r
  BY StoredFacts
<1> QED BY <1>1, <1>2 DEF StoredCallback

-----------------------------------------------------------------------------
(* Reports *)

LEMMA OcoFacts ==
  ASSUME NEW o \in DOMAIN Oco
  PROVE  /\ o \in Orders /\ Oco[o] \in DOMAIN Oco /\ Oco[o] \in Orders
         /\ Oco[o] # o /\ Oco[Oco[o]] = o
BY OcoAssumption

LEMMA NobodyFacts ==
  ASSUME NEW w
  PROVE  /\ Nobody(w).w = w /\ Nobody(w).called = None
         /\ Nobody(w).object = NoRow
BY DEF Nobody

(* Whom execute_order_callback calls, and what it writes.                   *)
LEMMA ExecuteFacts ==
  ASSUME NEW w, NEW o, NEW r, NEW c, c = Execute(w, o, r)
  PROVE  /\ c.w = w
         /\ \/ c.called = None /\ c = Nobody(w)
            \/ c.called = o /\ c.object = r /\ o \in HasCallback /\ r.cb = "WAITING"
         /\ o \in HasCallback /\ r.cb = "WAITING" => c.called = o
BY DEF Execute, Nobody

(* The leg passed over when its peer is called.                             *)
Passed(w, o, r) == Stored(w, o, [r EXCEPT !.cb = "OCO_CANCELED"])

LEMMA PassedFacts ==
  ASSUME NEW w \in Worlds, NEW o \in Orders, NEW r \in Rows
  PROVE  /\ RowOnly(w, Passed(w, o, r), o)
         /\ Passed(w, o, r).row[o].status = r.status
         /\ Passed(w, o, r).row[o].cb = "OCO_CANCELED"
<1>1. PICK q \in Rows : /\ q = [r EXCEPT !.cb = "OCO_CANCELED"]
                        /\ q.status = r.status /\ q.cb = "OCO_CANCELED"
  BY CallbackFacts DEF CallbackStatuses
<1>2. RowOnly(w, Stored(w, o, q), o) /\ Stored(w, o, q).row[o] = q
  BY StoredFacts
<1> QED BY <1>1, <1>2 DEF Passed

LEMMA CallFacts ==
  ASSUME NEW w \in Worlds, NEW o \in Orders, NEW r \in Rows,
         NEW c, c = ExecuteOrderCallback(w, o, r)
  PROVE  /\ ~HasOco(o) => c = Execute(w, o, r)
         /\ HasOco(o) /\ w.row[Oco[o]].status = "ACTIVE" => c = Nobody(w)
         /\ HasOco(o) /\ w.row[Oco[o]].status # "ACTIVE" =>
              c = Execute(Passed(w, o, r), Oco[o], w.row[Oco[o]])
BY DEF ExecuteOrderCallback, Passed

(* A report changes the row of its order, and calls, if anybody, the order  *)
(* itself, or of an OCO the peer while passing over this leg.               *)
Calls(w, c, o) ==
  /\ w.bot = "ON" /\ c.called \in HasCallback /\ w.row[c.called].cb = "WAITING"
  /\ ~HasOco(o) => c.called = o
  /\ HasOco(o) => /\ c.called = Oco[o] /\ w.row[Oco[o]].status # "ACTIVE"
                  /\ c.w.row[o].cb = "OCO_CANCELED"

LEMMA ReportFacts ==
  ASSUME NEW w \in Worlds, NEW o \in Orders, NEW s \in Terminal,
         NEW c, c = CallbackOrder(w, o, s)
  PROVE  /\ RowOnly(w, c.w, o)
         /\ c.w.row[o].status = s
         /\ c.w.row[o].cb \in {w.row[o].cb, "OCO_CANCELED"}
         /\ c = Nobody(c.w) \/ Calls(w, c, o)
<1> DEFINE v == StoredResult(w, o, s)
<1>1. s \in Statuses
  BY DEF Terminal, Statuses
<1>2. /\ RowOnly(w, v, o) /\ v.row[o] \in Rows
      /\ v.row[o].status = s /\ v.row[o].cb = w.row[o].cb
  <2>1. /\ RowOnly(w, v, o)
        /\ v.row[o].status = s /\ v.row[o].cb = w.row[o].cb
    BY <1>1, StoredResultFacts
  <2>2. v \in Worlds
    BY <2>1 DEF RowOnly
  <2> HIDE DEF v
  <2> QED BY <2>1, <2>2, WorldFacts
<1>3. v \in Worlds
  BY <1>2 DEF RowOnly
<1>4. c = IF Dispatches(w, o, s) THEN ExecuteOrderCallback(v, o, v.row[o])
          ELSE Nobody(v)
  BY DEF CallbackOrder
<1> HIDE DEF v
<1>5. CASE c = Nobody(v)
  BY <1>2, <1>5, NobodyFacts
<1>6. CASE ~HasOco(o) /\ Dispatches(w, o, s)
  <2>1. c = Execute(v, o, v.row[o])
    BY <1>2, <1>3, <1>4, <1>6, CallFacts
  <2>2. CASE c = Nobody(v)
    BY <1>5, <2>2
  <2>3. CASE c.called = o /\ o \in HasCallback /\ v.row[o].cb = "WAITING"
    <3>1. c.w = v
      BY <2>1, ExecuteFacts
    <3>2. Calls(w, c, o)
      BY <1>2, <1>6, <2>3 DEF Calls, Dispatches
    <3> QED BY <1>2, <3>1, <3>2
  <2> QED BY <2>1, <2>2, <2>3, ExecuteFacts
<1>7. CASE HasOco(o) /\ Dispatches(w, o, s) /\ v.row[Oco[o]].status # "ACTIVE"
  <2> DEFINE p == Passed(v, o, v.row[o])
  <2>1. c = Execute(p, Oco[o], v.row[Oco[o]])
    BY <1>2, <1>3, <1>4, <1>7, CallFacts
  <2>3. /\ RowOnly(v, p, o) /\ p.row[o].status = s
        /\ p.row[o].cb = "OCO_CANCELED"
    BY <1>2, <1>3, PassedFacts
  <2> HIDE DEF p
  <2>4. RowOnly(w, p, o)
    BY <1>2, <2>3 DEF RowOnly
  <2>5. v.row[Oco[o]] = w.row[Oco[o]]
    BY <1>2, <1>7, OcoFacts DEF RowOnly, HasOco
  <2>6. c.w = p
    BY <2>1, ExecuteFacts
  <2>7. CASE c = Nobody(p)
    BY <2>3, <2>4, <2>6, <2>7
  <2>8. CASE /\ c.called = Oco[o] /\ Oco[o] \in HasCallback
             /\ v.row[Oco[o]].cb = "WAITING"
    <3>1. Calls(w, c, o)
      BY <1>7, <2>3, <2>5, <2>6, <2>8 DEF Calls, Dispatches
    <3> QED BY <2>3, <2>4, <2>6, <3>1
  <2> QED BY <2>1, <2>7, <2>8, ExecuteFacts
<1>8. CASE HasOco(o) /\ Dispatches(w, o, s) /\ v.row[Oco[o]].status = "ACTIVE"
  BY <1>2, <1>3, <1>4, <1>5, <1>8, CallFacts
<1> QED BY <1>4, <1>5, <1>6, <1>7, <1>8

(* Reports of what the program itself does call nobody.                     *)
LEMMA OwnReportFacts ==
  ASSUME NEW w, NEW o, NEW s, NEW x \in Worlds, CallbackOrder(w, o, s) = Nobody(x)
  PROVE  OwnReport(w, o, s) = x
<1>1. OwnReport(w, o, s) = [x EXCEPT !.nested = @ \/ None # None]
  BY NobodyFacts DEF OwnReport
<1> QED BY <1>1 DEF Worlds

LEMMA ActiveReport ==
  ASSUME NEW w \in Worlds, NEW o \in Orders
  PROVE  OwnReport(w, o, "ACTIVE") = StoredResult(w, o, "ACTIVE")
<1>1. CallbackOrder(w, o, "ACTIVE") = Nobody(StoredResult(w, o, "ACTIVE"))
  BY DEF CallbackOrder, Dispatches
<1>2. RowOnly(w, StoredResult(w, o, "ACTIVE"), o)
  BY StoredResultFacts DEF Statuses
<1>3. StoredResult(w, o, "ACTIVE") \in Worlds
  BY <1>2 DEF RowOnly
<1> QED BY <1>1, <1>3, OwnReportFacts

LEMMA CanceledReport ==
  ASSUME NEW w \in Worlds, NEW o \in Orders, w.row[o].cb = "CANCELED",
         HasOco(o) => w.row[Oco[o]].cb = "CANCELED",
         NEW x, x = OwnReport(w, o, "CANCELED")
  PROVE  /\ RowOnly(w, x, o) /\ x.row[o].status = "CANCELED"
         /\ x.row[o].cb \in {"CANCELED", "OCO_CANCELED"}
<1>1. PICK c : c = CallbackOrder(w, o, "CANCELED")
  OBVIOUS
<1>2. "CANCELED" \in Terminal
  BY DEF Terminal
<1>3. /\ RowOnly(w, c.w, o) /\ c.w.row[o].status = "CANCELED"
      /\ c.w.row[o].cb \in {w.row[o].cb, "OCO_CANCELED"}
      /\ c = Nobody(c.w) \/ Calls(w, c, o)
  BY <1>1, <1>2, ReportFacts
<1>4. ~ Calls(w, c, o)
  BY DEF Calls
<1>5. c.w \in Worlds
  BY <1>3 DEF RowOnly
<1>6. x = c.w
  BY <1>1, <1>3, <1>4, <1>5, OwnReportFacts
<1> QED BY <1>3, <1>6

-----------------------------------------------------------------------------
(* Cancelling *)

(* A world that cancelling orders may lead to.                              *)
Cancelled(w, x) ==
  /\ x \in Worlds /\ x.bot = w.bot /\ x.runs = w.runs
  /\ \A z \in Orders :
       /\ \/ x.row[z].status = w.row[z].status
          \/ w.row[z].status = "ACTIVE" /\ x.row[z].status = "CANCELED"
       /\ w.row[z] = NoRow => x.row[z] = NoRow
       /\ w.row[z].cb # "WAITING" => x.row[z].cb # "WAITING"

LEMMA CancelledTwice ==
  ASSUME NEW w, NEW x, NEW y, Cancelled(w, x), Cancelled(x, y)
  PROVE  Cancelled(w, y)
BY DEF Cancelled

LEMMA SpentStays ==
  ASSUME NEW w \in Worlds, NEW x \in Worlds, NEW o \in Orders,
         x.runs = w.runs, SpentCall(w, o),
         \A z \in Orders : w.row[z].cb # "WAITING" => x.row[z].cb # "WAITING"
  PROVE  SpentCall(x, o)
BY OcoFacts DEF SpentCall, HasOco

LEMMA CancelWrites ==
  ASSUME NEW w \in Worlds, NEW o \in Orders, NEW r \in Rows,
         w.row[o].status = "ACTIVE", NEW x, x = CancelOrder(w, o, r)
  PROVE  /\ x \in Worlds /\ x.bot = w.bot /\ x.runs = w.runs
         /\ x.row[o].status = "CANCELED" /\ x.row[o].cb # "WAITING"
         /\ HasOco(o) => /\ x.row[Oco[o]].status = w.row[Oco[o]].status
                         /\ x.row[Oco[o]].cb = "CANCELED"
         /\ \A z \in Orders \ {o} :
              ~(HasOco(o) /\ z = Oco[o]) => x.row[z] = w.row[z]
<1>1. PICK p : p = IF HasOco(o) THEN StoredCallback(w, Oco[o], "CANCELED") ELSE w
  OBVIOUS
<1>2. /\ p \in Worlds /\ p.bot = w.bot /\ p.runs = w.runs
      /\ HasOco(o) => /\ p.row[Oco[o]].status = w.row[Oco[o]].status
                      /\ p.row[Oco[o]].cb = "CANCELED"
      /\ \A z \in Orders : ~(HasOco(o) /\ z = Oco[o]) => p.row[z] = w.row[z]
  <2>1. CASE HasOco(o)
    <3>1. Oco[o] \in Orders /\ "CANCELED" \in CallbackStatuses
      BY <2>1, OcoFacts DEF HasOco, CallbackStatuses
    <3>2. /\ RowOnly(w, p, Oco[o])
          /\ p.row[Oco[o]].status = w.row[Oco[o]].status
          /\ p.row[Oco[o]].cb = "CANCELED"
      BY <1>1, <2>1, <3>1, StoredCallbackFacts
    <3> QED BY <2>1, <3>2 DEF RowOnly
  <2>2. CASE ~HasOco(o)
    BY <1>1, <2>2
  <2> QED BY <2>1, <2>2
<1>3. PICK q \in Rows : q = [r EXCEPT !.cb = "CANCELED"] /\ q.cb = "CANCELED"
  <2>1. "CANCELED" \in CallbackStatuses
    BY DEF CallbackStatuses
  <2> QED BY <2>1, CallbackFacts
<1>4. PICK b : b = Stored(p, o, q)
  OBVIOUS
<1>5. RowOnly(p, b, o) /\ b.row[o] = q
  BY <1>2, <1>4, StoredFacts
<1>6. x = OwnReport(b, o, "CANCELED")
  BY <1>1, <1>3, <1>4 DEF CancelOrder
<1>7. b \in Worlds /\ b.row[o].cb = "CANCELED"
  BY <1>3, <1>5 DEF RowOnly
<1>8. HasOco(o) => b.row[Oco[o]] = p.row[Oco[o]]
  BY <1>5, OcoFacts DEF RowOnly, HasOco
<1>9. /\ RowOnly(b, x, o) /\ x.row[o].status = "CANCELED"
      /\ x.row[o].cb \in {"CANCELED", "OCO_CANCELED"}
  BY <1>2, <1>6, <1>7, <1>8, CanceledReport
<1>10. HasOco(o) => x.row[Oco[o]] = b.row[Oco[o]]
  BY <1>9, OcoFacts DEF RowOnly, HasOco
<1> QED BY <1>2, <1>5, <1>8, <1>9, <1>10 DEF RowOnly

(* What cancel_order may do, whatever object it was given.                  *)
LEMMA CancelFacts ==
  ASSUME NEW V, NEW w, WorldOK(w, V), NEW o \in Orders, NEW r \in Rows,
         NEW x, x = CancelOrder(w, o, r)
  PROVE  WorldOK(x, V) /\ Cancelled(w, x) /\ x.row[o].status # "ACTIVE"
<1>1. w \in Worlds
  BY DEF WorldOK
<1>2. CASE w.row[o].status # "ACTIVE"
  <2>1. x = w
    BY <1>2 DEF CancelOrder
  <2> QED BY <1>1, <1>2, <2>1 DEF Cancelled
<1>3. CASE w.row[o].status = "ACTIVE"
  <2>1. /\ x \in Worlds /\ x.bot = w.bot /\ x.runs = w.runs
        /\ x.row[o].status = "CANCELED" /\ x.row[o].cb # "WAITING"
        /\ HasOco(o) => /\ x.row[Oco[o]].status = w.row[Oco[o]].status
                        /\ x.row[Oco[o]].cb = "CANCELED"
        /\ \A z \in Orders \ {o} :
             ~(HasOco(o) /\ z = Oco[o]) => x.row[z] = w.row[z]
    BY <1>1, <1>3, CancelWrites
  <2>2. w.row[o] # NoRow /\ x.row[o] # NoRow
    BY <1>3, <2>1, NoRowFacts
  <2>3. HasOco(o) => /\ w.row[Oco[o]] # NoRow /\ x.row[Oco[o]] # NoRow
                     /\ w.row[Oco[o]].status \in Placed
    <3> SUFFICES ASSUME HasOco(o)
                 PROVE  /\ w.row[Oco[o]] # NoRow /\ x.row[Oco[o]] # NoRow
                        /\ w.row[Oco[o]].status \in Placed
      OBVIOUS
    <3>1. Oco[o] \in Orders /\ w.row[Oco[o]] # NoRow
      BY <2>2, OcoFacts DEF WorldOK, LegsOK, HasOco
    <3>2. w.row[Oco[o]].status \in Placed
      BY <3>1 DEF WorldOK
    <3> QED BY <2>1, <3>1, <3>2, NoRowFacts DEF Placed, Terminal
  <2>4. Cancelled(w, x)
    BY <1>3, <2>1, <2>2, <2>3 DEF Cancelled
  <2>5. \A z \in Orders : x.row[z] = NoRow \/ x.row[z].status \in Placed
    BY <2>1, <2>3 DEF WorldOK, Placed, Terminal
  <2>6. ASSUME NEW z \in DOMAIN Oco PROVE LegsOK(x, z)
    <3>1. /\ z \in Orders /\ Oco[z] \in Orders
          /\ HasOco(o) /\ Oco[z] = Oco[o] => z = o
          /\ Oco[z] = o => HasOco(o) /\ z = Oco[o]
      BY <2>6, OcoFacts DEF HasOco
    <3>2. LegsOK(w, z)
      BY DEF WorldOK
    <3>3. CASE z = o
      BY <2>1, <2>2, <2>3, <3>3 DEF LegsOK, HasOco
    <3>4. CASE HasOco(o) /\ z = Oco[o]
      BY <2>1, <2>2, <2>3, <3>4, OcoFacts DEF LegsOK, HasOco
    <3>5. CASE z # o /\ ~(HasOco(o) /\ z = Oco[o])
      <4>1. x.row[z] = w.row[z]
        BY <2>1, <3>1, <3>5
      <4>2. x.row[Oco[z]] = w.row[Oco[z]]
        BY <2>1, <3>1, <3>5
      <4> QED BY <3>2, <4>1, <4>2 DEF LegsOK
    <3> QED BY <3>3, <3>4, <3>5
  <2>7. \A z \in Orders \ V : SpentCall(x, z)
    BY <1>1, <2>1, <2>4, SpentStays DEF WorldOK, Cancelled
  <2> QED BY <2>1, <2>4, <2>5, <2>6, <2>7 DEF WorldOK
<1> QED BY <1>2, <1>3

-----------------------------------------------------------------------------
(* The loop that cancels listed orders *)

(* Induction over the numbers, with a set in place of a predicate.          *)
LEMMA SetInduction ==
  ASSUME NEW S, 0 \in S, \A n \in Nat : n \in S => n + 1 \in S
  PROVE  Nat \subseteq S
<1> SUFFICES ASSUME Nat \ S # {} PROVE FALSE
  OBVIOUS
<1> DEFINE R == OpToRel(<, Nat)
<1>1. IsWellFoundedOn(R, Nat)
  BY NatLessThanWellFounded
<1>2. \A x, y \in Nat : <<x, y>> \in R <=> x < y
  BY DEF OpToRel
<1> HIDE DEF R
<1>3. PICK x \in Nat \ S : \A y \in Nat \ S : ~ (<<y, x>> \in R)
  BY <1>1, WFMin, Zenon
<1>4. x - 1 \in Nat /\ x - 1 < x
  BY <1>3
<1>5. x - 1 \in S
  BY <1>2, <1>3, <1>4
<1> QED BY <1>3, <1>4, <1>5

SmallSets(D, n) == {S \in SUBSET D : Cardinality(S) <= n}

LEMMA SmallSetsFacts ==
  ASSUME NEW D, IsFiniteSet(D), NEW n \in Nat
  PROVE  /\ SmallSets(D, 0) = {{}}
         /\ SmallSets(D, n) \subseteq SmallSets(D, n + 1)
         /\ \A S \in SmallSets(D, n + 1) : \A o \in S : S \ {o} \in SmallSets(D, n)
         /\ SmallSets(D, Cardinality(D)) = SUBSET D
<1>1. \A S \in SUBSET D : IsFiniteSet(S) /\ Cardinality(S) \in Nat
  BY FS_Subset, FS_CardinalityType
<1>2. SmallSets(D, 0) = {{}}
  BY <1>1, FS_EmptySet DEF SmallSets
<1>3. SmallSets(D, n) \subseteq SmallSets(D, n + 1)
  BY <1>1 DEF SmallSets
<1>4. ASSUME NEW S \in SmallSets(D, n + 1), NEW o \in S
      PROVE  S \ {o} \in SmallSets(D, n)
  <2>1. S \in SUBSET D /\ Cardinality(S) <= n + 1 /\ IsFiniteSet(S)
    BY <1>1 DEF SmallSets
  <2>2. Cardinality(S \ {o}) = Cardinality(S) - 1
    BY <2>1, FS_RemoveElement
  <2> QED BY <1>1, <2>1, <2>2 DEF SmallSets
<1>5. SmallSets(D, Cardinality(D)) = SUBSET D
  BY FS_Subset DEF SmallSets
<1> QED BY <1>2, <1>3, <1>4, <1>5

(* What CancelListed says of the worlds after the orders of S.              *)
LoopBody(f, w, objects, S) ==
  IF S = {} THEN {w}
  ELSE UNION {{CancelOrder(x, o, objects[o]) : x \in f[S \ {o}]} : o \in S}

IsLoop(f, D, w, objects) == f = [S \in SUBSET D |-> LoopBody(f, w, objects, S)]

LEMMA SameBody ==
  ASSUME NEW f, NEW g, NEW w, NEW objects, NEW S,
         \A o \in S : f[S \ {o}] = g[S \ {o}]
  PROVE  LoopBody(f, w, objects, S) = LoopBody(g, w, objects, S)
BY DEF LoopBody

LEMMA LoopExists ==
  ASSUME NEW D, IsFiniteSet(D), NEW w, NEW objects
  PROVE  \E f : IsLoop(f, D, w, objects)
<1> DEFINE Built(n) == \E f : f = [S \in SmallSets(D, n) |-> LoopBody(f, w, objects, S)]
           T == {n \in Nat : Built(n)}
<1>1. 0 \in T
  <2> DEFINE f == [S \in SmallSets(D, 0) |-> {w}]
  <2>1. \A S \in SmallSets(D, 0) : LoopBody(f, w, objects, S) = {w}
    BY SmallSetsFacts DEF LoopBody
  <2>2. f = [S \in SmallSets(D, 0) |-> LoopBody(f, w, objects, S)]
    BY <2>1
  <2> QED BY <2>2
<1>2. ASSUME NEW n \in Nat, n \in T PROVE n + 1 \in T
  <2>1. PICK f : f = [S \in SmallSets(D, n) |-> LoopBody(f, w, objects, S)]
    BY <1>2
  <2> DEFINE g == [S \in SmallSets(D, n + 1) |->
                     IF S \in SmallSets(D, n) THEN f[S]
                     ELSE LoopBody(f, w, objects, S)]
  <2>2. \A S \in SmallSets(D, n + 1) : \A o \in S : f[S \ {o}] = g[S \ {o}]
    BY SmallSetsFacts
  <2>3. \A S \in SmallSets(D, n + 1) : g[S] = LoopBody(f, w, objects, S)
    BY <2>1
  <2>4. g = [S \in SmallSets(D, n + 1) |-> g[S]]
    OBVIOUS
  <2> HIDE DEF g
  <2>5. \A S \in SmallSets(D, n + 1) : g[S] = LoopBody(g, w, objects, S)
    BY <2>2, <2>3, SameBody
  <2>6. g = [S \in SmallSets(D, n + 1) |-> LoopBody(g, w, objects, S)]
    BY <2>4, <2>5
  <2>7. Built(n + 1)
    BY <2>6
  <2> QED BY <2>7
<1>3. Nat \subseteq T
  <2> HIDE DEF T
  <2> QED BY <1>1, <1>2, SetInduction
<1>4. Cardinality(D) \in T
  BY <1>3, FS_CardinalityType
<1> QED BY <1>4, SmallSetsFacts DEF IsLoop

LEMMA CancelListedFacts ==
  ASSUME NEW V, NEW w, WorldOK(w, V), NEW objects, DOMAIN objects \subseteq Orders,
         \A o \in DOMAIN objects : objects[o] \in Rows,
         NEW x \in CancelListed(w, objects)
  PROVE  /\ WorldOK(x, V) /\ Cancelled(w, x)
         /\ \A o \in DOMAIN objects : x.row[o].status # "ACTIVE"
<1>0. PICK D : D = DOMAIN objects
  OBVIOUS
<1> DEFINE h == CHOOSE g : IsLoop(g, D, w, objects)
           OK(y, S) == /\ WorldOK(y, V) /\ Cancelled(w, y)
                       /\ \A o \in S : y.row[o].status # "ACTIVE"
<1>1. IsFiniteSet(D) /\ Cardinality(D) \in Nat
  BY <1>0, SaleAssumption, FS_Subset, FS_CardinalityType
<1>2. \E g : IsLoop(g, D, w, objects)
  BY ONLY <1>1, LoopExists, Zenon
<1>3. IsLoop(h, D, w, objects)
  BY <1>2
<1>4. CancelListed(w, objects) = h[D]
  BY <1>0 DEF CancelListed, LoopBody, IsLoop
<1> HIDE DEF h
<1>5. \A S \in SUBSET D : h[S] = LoopBody(h, w, objects, S)
  BY <1>3 DEF IsLoop
<1> DEFINE T == {n \in Nat : \A S \in SmallSets(D, n) : \A y \in h[S] : OK(y, S)}
<1>a. \A y \in h[{}] : OK(y, {})
  <2>1. Cancelled(w, w)
    BY DEF Cancelled, WorldOK
  <2>2. h[{}] = {w}
    BY <1>5 DEF LoopBody
  <2> QED BY <2>1, <2>2
<1>6. 0 \in T
  <2>1. SmallSets(D, 0) = {{}}
    BY <1>1, SmallSetsFacts
  <2> QED BY <1>a, <2>1
<1>7. ASSUME NEW n \in Nat, n \in T PROVE n + 1 \in T
  <2> SUFFICES ASSUME NEW S \in SmallSets(D, n + 1), NEW y \in h[S] PROVE OK(y, S)
    OBVIOUS
  <2>1. S \in SUBSET D
    BY DEF SmallSets
  <2>2. CASE S = {}
    BY <1>a, <2>2
  <2>3. CASE S # {}
    <3>0. y \in LoopBody(h, w, objects, S)
      BY <1>5, <2>1
    <3>1. PICK o \in S : \E v \in h[S \ {o}] : y = CancelOrder(v, o, objects[o])
      BY <2>3, <3>0 DEF LoopBody
    <3>2. PICK v \in h[S \ {o}] : y = CancelOrder(v, o, objects[o])
      BY <3>1
    <3>3. S \ {o} \in SmallSets(D, n)
      BY <1>1, SmallSetsFacts
    <3>4. OK(v, S \ {o})
      BY <1>7, <3>3
    <3>5. o \in Orders /\ objects[o] \in Rows
      BY <1>0, <2>1
    <3>6. WorldOK(y, V) /\ Cancelled(v, y) /\ y.row[o].status # "ACTIVE"
      BY <3>2, <3>4, <3>5, CancelFacts
    <3>7. \A z \in S \ {o} : y.row[z].status # "ACTIVE"
      BY <1>0, <2>1, <3>4, <3>6 DEF Cancelled
    <3> QED BY <3>4, <3>6, <3>7, CancelledTwice
  <2> QED BY <2>2, <2>3
<1>8. Nat \subseteq T
  <2> HIDE DEF T
  <2> QED BY <1>6, <1>7, SetInduction
<1>9. D \in SmallSets(D, Cardinality(D))
  BY <1>1 DEF SmallSets
<1>10. \A y \in h[D] : OK(y, D)
  BY <1>1, <1>8, <1>9
<1> QED BY <1>0, <1>4, <1>10

-----------------------------------------------------------------------------
(* Placing *)

(* L are the orders of a placement: one without a peer, or the legs of an   *)
(* OCO.                                                                     *)
LegsOf(legs, L) ==
  \/ \E o \in Orders \ DOMAIN Oco : legs = <<o>> /\ L = {o}
  \/ \E o \in DOMAIN Oco : legs = <<o, Oco[o]>> /\ L = {o, Oco[o]}

LEMMA PlacementFacts ==
  ASSUME NEW legs \in Placements \cup {<<Sale>>}
  PROVE  /\ \E L : LegsOf(legs, L)
         /\ legs \in Placements => \A L : LegsOf(legs, L) => Sale \notin L
<1>1. Sale \in Orders \ DOMAIN Oco
  BY SaleAssumption
<1>2. CASE legs = <<Sale>>
  <2>1. LegsOf(legs, {Sale})
    BY <1>1, <1>2 DEF LegsOf
  <2>2. legs \notin Placements
    BY <1>2 DEF Placements
  <2> QED BY <2>1, <2>2
<1>3. CASE \E o \in Orders \ (DOMAIN Oco \cup {Sale}) : legs = <<o>>
  <2>1. PICK o \in Orders \ (DOMAIN Oco \cup {Sale}) : legs = <<o>>
    BY <1>3
  <2>2. LegsOf(legs, {o})
    BY <2>1 DEF LegsOf
  <2>3. \A L : LegsOf(legs, L) => L = {o}
    BY <2>1 DEF LegsOf
  <2> QED BY <2>1, <2>2, <2>3
<1>4. CASE \E o \in DOMAIN Oco : legs = <<o, Oco[o]>>
  <2>1. PICK o \in DOMAIN Oco : legs = <<o, Oco[o]>>
    BY <1>4
  <2>2. LegsOf(legs, {o, Oco[o]})
    BY <2>1 DEF LegsOf
  <2>3. \A L : LegsOf(legs, L) => L = {o, Oco[o]}
    BY <2>1 DEF LegsOf
  <2> QED BY <1>1, <2>1, <2>2, <2>3, OcoFacts
<1> QED BY <1>2, <1>3, <1>4 DEF Placements

LEMMA InsertedFacts ==
  ASSUME NEW w \in Worlds, NEW S \in SUBSET Orders, NEW x, x = Inserted(w, S)
  PROVE  /\ x \in Worlds /\ x.bot = w.bot /\ x.runs = w.runs
         /\ \A o \in S : x.row[o] = NewRow
         /\ \A o \in Orders \ S : x.row[o] = w.row[o]
<1>1. NewRow \in Rows
  BY NoRowFacts
<1>2. /\ x.row = [o \in Orders |-> IF o \in S THEN NewRow ELSE w.row[o]]
      /\ x.bot = w.bot /\ x.runs = w.runs
  BY DEF Inserted, Worlds
<1>3. x \in Worlds
  BY <1>1 DEF Inserted, Worlds
<1> QED BY <1>2, <1>3

(* A row goes in, ACTIVE and WAITING.                                       *)
LEMMA ActiveRow ==
  ASSUME NEW w \in Worlds, NEW o \in Orders, w.row[o].cb = "WAITING",
         NEW x, x = OwnReport(w, o, "ACTIVE")
  PROVE  /\ x \in Worlds /\ x.bot = w.bot /\ x.runs = w.runs
         /\ x.row[o].status = "ACTIVE" /\ x.row[o].cb = "WAITING"
         /\ \A z \in Orders \ {o} : x.row[z] = w.row[z]
<1>1. "ACTIVE" \in Statuses
  BY DEF Statuses
<1>2. x = StoredResult(w, o, "ACTIVE")
  BY ActiveReport
<1>3. /\ RowOnly(w, x, o) /\ x.row[o].status = "ACTIVE"
      /\ x.row[o].cb = w.row[o].cb
  BY <1>1, <1>2, StoredResultFacts
<1> QED BY <1>3 DEF RowOnly

LEMMA PlaceWrites ==
  ASSUME NEW w \in Worlds, NEW legs, NEW L, LegsOf(legs, L),
         NEW x, x = Place(w, legs)
  PROVE  /\ x \in Worlds /\ x.bot = w.bot /\ x.runs = w.runs
         /\ \A z \in L : x.row[z].status = "ACTIVE" /\ x.row[z].cb = "WAITING"
         /\ \A z \in Orders \ L : x.row[z] = w.row[z]
<1>1. L \in SUBSET Orders
  BY OcoFacts DEF LegsOf
<1>2. L = {legs[i] : i \in DOMAIN legs}
  <2>1. CASE \E o \in Orders \ DOMAIN Oco : legs = <<o>> /\ L = {o}
    BY <2>1
  <2>2. CASE \E o \in DOMAIN Oco : legs = <<o, Oco[o]>> /\ L = {o, Oco[o]}
    BY <2>2
  <2> QED BY <2>1, <2>2 DEF LegsOf
<1>3. PICK v : v = Inserted(w, L)
  OBVIOUS
<1>4. /\ v \in Worlds /\ v.bot = w.bot /\ v.runs = w.runs
      /\ \A o \in L : v.row[o] = NewRow
      /\ \A o \in Orders \ L : v.row[o] = w.row[o]
  BY <1>1, <1>3, InsertedFacts
<1>5. PICK y : y = OwnReport(v, legs[1], "ACTIVE")
  OBVIOUS
<1>6. x = IF Len(legs) = 1 THEN y ELSE OwnReport(y, legs[2], "ACTIVE")
  BY <1>2, <1>3, <1>5 DEF Place
<1>7. CASE \E o \in Orders \ DOMAIN Oco : legs = <<o>> /\ L = {o}
  <2>1. PICK o \in Orders : legs = <<o>> /\ L = {o}
    BY <1>7
  <2>2. x = y /\ legs[1] = o
    BY <1>6, <2>1
  <2>3. v.row[o].cb = "WAITING"
    BY <1>4, <2>1, NoRowFacts
  <2>4. /\ y \in Worlds /\ y.bot = v.bot /\ y.runs = v.runs
        /\ y.row[o].status = "ACTIVE" /\ y.row[o].cb = "WAITING"
        /\ \A z \in Orders \ {o} : y.row[z] = v.row[z]
    BY <1>4, <1>5, <2>2, <2>3, ActiveRow
  <2> QED BY ONLY <1>4, <2>1, <2>2, <2>4
<1>8. CASE \E o \in DOMAIN Oco : legs = <<o, Oco[o]>> /\ L = {o, Oco[o]}
  <2>1. PICK o \in Orders, p \in Orders : o # p /\ legs = <<o, p>> /\ L = {o, p}
    BY <1>8, OcoFacts
  <2>2. legs[1] = o /\ x = OwnReport(y, p, "ACTIVE")
    BY <1>6, <2>1
  <2>3. v.row[o].cb = "WAITING" /\ v.row[p].cb = "WAITING"
    BY <1>4, <2>1, NoRowFacts
  <2>4. /\ y \in Worlds /\ y.bot = v.bot /\ y.runs = v.runs
        /\ y.row[o].status = "ACTIVE" /\ y.row[o].cb = "WAITING"
        /\ \A z \in Orders \ {o} : y.row[z] = v.row[z]
    BY <1>4, <1>5, <2>2, <2>3, ActiveRow
  <2>5. y.row[p].cb = "WAITING"
    BY <2>1, <2>3, <2>4
  <2>6. /\ x \in Worlds /\ x.bot = y.bot /\ x.runs = y.runs
        /\ x.row[p].status = "ACTIVE" /\ x.row[p].cb = "WAITING"
        /\ \A z \in Orders \ {p} : x.row[z] = y.row[z]
    BY <2>2, <2>4, <2>5, ActiveRow
  <2> QED BY ONLY <1>4, <2>1, <2>4, <2>6
<1> QED BY <1>7, <1>8 DEF LegsOf

(* Placing inserts rows nobody called for before, of both legs or none.     *)
LEMMA PlaceFacts ==
  ASSUME NEW V, NEW w, WorldOK(w, V), NEW legs, NEW L, LegsOf(legs, L),
         CanPlace(w, legs), NEW x, x = Place(w, legs)
  PROVE  /\ WorldOK(x, V) /\ x.bot = w.bot /\ x.runs = w.runs
         /\ \A z \in L : w.row[z] = NoRow /\ x.row[z] # NoRow
                        /\ x.row[z].status = "ACTIVE"
         /\ \A z \in Orders \ L : x.row[z] = w.row[z]
<1>1. w \in Worlds
  BY DEF WorldOK
<1>2. /\ x \in Worlds /\ x.bot = w.bot /\ x.runs = w.runs
      /\ \A z \in L : x.row[z].status = "ACTIVE" /\ x.row[z].cb = "WAITING"
      /\ \A z \in Orders \ L : x.row[z] = w.row[z]
  BY <1>1, PlaceWrites
<1>3. \A z \in L : w.row[z] = NoRow
  <2>1. CASE \E o \in Orders \ DOMAIN Oco : legs = <<o>> /\ L = {o}
    BY <2>1 DEF CanPlace
  <2>2. CASE \E o \in DOMAIN Oco : legs = <<o, Oco[o]>> /\ L = {o, Oco[o]}
    BY <2>2 DEF CanPlace
  <2> QED BY <2>1, <2>2 DEF LegsOf
<1>4. L \subseteq Orders /\ \A z \in DOMAIN Oco : z \in L <=> Oco[z] \in L
  BY OcoFacts DEF LegsOf
<1>5. \A z \in L : x.row[z] # NoRow
  BY <1>2, NoRowFacts
<1>6. \A o \in Orders : x.row[o] = NoRow \/ x.row[o].status \in Placed
  BY <1>2 DEF WorldOK, Placed
<1>7. ASSUME NEW o \in DOMAIN Oco PROVE LegsOK(x, o)
  <2>1. LegsOK(w, o) /\ o \in Orders /\ Oco[o] \in Orders
    BY OcoFacts DEF WorldOK
  <2>2. CASE o \in L
    BY <1>2, <1>4, <1>5, <2>2 DEF LegsOK
  <2>3. CASE o \notin L
    <3>1. x.row[o] = w.row[o] /\ x.row[Oco[o]] = w.row[Oco[o]]
      BY <1>2, <1>4, <2>1, <2>3
    <3> QED BY <2>1, <3>1 DEF LegsOK
  <2> QED BY <2>2, <2>3
<1>8. ASSUME NEW o \in Orders \ V PROVE SpentCall(x, o)
  <2>1. SpentCall(w, o) /\ w.runs[o] \in Nat
    BY <1>1, WorldFacts DEF WorldOK
  <2>2. CASE o \in L
    <3>1. w.runs[o] = 0
      BY <1>3, <2>1, <2>2, NoRowFacts DEF SpentCall
    <3> QED BY <1>2, <3>1 DEF SpentCall
  <2>3. CASE o \notin L
    <3>1. x.row[o] = w.row[o] /\ (HasOco(o) => x.row[Oco[o]] = w.row[Oco[o]])
      BY <1>2, <1>4, <2>3, OcoFacts DEF HasOco
    <3> QED BY <1>2, <2>1, <3>1 DEF SpentCall
  <2> QED BY <2>2, <2>3
<1> QED BY <1>2, <1>3, <1>5, <1>6, <1>7, <1>8 DEF WorldOK

-----------------------------------------------------------------------------
(* Callbacks *)

(* What no command but bot_stop takes back, and what none but bot_stop      *)
(* places.                                                                  *)
Later(w, x) ==
  /\ x.bot \in {w.bot, "CANCELED"}
  /\ w.row[Sale] = NoRow => x.row[Sale] = NoRow
  /\ \A z \in Orders :
       /\ w.row[z] # NoRow => x.row[z] # NoRow
       /\ w.row[z].status \in Terminal => x.row[z].status \in Terminal
       /\ w.row[z].cb # "WAITING" => x.row[z].cb # "WAITING"

LEMMA LaterTwice ==
  ASSUME NEW w, NEW x, NEW y, Later(w, x), Later(x, y)
  PROVE  Later(w, y)
BY DEF Later

LEMMA LaterSelf ==
  ASSUME NEW w
  PROVE  Later(w, w)
BY DEF Later

LEMMA CancelledIsLater ==
  ASSUME NEW V, NEW w, NEW x, WorldOK(w, V), WorldOK(x, V), Cancelled(w, x)
  PROVE  Later(w, x)
<1>1. Sale \in Orders
  BY SaleAssumption
<1>2. ASSUME NEW z \in Orders, w.row[z] # NoRow PROVE x.row[z] # NoRow
  <2>1. w.row[z].status \in Placed
    BY <1>2 DEF WorldOK
  <2>2. x.row[z].status \in Placed
    BY <2>1 DEF Cancelled, Placed, Terminal
  <2> QED BY <2>2, NoRowFacts DEF Placed, Terminal
<1> QED BY <1>1, <1>2 DEF Cancelled, Later, Terminal

LEMMA PlacedIsLater ==
  ASSUME NEW V, NEW w, WorldOK(w, V), NEW legs \in Placements,
         CanPlace(w, legs), NEW x, x = Place(w, legs)
  PROVE  WorldOK(x, V) /\ Later(w, x) /\ x.runs = w.runs /\ x.bot = w.bot
<1>1. PICK L : LegsOf(legs, L) /\ Sale \notin L
  BY PlacementFacts
<1>2. /\ WorldOK(x, V) /\ x.bot = w.bot /\ x.runs = w.runs
      /\ \A z \in L : w.row[z] = NoRow /\ x.row[z] # NoRow
                     /\ x.row[z].status = "ACTIVE"
      /\ \A z \in Orders \ L : x.row[z] = w.row[z]
  BY <1>1, PlaceFacts
<1>3. Sale \in Orders
  BY SaleAssumption
<1> QED BY <1>1, <1>2, <1>3, NoRowFacts DEF Later, Terminal

LEMMA ActiveObjectsFacts ==
  ASSUME NEW w \in Worlds, NEW objects, objects = ActiveObjects(w.row)
  PROVE  /\ DOMAIN objects = {o \in Orders : w.row[o].status = "ACTIVE"}
         /\ \A o \in DOMAIN objects : objects[o] \in Rows
BY WorldFacts DEF ActiveObjects

(* The algorithm's method starts no callback: whatever it places or cancels *)
(* calls nobody.                                                            *)
LEMMA MethodFacts ==
  ASSUME NEW V, NEW w, WorldOK(w, V), NEW o, NEW r, NEW e \in Method(w, o, r)
  PROVE  /\ WorldOK(e.w, V) /\ Later(w, e.w) /\ e.w.runs = w.runs
         /\ e.cb \in {"DONE", "ERROR"}
<1> DEFINE stopped == [w EXCEPT !.bot = "CANCELED"]
<1>1. w \in Worlds
  BY DEF WorldOK
<1>2. PICK v : v = stopped
  OBVIOUS
<1>3. v \in Worlds /\ v.row = w.row /\ v.runs = w.runs /\ v.bot = "CANCELED"
  BY <1>1, <1>2 DEF Worlds, BotStatuses
<1>4. WorldOK(v, V) /\ Later(w, v)
  BY <1>3 DEF WorldOK, Later, LegsOK, SpentCall
<1>5. PICK objects : objects = ActiveObjects(w.row)
  OBVIOUS
<1>6. /\ DOMAIN objects \subseteq Orders
      /\ \A z \in DOMAIN objects : objects[z] \in Rows
  BY <1>1, <1>5, ActiveObjectsFacts
<1>7. \/ e.w \in CancelListed(v, objects) /\ e.cb = "DONE"
      \/ e.w = w /\ e.cb \in {"DONE", "ERROR"}
      \/ /\ \E legs \in Placements : CanPlace(w, legs) /\ e.w = Place(w, legs)
         /\ e.cb = "DONE"
      \/ e.w \in CancelListed(w, objects) /\ e.cb = "DONE"
  BY <1>2, <1>5 DEF Method
<1>8. CASE e.w \in CancelListed(v, objects) /\ e.cb = "DONE"
  <2>1. WorldOK(e.w, V) /\ Cancelled(v, e.w)
    BY <1>4, <1>6, <1>8, CancelListedFacts
  <2>2. Later(v, e.w)
    BY <1>4, <2>1, CancelledIsLater
  <2> QED BY <1>3, <1>4, <1>8, <2>1, <2>2, LaterTwice DEF Cancelled
<1>9. CASE e.w = w /\ e.cb \in {"DONE", "ERROR"}
  BY <1>9, LaterSelf
<1>10. CASE /\ \E legs \in Placements : CanPlace(w, legs) /\ e.w = Place(w, legs)
            /\ e.cb = "DONE"
  BY <1>10, PlacedIsLater
<1>11. CASE e.w \in CancelListed(w, objects) /\ e.cb = "DONE"
  <2>1. WorldOK(e.w, V) /\ Cancelled(w, e.w)
    BY <1>6, <1>11, CancelListedFacts
  <2> QED BY <1>11, <2>1, CancelledIsLater DEF Cancelled
<1> QED BY <1>7, <1>8, <1>9, <1>10, <1>11

(* An order and its peer leave the promise together.                        *)
Closed(V) == \A o \in DOMAIN Oco : o \in V <=> Oco[o] \in V

(* The callback of o was not started, nor can the peer's be any more.       *)
Ready(w, o, V) ==
  /\ w.row[o] # NoRow
  /\ HasOco(o) => w.row[Oco[o]].cb # "WAITING"
  /\ o \notin V => w.runs[o] = 0 /\ (HasOco(o) => w.runs[Oco[o]] = 0)

OneMore(w, x, o) == x.runs = [w.runs EXCEPT ![o] = @ + 1]

LEMMA StartedFacts ==
  ASSUME NEW V, Closed(V), NEW w, WorldOK(w, V), NEW o \in Orders, Ready(w, o, V),
         NEW x, x = [StoredCallback(w, o, "STARTED") EXCEPT !.runs[o] = @ + 1]
  PROVE  /\ WorldOK(x, V) /\ Later(w, x) /\ OneMore(w, x, o)
         /\ x.row[o].cb = "STARTED"
<1>1. w \in Worlds /\ w.row[o] \in Rows
  BY WorldFacts DEF WorldOK
<1>2. PICK v : v = StoredCallback(w, o, "STARTED")
  OBVIOUS
<1>3. /\ RowOnly(w, v, o) /\ v.row[o].cb = "STARTED"
      /\ v.row[o].status = w.row[o].status
  <2>1. "STARTED" \in CallbackStatuses
    BY DEF CallbackStatuses
  <2> QED BY <1>1, <1>2, <2>1, StoredCallbackFacts
<1>4. /\ x \in Worlds /\ x.row = v.row /\ x.bot = v.bot
      /\ x.runs = [v.runs EXCEPT ![o] = @ + 1]
  <2>1. x = [v EXCEPT !.runs[o] = v.runs[o] + 1]
    BY <1>2
  <2>2. v \in Worlds
    BY <1>3 DEF RowOnly
  <2>3. v.runs[o] \in Nat
    BY <2>2, WorldFacts
  <2>4. v.runs[o] + 1 \in Nat
    BY <2>3
  <2> QED BY ONLY <2>1, <2>2, <2>4, o \in Orders DEF Worlds
<1>5. /\ x \in Worlds /\ x.bot = w.bot /\ OneMore(w, x, o)
      /\ x.row[o].cb = "STARTED" /\ x.row[o].status = w.row[o].status
      /\ \A z \in Orders \ {o} : x.row[z] = w.row[z]
  BY <1>3, <1>4 DEF RowOnly, OneMore
<1>6. w.row[o] # NoRow /\ x.row[o] # NoRow /\ x.row[o].status \in Placed
  <2>1. w.row[o] # NoRow /\ w.row[o].status \in Placed
    BY DEF Ready, WorldOK
  <2> QED BY <1>5, <2>1, NoRowFacts DEF Placed, Terminal
<1>7. Later(w, x)
  BY <1>5, <1>6, SaleAssumption DEF Later
<1>8. \A z \in Orders : x.row[z] = NoRow \/ x.row[z].status \in Placed
  BY <1>5, <1>6 DEF WorldOK
<1>9. ASSUME NEW z \in DOMAIN Oco PROVE LegsOK(x, z)
  <2>1. LegsOK(w, z)
    BY DEF WorldOK
  <2> QED BY <1>5, <1>6, <2>1, OcoFacts DEF LegsOK
<1>10. ASSUME NEW z \in Orders \ V PROVE SpentCall(x, z)
  <2>1. SpentCall(w, z) /\ w.runs \in [Orders -> Nat]
    BY <1>1, WorldFacts DEF WorldOK
  <2>2. CASE z = o
    <3>1. x.runs[z] = 1
      BY <1>5, <1>10, <2>1, <2>2 DEF Ready, OneMore
    <3>2. HasOco(z) => x.runs[Oco[z]] = 0 /\ x.row[Oco[z]].cb # "WAITING"
      BY <1>5, <1>10, <2>1, <2>2, OcoFacts DEF Ready, OneMore, HasOco
    <3> QED BY <1>5, <2>2, <3>1, <3>2 DEF SpentCall
  <2>3. CASE HasOco(o) /\ z = Oco[o]
    <3>1. o \notin V /\ z # o
      BY <1>10, <2>3, OcoFacts DEF Closed, HasOco
    <3>2. x.runs[z] = 0
      BY <1>5, <2>1, <2>3, <3>1 DEF Ready, OneMore
    <3> QED BY <3>2 DEF SpentCall
  <2>4. CASE z # o /\ ~(HasOco(o) /\ z = Oco[o])
    <3>1. x.runs[z] = w.runs[z] /\ x.row[z] = w.row[z]
      BY <1>5, <2>1, <2>4 DEF OneMore
    <3>2. HasOco(z) => /\ x.runs[Oco[z]] = w.runs[Oco[z]]
                       /\ x.row[Oco[z]] = w.row[Oco[z]]
      BY <1>5, <2>1, <2>4, OcoFacts DEF OneMore, HasOco
    <3> QED BY <2>1, <3>1, <3>2 DEF SpentCall
  <2> QED BY <2>2, <2>3, <2>4
<1> QED BY <1>5, <1>7, <1>8, <1>9, <1>10 DEF WorldOK

(* The outcome is saved.                                                    *)
LEMMA OutcomeFacts ==
  ASSUME NEW V, NEW w, WorldOK(w, V), NEW o \in Orders, w.row[o] # NoRow,
         NEW c \in {"DONE", "ERROR"}, NEW x, x = StoredCallback(w, o, c)
  PROVE  /\ WorldOK(x, V) /\ Later(w, x) /\ x.runs = w.runs
         /\ x.row[o].cb # "WAITING"
<1>1. w \in Worlds
  BY DEF WorldOK
<1>2. RowOnly(w, x, o) /\ x.row[o].cb = c /\ x.row[o].status = w.row[o].status
  <2>1. c \in CallbackStatuses
    BY DEF CallbackStatuses
  <2> QED BY <1>1, <2>1, StoredCallbackFacts
<1>3. x.row[o] # NoRow /\ x.row[o].status \in Placed
  <2>1. w.row[o].status \in Placed
    BY DEF WorldOK
  <2> QED BY <1>2, <2>1, NoRowFacts DEF Placed, Terminal
<1>4. Later(w, x)
  BY <1>2, <1>3, SaleAssumption DEF Later, RowOnly
<1>5. \A z \in Orders : x.row[z] = NoRow \/ x.row[z].status \in Placed
  BY <1>2, <1>3 DEF WorldOK, RowOnly
<1>6. ASSUME NEW z \in DOMAIN Oco PROVE LegsOK(x, z)
  <2>1. LegsOK(w, z)
    BY DEF WorldOK
  <2> QED BY <1>2, <1>3, <2>1, OcoFacts DEF LegsOK, RowOnly
<1>7. \A z \in Orders \ V : SpentCall(x, z)
  BY <1>1, <1>2, <1>4, SpentStays DEF WorldOK, Later, RowOnly
<1> QED BY <1>2, <1>4, <1>5, <1>6, <1>7 DEF WorldOK, RowOnly

LEMMA RunFacts ==
  ASSUME NEW V, Closed(V), NEW w, WorldOK(w, V), NEW o \in Orders, Ready(w, o, V),
         NEW r, NEW x \in Run(w, o, r)
  PROVE  /\ WorldOK(x, V) /\ Later(w, x) /\ OneMore(w, x, o)
         /\ x.row[o].cb # "WAITING"
<1>1. PICK v : v = [StoredCallback(w, o, "STARTED") EXCEPT !.runs[o] = @ + 1]
  OBVIOUS
<1>2. WorldOK(v, V) /\ Later(w, v) /\ OneMore(w, v, o) /\ v.row[o].cb = "STARTED"
  BY <1>1, StartedFacts
<1>3. PICK e \in Method(v, o, r) : x = StoredCallback(e.w, o, e.cb)
  BY <1>1 DEF Run
<1>4. /\ WorldOK(e.w, V) /\ Later(v, e.w) /\ e.w.runs = v.runs
      /\ e.cb \in {"DONE", "ERROR"}
  BY <1>2, <1>3, MethodFacts
<1>5. e.w.row[o] # NoRow
  BY <1>2, <1>4 DEF Ready, Later
<1>6. /\ WorldOK(x, V) /\ Later(e.w, x) /\ x.runs = e.w.runs
      /\ x.row[o].cb # "WAITING"
  BY <1>3, <1>4, <1>5, OutcomeFacts
<1>7. Later(w, x)
  BY <1>2, <1>4, <1>6, LaterTwice
<1> QED BY <1>2, <1>4, <1>6, <1>7 DEF OneMore

-----------------------------------------------------------------------------
(* What the operator reports *)

(* The callback of d was started between w and x, for good.                 *)
CallOf(w, x, d) ==
  /\ d \in HasCallback /\ w.bot = "ON" /\ w.row[d].cb = "WAITING"
  /\ OneMore(w, x, d)
  /\ x.row[d].cb # "WAITING" /\ x.row[d].status \in Terminal
  /\ HasOco(d) => x.row[Oco[d]].cb # "WAITING"

(* It was the first of the order and its peer.                              *)
LEMMA FirstCall ==
  ASSUME NEW V, Closed(V), NEW w, WorldOK(w, V), NEW d \in Orders \ V,
         w.row[d].cb = "WAITING"
  PROVE  w.runs[d] = 0 /\ (HasOco(d) => w.runs[Oco[d]] = 0)
<1>1. \A z \in Orders : w.runs[z] \in Nat
  BY WorldFacts DEF WorldOK
<1>2. w.runs[d] = 0
  BY <1>1 DEF WorldOK, SpentCall
<1>3. ASSUME HasOco(d) PROVE w.runs[Oco[d]] = 0
  <2>1. /\ Oco[d] \in Orders \ V /\ HasOco(Oco[d]) /\ Oco[Oco[d]] = d
    BY <1>3, OcoFacts DEF Closed, HasOco
  <2>2. SpentCall(w, Oco[d])
    BY <2>1 DEF WorldOK
  <2> QED BY <1>1, <2>1, <2>2 DEF SpentCall
<1> QED BY <1>2, <1>3

(* What a report of o may lead to: a call at most, of the order or its peer,*)
(* and nothing when the bot is not ON.                                      *)
Reported(w, x, o, V) ==
  /\ WorldOK(x, V) /\ Later(w, x)
  /\ \/ x.runs = w.runs
     \/ CallOf(w, x, o)
     \/ HasOco(o) /\ CallOf(w, x, Oco[o])
  /\ w.bot # "ON" => /\ x.runs = w.runs
                     /\ \A z \in Orders : w.row[z] = NoRow => x.row[z] = NoRow

LEMMA RowSaved ==
  ASSUME NEW V, NEW w, WorldOK(w, V), NEW o \in Orders, w.row[o] # NoRow,
         NEW x, RowOnly(w, x, o),
         x.row[o].status \in Terminal \/ x.row[o].status = w.row[o].status,
         x.row[o].cb \in {w.row[o].cb, "OCO_CANCELED"}
  PROVE  /\ WorldOK(x, V) /\ Later(w, x) /\ x.runs = w.runs
         /\ \A z \in Orders : w.row[z] = NoRow => x.row[z] = NoRow
<1>1. w \in Worlds
  BY DEF WorldOK
<1>2. x.row[o] # NoRow /\ x.row[o].status \in Placed
  <2>1. w.row[o].status \in Placed
    BY DEF WorldOK
  <2> QED BY <2>1, NoRowFacts DEF Placed, Terminal
<1>3. Later(w, x)
  BY <1>2, SaleAssumption DEF Later, RowOnly
<1>4. \A z \in Orders : x.row[z] = NoRow \/ x.row[z].status \in Placed
  BY <1>2 DEF WorldOK, RowOnly
<1>5. ASSUME NEW z \in DOMAIN Oco PROVE LegsOK(x, z)
  <2>1. LegsOK(w, z)
    BY DEF WorldOK
  <2> QED BY <1>2, <2>1, OcoFacts DEF LegsOK, RowOnly
<1>6. \A z \in Orders \ V : SpentCall(x, z)
  BY <1>1, <1>3, SpentStays DEF WorldOK, Later, RowOnly
<1> QED BY <1>3, <1>4, <1>5, <1>6 DEF WorldOK, RowOnly

LEMMA DispatchedFacts ==
  ASSUME NEW V, Closed(V), NEW w, WorldOK(w, V), NEW o \in Orders,
         w.row[o] # NoRow, NEW s \in Terminal,
         NEW c, c = CallbackOrder(w, o, s), NEW x \in Follow(c)
  PROVE  /\ Reported(w, x, o, V) /\ x.row[o].status \in Terminal
         /\ c.called # None => CallOf(w, x, c.called)
<1>1. w \in Worlds
  BY DEF WorldOK
<1>3. PICK v : v = c.w
  OBVIOUS
<1>4. /\ RowOnly(w, v, o) /\ v.row[o].status = s
      /\ v.row[o].cb \in {w.row[o].cb, "OCO_CANCELED"}
      /\ c = Nobody(v) \/ Calls(w, c, o)
  BY <1>1, <1>3, ReportFacts
<1>5. /\ WorldOK(v, V) /\ Later(w, v) /\ v.runs = w.runs
      /\ \A z \in Orders : w.row[z] = NoRow => v.row[z] = NoRow
  BY <1>4, RowSaved
<1>7. CASE c = Nobody(v)
  <2>1. x = v
    BY <1>3, <1>7, NobodyFacts DEF Follow
  <2> QED BY <1>4, <1>5, <1>7, <2>1, NobodyFacts DEF Reported
<1>8. CASE Calls(w, c, o)
  <2>1. PICK d : d = c.called
    OBVIOUS
  <2>2. /\ d \in HasCallback /\ d \in Orders /\ d # None
        /\ w.bot = "ON" /\ w.row[d].cb = "WAITING"
        /\ ~HasOco(o) => d = o
        /\ HasOco(o) => /\ d = Oco[o] /\ w.row[d].status # "ACTIVE"
                        /\ v.row[o].cb = "OCO_CANCELED"
    BY <1>3, <1>8, <2>1, CallbackAssumption, OrdersAssumption DEF Calls
  <2>3. HasOco(d) => HasOco(o) /\ Oco[d] = o
    BY <2>2, OcoFacts DEF HasOco
  <2>4. v.row[d].status \in Terminal
    <3>1. CASE HasOco(o)
      <4>1. w.row[d] # NoRow
        BY <2>2, <3>1, OcoFacts DEF WorldOK, LegsOK, HasOco
      <4>2. v.row[d] = w.row[d]
        BY <1>4, <2>2, <3>1, OcoFacts DEF RowOnly, HasOco
      <4> QED BY <2>2, <3>1, <4>1, <4>2 DEF WorldOK, Placed
    <3> QED BY <1>4, <2>2, <3>1
  <2>5. d \notin V => w.runs[d] = 0 /\ (HasOco(d) => w.runs[Oco[d]] = 0)
    BY <2>2, FirstCall
  <2>6. v.row[d] # NoRow
    BY <2>4, NoRowFacts DEF Terminal
  <2>7. Ready(v, d, V)
    BY <1>5, <2>2, <2>3, <2>5, <2>6 DEF Ready
  <2>8. x \in Run(v, d, c.object)
    BY <1>3, <2>1, <2>2 DEF Follow
  <2>9. /\ WorldOK(x, V) /\ Later(v, x) /\ OneMore(v, x, d)
        /\ x.row[d].cb # "WAITING"
    BY <1>5, <2>2, <2>7, <2>8, RunFacts
  <2>10. Later(w, x)
    BY <1>5, <2>9, LaterTwice
  <2>11. CallOf(w, x, d)
    BY <1>5, <2>2, <2>3, <2>4, <2>9 DEF CallOf, OneMore, Later
  <2>12. x.row[o].status \in Terminal
    BY <1>4, <2>9 DEF Later
  <2> QED BY <2>1, <2>2, <2>9, <2>10, <2>11, <2>12 DEF Reported
<1> QED BY <1>4, <1>7, <1>8

LEMMA ReportedFacts ==
  ASSUME NEW V, Closed(V), NEW w, WorldOK(w, V), NEW o \in Orders,
         w.row[o] # NoRow, NEW s \in Terminal, NEW x \in Report(w, o, s)
  PROVE  Reported(w, x, o, V) /\ x.row[o].status \in Terminal
<1>1. x \in Follow(CallbackOrder(w, o, s))
  BY DEF Report
<1> QED BY <1>1, DispatchedFacts

(* The peer's report after the order's: still one call at most.             *)
LEMMA PeerReportedFacts ==
  ASSUME NEW V, Closed(V), NEW w, WorldOK(w, V), NEW o \in Orders,
         w.row[o] # NoRow, NEW x, Reported(w, x, o, V), NEW y \in ReportPeer(x, o)
  PROVE  Reported(w, y, o, V)
<1>1. CASE ~HasOco(o)
  BY <1>1 DEF ReportPeer
<1>2. CASE HasOco(o)
  <2>1. PICK p \in Orders : p = Oco[o] /\ HasOco(p) /\ Oco[p] = o
    BY <1>2, OcoFacts DEF HasOco
  <2>2. y \in Report(x, p, "CANCELED")
    BY <1>2, <2>1 DEF ReportPeer
  <2>3. WorldOK(x, V) /\ Later(w, x)
    BY DEF Reported
  <2>4. x.row[p] # NoRow
    BY <1>2, <2>1, <2>3 DEF WorldOK, LegsOK, Later, HasOco
  <2>5. Reported(x, y, p, V)
    <3>1. "CANCELED" \in Terminal
      BY DEF Terminal
    <3> QED BY <2>2, <2>3, <2>4, <3>1, ReportedFacts
  <2>6. WorldOK(y, V) /\ Later(x, y) /\ Later(w, y)
    BY <2>3, <2>5, LaterTwice DEF Reported
  <2>7. w.bot # "ON" => x.bot # "ON"
    BY <2>3 DEF Later
  <2>8. w.bot # "ON" => /\ y.runs = w.runs
                        /\ \A z \in Orders : w.row[z] = NoRow => y.row[z] = NoRow
    BY <2>5, <2>7 DEF Reported
  <2>9. CASE x.runs = w.runs
    <3>1. ASSUME NEW d \in Orders, CallOf(x, y, d) PROVE CallOf(w, y, d)
      BY <2>3, <2>7, <2>9, <3>1 DEF CallOf, OneMore, Later
    <3> QED BY <1>2, <2>1, <2>5, <2>6, <2>8, <2>9, <3>1 DEF Reported
  <2>10. CASE CallOf(w, x, o) \/ CallOf(w, x, p)
    <3>1. x.row[o].cb # "WAITING" /\ x.row[p].cb # "WAITING"
      BY <1>2, <2>1, <2>10 DEF CallOf
    <3>2. y.runs = x.runs
      BY <2>1, <2>5, <3>1 DEF Reported, CallOf
    <3>3. ASSUME NEW d \in {o, p}, CallOf(w, x, d) PROVE CallOf(w, y, d)
      BY <2>1, <2>6, <3>2, <3>3 DEF CallOf, OneMore, Later
    <3> QED BY <1>2, <2>1, <2>6, <2>8, <2>10, <3>3 DEF Reported
  <2> QED BY <2>1, <2>9, <2>10 DEF Reported
<1> QED BY <1>1, <1>2

-----------------------------------------------------------------------------
(* Commands *)

LEMMA WorldIs ==
  /\ World.row = row /\ World.bot = bot /\ World.runs = runs
  /\ World'.row = row' /\ World'.bot = bot' /\ World'.runs = runs'
  /\ World.nested = nested /\ World'.nested = nested'
BY DEF World

LEMMA BecomeFacts ==
  ASSUME NEW w \in Worlds, Become(w)
  PROVE  World' = w /\ fresh' = fresh
BY DEF Become, World, Worlds

LEMMA ByHandFacts ==
  /\ Closed(ByHand)
  /\ forced' = forced => ByHand' = ByHand
  /\ forced \subseteq forced' => ByHand \subseteq ByHand'
<1>1. Closed(ByHand)
  BY OcoFacts DEF Closed, ByHand
<1>2. forced' = forced => ByHand' = ByHand
  BY DEF ByHand
<1>3. forced \subseteq forced' => ByHand \subseteq ByHand'
  BY DEF ByHand
<1> QED BY <1>1, <1>2, <1>3

(* AnswerFill, FakeCancel and FakeExpire report an order, its peer or not.  *)
LEMMA ReportingFacts ==
  ASSUME FakeInv, AnswerFill \/ \E o \in Orders : FakeCancel(o) \/ FakeExpire(o)
  PROVE  \E o \in Orders : row[o] # NoRow /\ Reported(World, World', o, ByHand)
<1>1. WorldOK(World, ByHand) /\ Closed(ByHand) /\ World \in Worlds
  BY ByHandFacts DEF FakeInv, WorldOK
<1>3. ASSUME NEW o \in Orders, row[o] # NoRow, NEW s \in Terminal,
             NEW x \in Report(World, o, s)
      PROVE  Reported(World, x, o, ByHand)
  BY <1>1, <1>3, WorldIs, ReportedFacts
<1>4. ASSUME NEW o, NEW w, Reported(World, w, o, ByHand), Become(w)
      PROVE  Reported(World, World', o, ByHand)
  <2>1. w \in Worlds
    BY <1>4 DEF Reported, WorldOK
  <2>2. World' = w
    BY <1>4, <2>1, BecomeFacts
  <2> QED BY <1>4, <2>2
<1>5. ASSUME NEW o \in Orders PROVE Reported(World, World, o, ByHand)
  BY <1>1, LaterSelf DEF Reported
<1>6. CASE AnswerFill
  <2>1. fill \in Orders /\ row[fill] # NoRow
    BY <1>6 DEF AnswerFill, FakeInv, TypeOK
  <2>2. CASE Become(World)
    BY <1>4, <1>5, <2>1, <2>2
  <2>3. CASE \E w \in FillReports(World, fill) : Become(w)
    <3>1. PICK x, w : /\ x \in Report(World, fill, "FILLED")
                      /\ w \in ReportPeer(x, fill) /\ Become(w)
      BY <2>3 DEF FillReports
    <3>2. Reported(World, x, fill, ByHand)
      BY <1>3, <2>1, <3>1 DEF Terminal
    <3>3. Reported(World, w, fill, ByHand)
      BY <1>1, <2>1, <3>1, <3>2, WorldIs, PeerReportedFacts
    <3> QED BY <1>4, <2>1, <3>1, <3>3
  <2> QED BY <1>6, <2>2, <2>3 DEF AnswerFill
<1>7. ASSUME NEW o \in Orders, FakeCancel(o)
      PROVE  row[o] # NoRow /\ Reported(World, World', o, ByHand)
  <2>1. PICK x, w : /\ row[o] # NoRow /\ x \in Report(World, o, "CANCELED")
                    /\ w \in ReportPeer(x, o) /\ Become(w)
    BY <1>7 DEF FakeCancel
  <2>2. Reported(World, x, o, ByHand)
    BY <1>3, <2>1 DEF Terminal
  <2>3. Reported(World, w, o, ByHand)
    BY <1>1, <2>1, <2>2, WorldIs, PeerReportedFacts
  <2> QED BY <1>4, <2>1, <2>3
<1>8. ASSUME NEW o \in Orders, FakeExpire(o)
      PROVE  row[o] # NoRow /\ Reported(World, World', o, ByHand)
  <2>1. PICK x : x \in Report(World, o, "EXPIRED") /\ Become(x)
    BY <1>8 DEF FakeExpire
  <2>2. row[o] # NoRow
    BY <1>8, NoRowFacts DEF FakeExpire
  <2>3. Reported(World, x, o, ByHand)
    BY <1>3, <2>1, <2>2 DEF Terminal
  <2> QED BY <1>4, <2>1, <2>2, <2>3
<1> QED BY <1>6, <1>7, <1>8

LEMMA CancelCommandFacts ==
  ASSUME FakeInv, NEW o \in Orders, CancelCommand(o)
  PROVE  /\ WorldOK(World', ByHand) /\ Cancelled(World, World')
         /\ Later(World, World') /\ row[o] # NoRow
<1>1. WorldOK(World, ByHand) /\ World \in Worlds
  BY DEF FakeInv, WorldOK
<1>2. PICK x : x = CancelOrder(World, o, row[o]) /\ Become(x) /\ row[o] # NoRow
  BY DEF CancelCommand
<1>3. row[o] \in Rows
  BY <1>1, WorldIs, WorldFacts
<1>4. WorldOK(x, ByHand) /\ Cancelled(World, x)
  BY <1>1, <1>2, <1>3, CancelFacts
<1>5. World' = x
  BY <1>2, <1>4, BecomeFacts DEF WorldOK
<1> QED BY <1>1, <1>2, <1>4, <1>5, CancelledIsLater

LEMMA MoreByHand ==
  ASSUME NEW V, NEW U, V \subseteq U, NEW w, WorldOK(w, V)
  PROVE  WorldOK(w, U)
BY DEF WorldOK

(* order_callback: who it calls is an order given to it, or the peer.       *)
LEMMA CallbackCommandFacts ==
  ASSUME FakeInv, NEW o \in Orders, CallbackCommand(o)
  PROVE  /\ WorldOK(World', ByHand') /\ Later(World, World') /\ row[o] # NoRow
         /\ \/ runs' = runs
            \/ \E d \in Orders : d \in ByHand' /\ OneMore(World, World', d)
<1> DEFINE V == ByHand'
<1>1. PICK x, r : /\ r = [row[o] EXCEPT !.cb = "WAITING"]
                  /\ x \in Follow(ExecuteOrderCallback(World, o, r))
                  /\ Become(x)
  BY DEF CallbackCommand
<1>2. row[o] # NoRow /\ forced' = forced \cup {o}
  BY DEF CallbackCommand
<1>3. Closed(V) /\ ByHand \subseteq V
  <2>1. Closed(ByHand')
    BY OcoFacts DEF Closed, ByHand
  <2> QED BY <1>2, <2>1, ByHandFacts
<1>4. o \in V /\ (HasOco(o) => Oco[o] \in V)
  BY <1>2 DEF ByHand, HasOco
<1>5. WorldOK(World, V) /\ World \in Worlds
  BY <1>3, MoreByHand DEF FakeInv, WorldOK
<1>6. row[o] \in Rows
  BY <1>5, WorldIs, WorldFacts
<1>7. r \in Rows /\ r.status = row[o].status
  <2>1. "WAITING" \in CallbackStatuses
    BY DEF CallbackStatuses
  <2> QED BY <1>1, <1>6, <2>1, CallbackFacts
<1>8. PICK c : c = ExecuteOrderCallback(World, o, r)
  OBVIOUS
<1> SUFFICES /\ WorldOK(World', V) /\ Later(World, World')
             /\ \/ runs' = runs
                \/ \E d \in Orders : d \in V /\ OneMore(World, World', d)
  BY <1>2
<1> HIDE DEF V
<1>9. ASSUME WorldOK(x, V), Later(World, x),
             x.runs = runs \/ \E d \in Orders : d \in V /\ OneMore(World, x, d)
      PROVE  /\ WorldOK(World', V) /\ Later(World, World')
             /\ \/ runs' = runs
                \/ \E d \in Orders : d \in V /\ OneMore(World, World', d)
  <2>1. World' = x
    BY <1>1, <1>9, BecomeFacts DEF WorldOK
  <2> QED BY <1>9, <2>1, WorldIs
<1>10. ASSUME NEW w, WorldOK(w, V), Later(World, w), w.runs = runs, x = w
       PROVE  /\ WorldOK(World', V) /\ Later(World, World')
              /\ \/ runs' = runs
                 \/ \E d \in Orders : d \in V /\ OneMore(World, World', d)
  BY <1>9, <1>10
<1>11. ASSUME NEW w, WorldOK(w, V), Later(World, w), w.runs = runs,
              NEW d \in Orders, d \in V, w.row[d] # NoRow,
              HasOco(d) => w.row[Oco[d]].cb # "WAITING",
              NEW q, x \in Run(w, d, q)
       PROVE  /\ WorldOK(World', V) /\ Later(World, World')
              /\ \/ runs' = runs
                 \/ \E z \in Orders : z \in V /\ OneMore(World, World', z)
  <2>1. Ready(w, d, V)
    BY <1>11 DEF Ready
  <2>2. WorldOK(x, V) /\ Later(w, x) /\ OneMore(w, x, d)
    BY <1>3, <1>11, <2>1, RunFacts
  <2>3. Later(World, x) /\ OneMore(World, x, d)
    BY <1>11, <2>2, LaterTwice, WorldIs DEF OneMore
  <2> QED BY <1>9, <1>11, <2>2, <2>3
<1>12. ASSUME NEW d \in HasCallback PROVE d \in Orders /\ d # None
  BY CallbackAssumption, OrdersAssumption
<1>13. CASE ~HasOco(o)
  <2>1. c = Execute(World, o, r)
    BY <1>5, <1>7, <1>8, <1>13, CallFacts
  <2>2. CASE c = Nobody(World)
    <3>1. x = World
      BY <1>1, <1>8, <2>2, NobodyFacts DEF Follow
    <3> QED BY <1>2, <1>5, <1>10, <3>1, LaterSelf, WorldIs
  <2>3. CASE c.called = o /\ o \in HasCallback
    <3>1. c.w = World
      BY <2>1, ExecuteFacts
    <3>2. x \in Run(World, o, c.object)
      BY <1>1, <1>8, <1>12, <2>3, <3>1 DEF Follow
    <3> QED BY <1>2, <1>4, <1>5, <1>11, <1>13, <3>2, LaterSelf, WorldIs
  <2> QED BY <2>1, <2>2, <2>3, ExecuteFacts
<1>14. CASE HasOco(o) /\ row[Oco[o]].status = "ACTIVE"
  <2>1. c = Nobody(World)
    BY <1>5, <1>7, <1>8, <1>14, CallFacts, WorldIs
  <2>2. x = World
    BY <1>1, <1>8, <2>1, NobodyFacts DEF Follow
  <2> QED BY <1>2, <1>5, <1>10, <2>2, LaterSelf, WorldIs
<1>15. CASE HasOco(o) /\ row[Oco[o]].status # "ACTIVE"
  <2>1. PICK p \in Orders : p = Oco[o] /\ p # o /\ Oco[p] = o
    BY <1>15, OcoFacts DEF HasOco
  <2>2. PICK v : v = Passed(World, o, r)
    OBVIOUS
  <2>3. /\ RowOnly(World, v, o) /\ v.row[o].status = row[o].status
        /\ v.row[o].cb = "OCO_CANCELED"
    BY <1>5, <1>7, <2>2, PassedFacts
  <2>4. WorldOK(v, V) /\ Later(World, v) /\ v.runs = runs
    BY <1>2, <1>5, <2>3, RowSaved, WorldIs
  <2>5. c = Execute(v, p, row[p])
    BY <1>5, <1>7, <1>8, <1>15, <2>1, <2>2, CallFacts, WorldIs
  <2>6. CASE c = Nobody(v)
    <3>1. x = v
      BY <1>1, <1>8, <2>6, NobodyFacts DEF Follow
    <3> QED BY <1>2, <1>10, <2>4, <3>1
  <2>7. CASE c.called = p /\ p \in HasCallback
    <3>1. c.w = v
      BY <2>5, ExecuteFacts
    <3>2. x \in Run(v, p, c.object)
      BY <1>1, <1>8, <1>12, <2>7, <3>1 DEF Follow
    <3>3. row[p] # NoRow
      BY <1>2, <1>5, <1>15, <2>1, WorldIs DEF WorldOK, LegsOK, HasOco
    <3>4. v.row[p] # NoRow
      BY <2>1, <2>3, <3>3, WorldIs DEF RowOnly
    <3> QED BY <1>2, <1>4, <1>11, <1>15, <2>1, <2>3, <2>4, <3>2, <3>4
  <2> QED BY <2>5, <2>6, <2>7, ExecuteFacts
<1> QED BY <1>13, <1>14, <1>15

(* bot_create places orders in an empty table, the sale is not one of them. *)
LEMMA CreateFacts ==
  ASSUME FakeInv, CreateBot
  PROVE  /\ WorldOK(World', ByHand) /\ runs' = runs /\ row'[Sale] = NoRow
         /\ \A o \in Orders : row[o] = NoRow
<1>1. WorldOK(World, ByHand) /\ World \in Worlds
  BY DEF FakeInv, WorldOK
<1>2. \A o \in Orders : row[o] = NoRow
  BY DEF FakeInv, CreateBot
<1>3. PICK v : v = [World EXCEPT !.bot = "ON"]
  OBVIOUS
<1>4. v \in Worlds /\ v.row = row /\ v.runs = runs
  BY <1>1, <1>3, WorldIs DEF Worlds, BotStatuses
<1>5. WorldOK(v, ByHand)
  BY <1>1, <1>4, WorldIs DEF WorldOK, LegsOK, SpentCall
<1>6. ASSUME NEW x, WorldOK(x, ByHand), x.row[Sale] = NoRow, x.runs = runs, Become(x)
      PROVE  WorldOK(World', ByHand) /\ runs' = runs /\ row'[Sale] = NoRow
  <2>1. World' = x
    BY <1>6, BecomeFacts DEF WorldOK
  <2> QED BY <1>6, <2>1, WorldIs
<1>7. PICK first \in Placements, more \in Placements :
        LET w == Place(v, first) IN
          \/ Become(w)
          \/ CanPlace(w, more) /\ Become(Place(w, more))
  BY <1>3 DEF CreateBot
<1>8. PICK w : w = Place(v, first)
  OBVIOUS
<1>9. CanPlace(v, first)
  <2>1. PICK L : LegsOf(first, L)
    BY PlacementFacts
  <2>2. \A i \in DOMAIN first : first[i] \in Orders
    BY <2>1, OcoFacts DEF LegsOf
  <2> QED BY <1>2, <1>4, <2>2 DEF CanPlace
<1>10. WorldOK(w, ByHand) /\ Later(v, w) /\ w.runs = v.runs
  BY <1>5, <1>8, <1>9, PlacedIsLater
<1>11. w.row[Sale] = NoRow
  BY <1>2, <1>4, <1>10, SaleAssumption DEF Later
<1>12. CASE Become(w)
  BY <1>2, <1>4, <1>6, <1>10, <1>11, <1>12
<1>13. CASE CanPlace(w, more) /\ Become(Place(w, more))
  <2>1. PICK x : x = Place(w, more)
    OBVIOUS
  <2>2. WorldOK(x, ByHand) /\ Later(w, x) /\ x.runs = w.runs
    BY <1>10, <1>13, <2>1, PlacedIsLater
  <2>3. x.row[Sale] = NoRow
    BY <1>11, <2>2 DEF Later
  <2> QED BY <1>2, <1>4, <1>6, <1>10, <1>13, <2>1, <2>2, <2>3
<1> QED BY <1>7, <1>8, <1>12, <1>13

(* bot_stop: what was listed is cancelled, then the sale is placed.         *)
LEMMA ConfirmFacts ==
  ASSUME FakeInv, ConfirmStop
  PROVE  /\ WorldOK(World', ByHand) /\ runs' = runs /\ bot' = "OFF"
         /\ \A z \in Orders :
              /\ row[z] # NoRow => row'[z] # NoRow
              /\ row[z].status \in Terminal => row'[z].status \in Terminal
              /\ row[z].cb # "WAITING" => row'[z].cb # "WAITING"
              /\ z # Sale /\ row[z] = NoRow => row'[z] = NoRow
         /\ stop.type # "freeze" =>
              \A z \in DOMAIN stop.objects : row'[z].status # "ACTIVE"
<1>1. WorldOK(World, ByHand) /\ World \in Worlds
  BY DEF FakeInv, WorldOK
<1>2. row[Sale] = NoRow /\ Sale \in Orders /\ Sale \notin DOMAIN stop.objects
  BY SaleAssumption DEF FakeInv, ConfirmStop
<1>3. PICK off : off = [World EXCEPT !.bot = "OFF"]
  OBVIOUS
<1>4. off \in Worlds /\ off.row = row /\ off.runs = runs /\ off.bot = "OFF"
  BY <1>1, <1>3, WorldIs DEF Worlds, BotStatuses
<1>5. WorldOK(off, ByHand)
  BY <1>1, <1>4, WorldIs DEF WorldOK, LegsOK, SpentCall
<1>6. PICK w : /\ w \in IF stop.type = "freeze" THEN {off}
                        ELSE CancelListed(off, stop.objects)
               /\ IF stop.qty = 0 THEN Become(w) ELSE Become(Place(w, <<Sale>>))
  BY <1>3 DEF ConfirmStop
<1>7. /\ WorldOK(w, ByHand) /\ Cancelled(off, w)
      /\ stop.type # "freeze" =>
           \A z \in DOMAIN stop.objects : w.row[z].status # "ACTIVE"
  <2>1. CASE stop.type = "freeze"
    BY <1>4, <1>5, <1>6, <2>1 DEF Cancelled
  <2>2. CASE stop.type # "freeze"
    <3>1. /\ DOMAIN stop.objects \subseteq Orders
          /\ \A z \in DOMAIN stop.objects : stop.objects[z] \in Rows
      BY DEF FakeInv, TypeOK, StopTypeOK
    <3>2. w \in CancelListed(off, stop.objects)
      BY <1>6, <2>2
    <3> QED BY <1>5, <3>1, <3>2, CancelListedFacts
  <2> QED BY <2>1, <2>2
<1>8. /\ w.bot = "OFF" /\ w.runs = runs /\ w.row[Sale] = NoRow
      /\ Later(off, w)
  BY <1>2, <1>4, <1>5, <1>7, CancelledIsLater DEF Cancelled
<1>9. \A z \in Orders :
        /\ row[z] # NoRow => w.row[z] # NoRow
        /\ row[z].status \in Terminal => w.row[z].status \in Terminal
        /\ row[z].cb # "WAITING" => w.row[z].cb # "WAITING"
        /\ row[z] = NoRow => w.row[z] = NoRow
  BY <1>4, <1>7, <1>8 DEF Later, Cancelled
<1>10. CASE stop.qty = 0
  <2>1. World' = w
    BY <1>6, <1>7, <1>10, BecomeFacts DEF WorldOK
  <2> QED BY <1>7, <1>8, <1>9, <2>1, WorldIs
<1>11. CASE stop.qty # 0
  <2>1. PICK x : x = Place(w, <<Sale>>)
    OBVIOUS
  <2>2. LegsOf(<<Sale>>, {Sale}) /\ CanPlace(w, <<Sale>>)
    BY <1>8, SaleAssumption DEF LegsOf, CanPlace
  <2>3. /\ WorldOK(x, ByHand) /\ x.bot = w.bot /\ x.runs = w.runs
        /\ \A z \in {Sale} : x.row[z] # NoRow
        /\ \A z \in Orders \ {Sale} : x.row[z] = w.row[z]
    BY <1>7, <2>1, <2>2, PlaceFacts
  <2>4. World' = x
    BY <1>6, <1>11, <2>1, <2>3, BecomeFacts DEF WorldOK
  <2>5. \A z \in DOMAIN stop.objects : z \in Orders \ {Sale}
    BY <1>2 DEF FakeInv, TypeOK, StopTypeOK
  <2> QED BY <1>2, <1>7, <1>8, <1>9, <2>3, <2>4, <2>5, WorldIs, NoRowFacts DEF Terminal
<1> QED BY <1>10, <1>11

-----------------------------------------------------------------------------
(* The invariant *)

LEMMA FilledFacts ==
  ASSUME row \in [Orders -> Rows]
  PROVE  /\ Cardinality(Filled) \in 0..Cardinality(Orders)
         /\ Filled # {} => Cardinality(Filled) # 0
         /\ Cardinality(Orders) \in Nat
<1>1. IsFiniteSet(Orders) /\ Filled \subseteq Orders
  BY SaleAssumption DEF Filled
<1>2. IsFiniteSet(Filled) /\ Cardinality(Filled) <= Cardinality(Orders)
  BY <1>1, FS_Subset
<1>3. Cardinality(Filled) \in Nat /\ Cardinality(Orders) \in Nat
  BY <1>1, <1>2, FS_CardinalityType
<1>4. Filled # {} => Cardinality(Filled) # 0
  BY <1>2, FS_EmptySet
<1> QED BY <1>2, <1>3, <1>4

LEMMA NoPromptFacts ==
  /\ NoPrompt.type = "none" /\ NoPrompt.qty = 0
  /\ \A o : o \notin DOMAIN NoPrompt.objects
BY DEF NoPrompt

LEMMA FakeInit == Init => FakeInv
<1> SUFFICES ASSUME Init PROVE FakeInv
  OBVIOUS
<1>1. row \in [Orders -> Rows] /\ \A o \in Orders : row[o] = NoRow
  BY NoRowFacts DEF Init
<1>2. Cardinality(Orders) \in Nat
  BY <1>1, FilledFacts
<1>3. TypeOK
  <2>1. StopTypeOK
    BY NoPromptFacts DEF Init, StopTypeOK
  <2>2. StoreTypeOK
    BY <1>1 DEF Init, StoreTypeOK, BotStatuses
  <2>3. sold \in 0..Cardinality(Orders)
    <3>1. sold = 0
      BY DEF Init
    <3> QED BY <1>2, <3>1
  <2>4. runs \in [Orders -> Nat]
    <3>1. runs = [o \in Orders |-> 0]
      BY DEF Init
    <3> QED BY <3>1
  <2>5. /\ {nested, created} \subseteq BOOLEAN
        /\ fill \in Orders \cup {None}
        /\ forced \subseteq Orders
    BY DEF Init
  <2> QED BY ONLY <2>1, <2>2, <2>3, <2>4, <2>5 DEF TypeOK
<1>4. World \in Worlds
  BY <1>1 DEF Init, World, Worlds, BotStatuses
<1>5. WorldOK(World, ByHand)
  BY <1>1, <1>4, WorldIs, OcoFacts, NoRowFacts DEF Init, WorldOK, LegsOK, SpentCall
<1> QED BY <1>1, <1>3, <1>5, SaleAssumption, NoPromptFacts DEF Init, FakeInv

(* A command that leaves the prompts and forced alone.                      *)
LEMMA TablesStep ==
  ASSUME FakeInv, WorldOK(World', ByHand), Later(World, World'), fresh' = fresh,
         NEW o \in Orders, row[o] # NoRow,
         fill' \in {fill, None}, UNCHANGED <<created, stop, forced, sold>>
  PROVE  FakeInv'
<1>1. ByHand' = ByHand /\ World' \in Worlds
  BY ByHandFacts DEF WorldOK
<1>2. TypeOK'
  BY <1>1, WorldIs, WorldFacts
     DEF FakeInv, TypeOK, StoreTypeOK, StopTypeOK
<1>3. created /\ \A z \in Orders : row[z] # NoRow => row'[z] # NoRow
  BY WorldIs DEF FakeInv, Later
<1>4. fill' # None => row'[fill'] # NoRow
  BY <1>3 DEF FakeInv, TypeOK
<1>5. \A z \in DOMAIN stop'.objects : row'[z] # NoRow
  BY <1>3 DEF FakeInv, TypeOK, StopTypeOK
<1>6. row'[Sale] # NoRow => created' /\ stop' = NoPrompt /\ bot' # "ON"
  BY <1>3, WorldIs, SaleAssumption DEF FakeInv, Later
<1>7. stop' # NoPrompt => created'
  BY <1>3
<1> QED BY <1>1, <1>2, <1>3, <1>4, <1>5, <1>6, <1>7 DEF FakeInv

(* A prompt opens or closes.                                                *)
LEMMA PromptStep ==
  ASSUME FakeInv, UNCHANGED <<storeVars, runs, nested, created, forced, sold>>,
         fill' # None => fill' \in Orders /\ row[fill'] # NoRow,
         StopTypeOK', \A z \in DOMAIN stop'.objects : row[z] # NoRow,
         stop' # NoPrompt => created /\ row[Sale] = NoRow
  PROVE  FakeInv'
<1>1. World' = World /\ ByHand' = ByHand
  BY ByHandFacts DEF World, storeVars
<1>2. TypeOK'
  BY DEF FakeInv, TypeOK, StoreTypeOK, storeVars
<1> QED BY <1>1, <1>2 DEF FakeInv, storeVars

LEMMA FakeStep == FakeInv /\ [Next]_vars => FakeInv'
<1> SUFFICES ASSUME FakeInv, [Next]_vars PROVE FakeInv'
  OBVIOUS
<1>1. CASE CreateBot
  <2>1. /\ WorldOK(World', ByHand) /\ row'[Sale] = NoRow
        /\ created' /\ UNCHANGED <<fresh, fill, stop, forced, sold>>
    BY <1>1, CreateFacts DEF CreateBot, Become
  <2>2. ByHand' = ByHand /\ World' \in Worlds
    BY <2>1, ByHandFacts DEF WorldOK
  <2>3. fill = None /\ stop = NoPrompt
    BY <1>1 DEF FakeInv, CreateBot, TypeOK
  <2>4. TypeOK'
    BY <1>1, <2>1, <2>2, WorldIs, WorldFacts
       DEF FakeInv, TypeOK, StoreTypeOK, StopTypeOK, CreateBot
  <2> QED BY <2>1, <2>2, <2>3, <2>4, NoPromptFacts DEF FakeInv
<1>2. CASE AnswerFill \/ \E o \in Orders : FakeCancel(o) \/ FakeExpire(o)
  <2>1. PICK o \in Orders : row[o] # NoRow /\ Reported(World, World', o, ByHand)
    BY <1>2, ReportingFacts
  <2>2. /\ fresh' = fresh /\ fill' \in {fill, None}
        /\ UNCHANGED <<created, stop, forced, sold>>
    BY <1>2 DEF AnswerFill, FakeCancel, FakeExpire, Become
  <2> QED BY <2>1, <2>2, TablesStep DEF Reported
<1>3. ASSUME NEW o \in Orders, CancelCommand(o) PROVE FakeInv'
  <2>1. /\ fresh' = fresh /\ fill' \in {fill, None}
        /\ UNCHANGED <<created, stop, forced, sold>>
    BY <1>3 DEF CancelCommand, Become
  <2> QED BY <1>3, <2>1, CancelCommandFacts, TablesStep
<1>4. ASSUME NEW o \in Orders, CallbackCommand(o) PROVE FakeInv'
  <2>1. /\ WorldOK(World', ByHand') /\ Later(World, World') /\ row[o] # NoRow
    BY <1>4, CallbackCommandFacts
  <2>2. UNCHANGED <<fresh, created, fill, stop, sold>> /\ forced' = forced \cup {o}
    BY <1>4 DEF CallbackCommand, Become
  <2>3. World' \in Worlds
    BY <2>1 DEF WorldOK
  <2>4. TypeOK'
    BY <2>2, <2>3, WorldIs, WorldFacts
       DEF FakeInv, TypeOK, StoreTypeOK, StopTypeOK
  <2>5. created /\ \A z \in Orders : row[z] # NoRow => row'[z] # NoRow
    BY <2>1, WorldIs DEF FakeInv, Later
  <2>6. fill' # None => row'[fill'] # NoRow
    BY <2>2, <2>5 DEF FakeInv, TypeOK
  <2>7. \A z \in DOMAIN stop'.objects : row'[z] # NoRow
    BY <2>2, <2>5 DEF FakeInv, TypeOK, StopTypeOK
  <2>8. row'[Sale] # NoRow => created' /\ stop' = NoPrompt /\ bot' # "ON"
    BY <2>1, <2>2, <2>5, WorldIs, SaleAssumption DEF FakeInv, Later
  <2> QED BY <2>1, <2>2, <2>4, <2>5, <2>6, <2>7, <2>8 DEF FakeInv
<1>5. CASE ConfirmStop
  <2>1. /\ WorldOK(World', ByHand) /\ bot' = "OFF"
        /\ \A z \in Orders : row[z] # NoRow => row'[z] # NoRow
    BY <1>5, ConfirmFacts
  <2>2. /\ UNCHANGED <<fresh, created, fill, forced>>
        /\ stop' = NoPrompt /\ sold' \in {sold, stop.qty}
        /\ created
    BY <1>5 DEF ConfirmStop, Become, FakeInv
  <2>3. World' \in Worlds /\ ByHand' = ByHand
    BY <2>1, <2>2, ByHandFacts DEF WorldOK
  <2>4. StopTypeOK'
    BY <2>2, NoPromptFacts DEF StopTypeOK
  <2>5. sold' \in 0..Cardinality(Orders)
    <3>1. row \in [Orders -> Rows]
      BY DEF FakeInv, TypeOK, StoreTypeOK
    <3> QED BY <2>2, <3>1, FilledFacts DEF FakeInv, TypeOK, StopTypeOK
  <2>6. TypeOK'
    BY <2>2, <2>3, <2>4, <2>5, WorldIs, WorldFacts
       DEF FakeInv, TypeOK, StoreTypeOK
  <2>7. fill' # None => row'[fill'] # NoRow
    BY <2>1, <2>2 DEF FakeInv, TypeOK
  <2> QED BY <2>1, <2>2, <2>3, <2>6, <2>7, NoPromptFacts DEF FakeInv
<1>6. ASSUME NEW o \in Orders, AskFill(o) PROVE FakeInv'
  <2>1. row[o] # NoRow
    BY <1>6, NoRowFacts DEF AskFill
  <2> QED BY <1>6, <2>1, PromptStep DEF AskFill, FakeInv, TypeOK, StopTypeOK
<1>7. ASSUME NEW type \in {"freeze", "keep", "revert"}, AskStop(type) PROVE FakeInv'
  <2>1. PICK qty \in SellQty(type) :
          stop' = [type |-> type, objects |-> ActiveObjects(row), qty |-> qty]
    BY <1>7 DEF AskStop
  <2>2. World \in Worlds /\ row \in [Orders -> Rows]
    BY DEF FakeInv, WorldOK, TypeOK, StoreTypeOK
  <2>3. PICK objects : objects = ActiveObjects(row)
    OBVIOUS
  <2>4. /\ DOMAIN objects = {o \in Orders : row[o].status = "ACTIVE"}
        /\ \A o \in DOMAIN objects : objects[o] \in Rows
    BY <2>2, <2>3, WorldIs, ActiveObjectsFacts
  <2>5. stop'.objects = objects /\ stop'.type = type /\ stop'.qty = qty
    BY <2>1, <2>3
  <2>6. qty \in IF type = "revert" THEN 1..Cardinality(Orders) ELSE {0}
    BY <2>2, FilledFacts DEF SellQty
  <2>7. StopTypeOK'
    BY <2>4, <2>5, <2>6 DEF StopTypeOK
  <2>8. \A z \in DOMAIN stop'.objects : row[z] # NoRow
    BY <2>4, <2>5, NoRowFacts
  <2>9. created /\ row[Sale] = NoRow
    BY <1>7 DEF AskStop, FakeInv
  <2>10. UNCHANGED <<storeVars, runs, nested, created, fill, forced, sold>>
    BY <1>7 DEF AskStop
  <2> QED BY <2>7, <2>8, <2>9, <2>10, PromptStep DEF FakeInv, TypeOK
<1>8. CASE DeclineStop
  <2>1. StopTypeOK' /\ \A z \in DOMAIN stop'.objects : row[z] # NoRow
    BY <1>8, NoPromptFacts DEF DeclineStop, StopTypeOK
  <2> QED BY <1>8, <2>1, PromptStep DEF DeclineStop, FakeInv, TypeOK
<1>9. CASE UNCHANGED vars
  <2>1. StopTypeOK'
    BY <1>9 DEF vars, FakeInv, TypeOK, StopTypeOK
  <2> QED BY <1>9, <2>1, PromptStep DEF vars, FakeInv, TypeOK
<1> QED BY <1>1, <1>2, <1>3, <1>4, <1>5, <1>6, <1>7, <1>8, <1>9 DEF Next

(* No order is left NEW, legs are in the table together, a cancelled        *)
(* callback leaves none to start for the peer, and a started one is spent:  *)
(* the inductive invariant of the fake exchange.                            *)
THEOREM FakeExchangeInvariant == Spec => []FakeInv
BY FakeInit, FakeStep, PTL DEF Spec

(* The tables, the history and the prompts keep their types; a quantity to  *)
(* sell is there for revert only and is never 0.                            *)
THEOREM FakeTypeIsCorrect == Spec => []TypeOK
<1>1. FakeInv => TypeOK
  BY DEF FakeInv
<1> QED BY <1>1, FakeExchangeInvariant, PTL

(* Placing and cancelling start no callback, so none runs inside another.   *)
THEOREM CallbacksNeverNest == Spec => []NeverNested
<1>1. FakeInv => NeverNested
  BY WorldIs, WorldFacts DEF FakeInv, WorldOK, NeverNested
<1> QED BY <1>1, FakeExchangeInvariant, PTL

-----------------------------------------------------------------------------
(* What a step may never do *)

(* But for order_callback, a step is one of these.                          *)
LEMMA StepKinds ==
  ASSUME FakeInv, [Next]_vars, forced' = forced
  PROVE  \/ ~created /\ runs' = runs
         \/ \E o \in Orders : /\ row[o] # NoRow
                              /\ Reported(World, World', o, ByHand)
                              /\ stop' = stop
         \/ Cancelled(World, World') /\ stop' = stop
         \/ ConfirmStop
         \/ UNCHANGED <<row, bot, runs>>
<1>1. CASE CreateBot
  BY <1>1, CreateFacts DEF CreateBot
<1>2. CASE AnswerFill \/ \E o \in Orders : FakeCancel(o) \/ FakeExpire(o)
  <2>1. stop' = stop
    BY <1>2 DEF AnswerFill, FakeCancel, FakeExpire
  <2> QED BY <1>2, <2>1, ReportingFacts
<1>3. ASSUME NEW o \in Orders, CancelCommand(o)
      PROVE  Cancelled(World, World') /\ stop' = stop
  BY <1>3, CancelCommandFacts DEF CancelCommand
<1>4. ASSUME NEW o \in Orders, CallbackCommand(o) PROVE FALSE
  BY <1>4 DEF CallbackCommand
<1>5. CASE \/ \E o \in Orders : AskFill(o)
           \/ \E type \in {"freeze", "keep", "revert"} : AskStop(type)
           \/ DeclineStop \/ UNCHANGED vars
  BY <1>5 DEF AskFill, AskStop, DeclineStop, vars, storeVars
<1> QED BY <1>1, <1>2, <1>3, <1>4, <1>5 DEF Next

(* But for order_callback, a step starts one callback at most, of an order  *)
(* that is WAITING.                                                         *)
LEMMA StepCalls ==
  ASSUME FakeInv, [Next]_vars, forced' = forced
  PROVE  runs' = runs \/ \E d \in Orders : CallOf(World, World', d)
<1>1. ASSUME NEW o \in Orders, Reported(World, World', o, ByHand)
      PROVE  runs' = runs \/ \E d \in Orders : CallOf(World, World', d)
  BY <1>1, WorldIs, OcoFacts DEF Reported, HasOco
<1> QED BY <1>1, StepKinds, ConfirmFacts, WorldIs DEF Cancelled

(* An order whose callback cancel_order cancelled is called no more, nor is *)
(* its peer, which the fake exchange leaves ACTIVE.                         *)
THEOREM CancelledOrdersAreSilent == Spec => CancelledIsSilent
<1>1. FakeInv /\ [Next]_vars =>
        [\A o \in Orders :
           row[o].cb = "CANCELED" /\ forced' = forced
           => /\ runs'[o] = runs[o]
              /\ HasOco(o) => runs'[Oco[o]] = runs[Oco[o]]]_vars
  <2> SUFFICES ASSUME FakeInv, [Next]_vars, NEW o \in Orders,
                      row[o].cb = "CANCELED", forced' = forced
               PROVE  /\ runs'[o] = runs[o]
                      /\ HasOco(o) => runs'[Oco[o]] = runs[Oco[o]]
    OBVIOUS
  <2>1. ASSUME NEW d \in Orders, CallOf(World, World', d)
        PROVE  /\ runs'[o] = runs[o]
               /\ HasOco(o) => runs'[Oco[o]] = runs[Oco[o]]
    <3>1. runs' = [runs EXCEPT ![d] = @ + 1] /\ row[d].cb = "WAITING"
      BY <2>1, WorldIs DEF CallOf, OneMore
    <3>2. HasOco(o) => row[Oco[o]].cb # "WAITING" /\ Oco[o] \in Orders
      BY WorldIs, OcoFacts DEF FakeInv, WorldOK, LegsOK, HasOco
    <3>3. runs \in [Orders -> Nat]
      BY DEF FakeInv, TypeOK
    <3> QED BY <3>1, <3>2, <3>3
  <2> QED BY <2>1, StepCalls
<1> QED BY <1>1, FakeExchangeInvariant, PTL DEF Spec, CancelledIsSilent

(* A bot that is not ON starts no callback and places nothing but the sale, *)
(* from the step of bot_stop on.                                            *)
THEOREM StoppedBotsAreQuiet == Spec => QuietWhenStopped
<1>1. FakeInv /\ [Next]_vars =>
        [(created /\ (bot # "ON" \/ bot' = "OFF") /\ forced' = forced)
         => /\ runs' = runs
            /\ \A o \in Orders \ {Sale} : row[o] = NoRow => row'[o] = NoRow]_vars
  <2> SUFFICES ASSUME FakeInv, [Next]_vars, created,
                      bot # "ON" \/ bot' = "OFF", forced' = forced
               PROVE  /\ runs' = runs
                      /\ \A o \in Orders \ {Sale} :
                           row[o] = NoRow => row'[o] = NoRow
    OBVIOUS
  <2>1. ASSUME NEW o \in Orders, Reported(World, World', o, ByHand)
        PROVE  /\ runs' = runs
               /\ \A z \in Orders : row[z] = NoRow => row'[z] = NoRow
    <3>1. bot' \in {bot, "CANCELED"}
      BY <2>1, WorldIs DEF Reported, Later
    <3> QED BY <2>1, <3>1, WorldIs DEF Reported
  <2>2. CASE Cancelled(World, World')
    BY <2>2, WorldIs DEF Cancelled
  <2>3. CASE ConfirmStop
    BY <2>3, ConfirmFacts
  <2> QED BY <2>1, <2>2, <2>3, StepKinds
<1> QED BY <1>1, FakeExchangeInvariant, PTL DEF Spec, QuietWhenStopped

(* When bot_stop ends, no order it listed before its prompt is ACTIVE,      *)
(* whatever was filled, cancelled or placed while the prompt was open.      *)
THEOREM ListedOrdersAreCancelled == Spec => ListedAreCancelled
<1>1. FakeInv /\ [Next]_vars =>
        [(stop.type \in {"keep", "revert"} /\ stop' = NoPrompt
          /\ bot # "OFF" /\ bot' = "OFF")
         => \A o \in DOMAIN stop.objects : row'[o].status # "ACTIVE"]_vars
  <2> SUFFICES ASSUME FakeInv, [Next]_vars, stop.type \in {"keep", "revert"},
                      stop' = NoPrompt, bot # "OFF", bot' = "OFF"
               PROVE  \A o \in DOMAIN stop.objects : row'[o].status # "ACTIVE"
    OBVIOUS
  <2>1. stop # NoPrompt /\ stop' # stop
    BY NoPromptFacts
  <2>2. ConfirmStop \/ DeclineStop
    BY <2>1 DEF Next, CreateBot, AskFill, FakeCancel, FakeExpire, CancelCommand,
                CallbackCommand, AnswerFill, AskStop, vars
  <2>3. ~DeclineStop
    BY DEF DeclineStop, storeVars
  <2> QED BY <2>2, <2>3, ConfirmFacts
<1> QED BY <1>1, FakeExchangeInvariant, PTL DEF Spec, ListedAreCancelled

-----------------------------------------------------------------------------
(* The promise about callbacks *)

LEMMA OverFacts ==
  ASSUME FakeInv, [Next]_vars
  PROVE  /\ Over \subseteq Over' /\ Over' \subseteq Orders
         /\ ByHand \subseteq ByHand' /\ ByHand' \subseteq Orders
<1>1. \A z \in Orders : row[z].status \in Terminal => row'[z].status \in Terminal
  <2>1. CASE forced' = forced
    <3>1. CASE ~created
      BY <3>1, NoRowFacts DEF FakeInv, Terminal
    <3>2. CASE Cancelled(World, World')
      BY <3>2, WorldIs DEF Cancelled, Terminal
    <3>3. CASE \E o \in Orders : Reported(World, World', o, ByHand)
      BY <3>3, WorldIs DEF Reported, Later
    <3> QED BY <2>1, <3>1, <3>2, <3>3, StepKinds, ConfirmFacts
  <2>2. ASSUME NEW o \in Orders, CallbackCommand(o)
        PROVE  \A z \in Orders :
                 row[z].status \in Terminal => row'[z].status \in Terminal
    BY <2>2, CallbackCommandFacts, WorldIs DEF Later
  <2>3. forced' = forced \/ \E o \in Orders : CallbackCommand(o)
    BY DEF Next, CreateBot, AskFill, FakeCancel, FakeExpire, CancelCommand,
           AnswerFill, AskStop, DeclineStop, ConfirmStop, vars
  <2> QED BY <2>1, <2>2, <2>3
<1>2. forced \subseteq forced' /\ forced' \subseteq Orders
  BY DEF FakeInv, TypeOK, Next, CreateBot, AskFill, FakeCancel, FakeExpire,
         CancelCommand, CallbackCommand, AnswerFill, AskStop, DeclineStop,
         ConfirmStop, vars
<1>3. ByHand \subseteq ByHand' /\ ByHand' \subseteq Orders
  BY <1>2, ByHandFacts, OcoFacts DEF ByHand
<1> QED BY <1>1, <1>3 DEF Over

LEMMA ContractStep == FakeInv /\ [Next]_vars => Contract!Next
<1> SUFFICES ASSUME FakeInv, [Next]_vars PROVE Contract!Next
  OBVIOUS
<1>1. runs \in [Orders -> Nat]
  BY DEF FakeInv, TypeOK
<1>2. CASE runs' = runs
  <2>1. Contract!Call({})
    BY <1>1, <1>2 DEF Contract!Call
  <2> QED BY <2>1, OverFacts DEF Contract!Next
<1>3. ASSUME NEW d \in Orders, OneMore(World, World', d), d \in Over',
             d \notin ByHand' => row[d].cb = "WAITING"
      PROVE  Contract!Next
  <2>1. runs' = [runs EXCEPT ![d] = @ + 1]
    BY <1>3, WorldIs DEF OneMore
  <2>2. d \notin ByHand' => Contract!MayCall(d, {d})
    <3> SUFFICES ASSUME d \notin ByHand' PROVE Contract!MayCall(d, {d})
      OBVIOUS
    <3>1. d \notin ByHand /\ Closed(ByHand)
      BY OverFacts, ByHandFacts
    <3>2. runs[d] = 0 /\ (HasOco(d) => runs[Oco[d]] = 0)
      BY <1>3, <3>1, FirstCall, WorldIs DEF FakeInv
    <3> QED BY <3>2, OcoFacts DEF Contract!MayCall, HasOco
  <2>3. runs' = [o \in Orders |-> IF o \in {d} THEN runs[o] + 1 ELSE runs[o]]
    BY <1>1, <2>1
  <2>4. Contract!Call({d})
    BY <1>3, <2>2, <2>3 DEF Contract!Call
  <2> QED BY <2>4, OverFacts DEF Contract!Next
<1>4. ASSUME NEW d \in Orders, CallOf(World, World', d) PROVE Contract!Next
  <2>1. d \in Over' /\ row[d].cb = "WAITING" /\ OneMore(World, World', d)
    BY <1>4, WorldIs DEF CallOf, Over
  <2> QED BY <1>3, <2>1
<1>5. ASSUME NEW o \in Orders, CallbackCommand(o) PROVE Contract!Next
  BY <1>2, <1>3, <1>5, CallbackCommandFacts DEF Over
<1>6. forced' = forced \/ \E o \in Orders : CallbackCommand(o)
  BY DEF Next, CreateBot, AskFill, FakeCancel, FakeExpire, CancelCommand,
         AnswerFill, AskStop, DeclineStop, ConfirmStop, vars
<1> QED BY <1>2, <1>4, <1>5, <1>6, StepCalls

(* The fake exchange implements CallbackContract: callbacks start after     *)
(* their order has ended, once, and of an OCO for one leg, unless called by *)
(* hand.                                                                    *)
THEOREM FakeExchangeKeepsContract == Spec => KeepsContract
<1>1. Init => Contract!Init
  BY NoRowFacts DEF Init, Contract!Init, Over, ByHand, Terminal
<1>2. FakeInv /\ [Next]_vars => [Contract!Next]_(Contract!vars)
  BY ContractStep
<1> QED BY <1>1, <1>2, FakeExchangeInvariant, PTL
           DEF Spec, KeepsContract, Contract!Spec

-----------------------------------------------------------------------------
(* The filled leg is called *)

(* A report the bot listens to calls the order, or of an OCO the peer that  *)
(* is no longer ACTIVE.                                                     *)
LEMMA MustCall ==
  ASSUME NEW V, Closed(V), NEW w, WorldOK(w, V), w.bot = "ON",
         NEW o \in Orders, w.row[o] # NoRow, NEW s \in {"FILLED", "CANCELED"},
         NEW d \in HasCallback, w.row[d].cb = "WAITING",
         ~HasOco(o) => d = o,
         HasOco(o) => d = Oco[o] /\ w.row[d].status # "ACTIVE",
         NEW x \in Report(w, o, s)
  PROVE  OneMore(w, x, d)
<1>1. w \in Worlds /\ s \in Terminal /\ s \in Statuses /\ d \in Orders
  BY CallbackAssumption DEF WorldOK, Terminal, Statuses
<1>2. PICK c : c = CallbackOrder(w, o, s)
  OBVIOUS
<1>3. PICK v : v = StoredResult(w, o, s)
  OBVIOUS
<1>4. /\ RowOnly(w, v, o) /\ v \in Worlds /\ v.row[o] \in Rows
      /\ v.row[o].cb = w.row[o].cb
  <2>1. RowOnly(w, v, o) /\ v.row[o].cb = w.row[o].cb
    BY <1>1, <1>3, StoredResultFacts
  <2> QED BY <2>1, WorldFacts DEF RowOnly
<1>5. Dispatches(w, o, s)
  BY DEF Dispatches
<1>6. c = ExecuteOrderCallback(v, o, v.row[o])
  BY <1>2, <1>3, <1>5 DEF CallbackOrder
<1>7. c.called = d
  <2>1. CASE ~HasOco(o)
    BY <1>4, <1>6, <2>1, CallFacts, ExecuteFacts
  <2>2. CASE HasOco(o)
    <3>1. v.row[Oco[o]] = w.row[d] /\ d = Oco[o]
      BY <1>1, <1>4, <2>2, OcoFacts DEF RowOnly, HasOco
    <3>2. c = Execute(Passed(v, o, v.row[o]), Oco[o], v.row[Oco[o]])
      BY <1>4, <1>6, <2>2, <3>1, CallFacts
    <3> QED BY <3>1, <3>2, ExecuteFacts
  <2> QED BY <2>1, <2>2
<1>8. d # None /\ x \in Follow(c)
  BY <1>1, <1>2, OrdersAssumption DEF Report
<1>9. CallOf(w, x, d)
  BY <1>1, <1>2, <1>7, <1>8, DispatchedFacts
<1> QED BY <1>9 DEF CallOf

(* While the peer is ACTIVE a report only writes the row.                   *)
LEMMA PeerStillActive ==
  ASSUME NEW w \in Worlds, NEW o \in Orders, HasOco(o),
         w.row[Oco[o]].status = "ACTIVE", NEW x \in Report(w, o, "FILLED")
  PROVE  RowOnly(w, x, o) /\ x.row[o].status = "FILLED" /\ x.row[o].cb = w.row[o].cb
<1>1. PICK v : v = StoredResult(w, o, "FILLED")
  OBVIOUS
<1>2. PICK c : c = CallbackOrder(w, o, "FILLED")
  OBVIOUS
<1>3. RowOnly(w, v, o) /\ v.row[o].status = "FILLED" /\ v.row[o].cb = w.row[o].cb
  <2>1. "FILLED" \in Statuses
    BY DEF Statuses
  <2> QED BY <1>1, <2>1, StoredResultFacts
<1>4. v \in Worlds /\ v.row[o] \in Rows /\ v.row[Oco[o]].status = "ACTIVE"
  BY <1>3, OcoFacts, WorldFacts DEF RowOnly, HasOco
<1>5. c = Nobody(v)
  BY <1>1, <1>2, <1>4, CallFacts DEF CallbackOrder
<1>6. x \in Follow(c)
  BY <1>2 DEF Report
<1> QED BY <1>3, <1>5, <1>6, NobodyFacts DEF Follow

LEMMA FillCalls ==
  ASSUME NEW V, Closed(V), NEW w, WorldOK(w, V), w.bot = "ON",
         NEW o \in HasCallback, w.row[o].status = "ACTIVE",
         w.row[o].cb = "WAITING", HasOco(o) => w.row[Oco[o]].status = "ACTIVE",
         NEW y \in FillReports(w, o)
  PROVE  WorldOK(y, V) /\ OneMore(w, y, o)
<1>1. o \in Orders /\ w.row[o] # NoRow /\ w \in Worlds
  BY CallbackAssumption, NoRowFacts DEF WorldOK
<1>2. PICK x \in Report(w, o, "FILLED") : y \in ReportPeer(x, o)
  BY DEF FillReports
<1>3. Reported(w, x, o, V) /\ WorldOK(x, V)
  BY <1>1, <1>2, ReportedFacts DEF Terminal, Reported
<1>4. WorldOK(y, V)
  BY <1>1, <1>2, <1>3, PeerReportedFacts DEF Reported
<1>5. CASE ~HasOco(o)
  <2>1. OneMore(w, x, o)
    BY <1>1, <1>2, <1>5, MustCall
  <2> QED BY <1>2, <1>4, <1>5, <2>1 DEF ReportPeer
<1>6. CASE HasOco(o)
  <2>1. PICK p \in Orders : p = Oco[o] /\ HasOco(p) /\ Oco[p] = o
    BY <1>6, OcoFacts DEF HasOco
  <2>2. RowOnly(w, x, o) /\ x.row[o].status = "FILLED" /\ x.row[o].cb = "WAITING"
    BY <1>1, <1>2, <1>6, PeerStillActive
  <2>3. x.bot = "ON" /\ x.row[p] # NoRow
    BY <1>6, <2>1, <2>2, NoRowFacts, OcoFacts DEF RowOnly, HasOco
  <2>4. y \in Report(x, p, "CANCELED")
    BY <1>2, <1>6, <2>1 DEF ReportPeer
  <2>5. OneMore(x, y, o)
    BY <1>3, <2>1, <2>2, <2>3, <2>4, MustCall
  <2> QED BY <1>4, <2>2, <2>5 DEF RowOnly, OneMore
<1> QED BY <1>5, <1>6

(* The two reports of fake_order_fill reach the filled leg and only it: the *)
(* first finds the peer ACTIVE and skips both, the second passes the peer   *)
(* and calls the filled leg.                                                *)
THEOREM FillsAreCalled == Spec => FillIsCalled
<1>1. FakeInv /\ [Next]_vars =>
        [\A o \in HasCallback :
           (/\ fill = o /\ fill' = None /\ row' # row
            /\ row[o].status = "ACTIVE" /\ row[o].cb = "WAITING" /\ bot = "ON"
            /\ HasOco(o) => row[Oco[o]].status = "ACTIVE")
           => /\ runs'[o] = runs[o] + 1
              /\ HasOco(o) => runs'[Oco[o]] = runs[Oco[o]]]_vars
  <2> SUFFICES ASSUME FakeInv, [Next]_vars, NEW o \in HasCallback,
                      fill = o, fill' = None, row' # row,
                      row[o].status = "ACTIVE", row[o].cb = "WAITING", bot = "ON",
                      HasOco(o) => row[Oco[o]].status = "ACTIVE"
               PROVE  /\ runs'[o] = runs[o] + 1
                      /\ HasOco(o) => runs'[Oco[o]] = runs[Oco[o]]
    OBVIOUS
  <2>1. o \in Orders /\ fill' # fill
    BY CallbackAssumption, OrdersAssumption
  <2>2. AnswerFill
    BY <2>1, OrdersAssumption
       DEF Next, CreateBot, AskFill, FakeCancel, FakeExpire, CancelCommand,
           CallbackCommand, AskStop, DeclineStop, ConfirmStop, vars
  <2>3. PICK y : y \in FillReports(World, o) /\ Become(y)
    BY <2>2, WorldIs DEF AnswerFill, Become
  <2>4. WorldOK(World, ByHand) /\ Closed(ByHand)
    BY ByHandFacts DEF FakeInv
  <2>5. WorldOK(y, ByHand) /\ OneMore(World, y, o)
    BY <2>3, <2>4, WorldIs, FillCalls
  <2>6. runs' = [runs EXCEPT ![o] = @ + 1]
    BY <2>3, <2>5, WorldIs DEF OneMore, Become
  <2>7. runs \in [Orders -> Nat]
    BY DEF FakeInv, TypeOK
  <2>8. HasOco(o) => Oco[o] \in Orders \ {o}
    BY OcoFacts DEF HasOco
  <2> QED BY <2>1, <2>6, <2>7, <2>8
<1> QED BY <1>1, FakeExchangeInvariant, PTL DEF Spec, FillIsCalled
=============================================================================
