---------------------------- MODULE ListedProofs ----------------------------
(***************************************************************************)
(* What becomes of the orders bot_stop has listed: proofs about OrderFlow  *)
(* for every number of orders, workers and commands.  bot_stop passes over *)
(* an order whose row it finds not ACTIVE, so everything turns on who may  *)
(* write a status that is neither ACTIVE nor final over such a row.        *)
(***************************************************************************)
EXTENDS CallbackProofs

-----------------------------------------------------------------------------
(* Who writes the table *)

(* cancel_order saves an object whole.                                      *)
ObjectWrite == \E p \in Procs : SavePeer(p) \/ SaveOwn(p)

(* A worker writes around a callback.                                       *)
OutcomeWrite ==
  \E w \in Workers : PassLeg(w) \/ SaveStarted(w) \/ SaveOutcome(w)

RowsCreated == \E p \in Procs, legs \in Placements : CreateRows(p, legs)

ErrorWritten == \E p \in Procs : OnErrorOrder(p)

Writes ==
  \/ UNCHANGED row \/ StatusWrite \/ ObjectWrite \/ OutcomeWrite
  \/ RowsCreated \/ ErrorWritten

LEMMA LoopWrites ==
  ASSUME NEW p \in Procs,
         CancelStep(p) \/ \E next : CancelRaises(p, next)
  PROVE  UNCHANGED row \/ ObjectWrite
BY DEF CancelStep, CancelRaises, Reload, FetchPeer, CancelCall, ObjectWrite,
       storeVars

LEMMA CommandWrites ==
  ASSUME NEW c \in Commands, CommandStep(c) \/ KillCommand(c)
  PROVE  Writes
<1>1. c \in Procs
  BY DEF Procs
<1>2. CASE StartPlacement(c)
  BY <1>1, <1>2 DEF StartPlacement, Writes, RowsCreated
<1>3. CASE PlaceInCommand(c)
  BY <1>1, <1>3 DEF PlaceInCommand, Writes, ErrorWritten, storeVars
<1>4. CASE CancelInCommand(c)
  BY <1>1, <1>4, LoopWrites DEF CancelInCommand, Writes, storeVars
<1>5. CASE \/ GetOrder(c) \/ GetBot(c) \/ ListActive(c) \/ Decline(c)
           \/ Confirm(c) \/ KillCommand(c)
  BY <1>5
  DEF GetOrder, GetBot, ListActive, Decline, Confirm, KillCommand, Writes,
      storeVars
<1> QED BY <1>2, <1>3, <1>4, <1>5 DEF CommandStep

LEMMA WorkerWrites ==
  ASSUME NEW w \in Workers, WorkerStep(w) \/ WorkerFault(w)
  PROVE  Writes
<1>1. w \in Procs
  BY DEF Procs
<1>2. CASE \/ Connect(w) \/ TakeTimeStart(w) \/ GetAllOrders(w)
           \/ CompareEntry(w) \/ HandleReport(w) \/ DropExpired(w)
           \/ LoseReport(w) \/ GuardedUpdateMisses(w) \/ ReadBot(w)
           \/ ReadPeer(w) \/ RunStop(w) \/ ListOpenOrders(w)
           \/ OpenOrdersDone(w) \/ TimerStop(w) \/ Kill(w)
  BY <1>2
  DEF Connect, TakeTimeStart, GetAllOrders, CompareEntry, HandleReport,
      DropExpired, LoseReport, GuardedUpdateMisses, ReadBot, ReadPeer, RunStop,
      ListOpenOrders, OpenOrdersDone, TimerStop, Kill, Gone, Writes, storeVars
<1>3. CASE SaveStatus(w) \/ GuardedUpdate(w) \/ GuardedUpdateRerun(w)
  BY <1>3 DEF Writes, StatusWrite
<1>4. CASE PassLeg(w) \/ SaveStarted(w) \/ SaveOutcome(w)
  BY <1>4 DEF Writes, OutcomeWrite
<1>5. CASE CancelOpenOrder(w)
  BY <1>1, <1>5, LoopWrites DEF CancelOpenOrder, Writes
<1>6. CASE RunMethod(w) \/ PlaceInCallback(w)
  BY <1>1, <1>6
  DEF RunMethod, PlaceInCallback, Writes, RowsCreated, ErrorWritten, storeVars
<1> QED BY <1>2, <1>3, <1>4, <1>5, <1>6 DEF WorkerStep, WorkerFault

(* Every step writes the table in one of the six ways, or not at all.       *)
LEMMA Writers == [Next]_vars => Writes
<1> SUFFICES ASSUME [Next]_vars PROVE Writes
  OBVIOUS
<1>1. CASE ExchangeStep \/ UNCHANGED vars
  BY <1>1 DEF ExchangeStep, vars, storeVars, Writes
<1> QED BY <1>1, CommandWrites, WorkerWrites DEF Next, WorkerRuns, Fault

-----------------------------------------------------------------------------
(* What copies can say *)

(* An order whose call was refused is never accepted.                       *)
LEMMA RefusedStays ==
  ASSUME Accountable
  PROVE  Refused \subseteq Refused' /\ late \subseteq late'
<1>1. /\ \A o \in Orders : row[o] # NoRow => row'[o] # NoRow
      /\ late \subseteq late'
  BY RowsKeep, PlacingKeeps
<1>2. /\ place \in [Procs -> PlaceRecords]
      /\ ex \in [Orders -> ExchangeStatuses]
  BY DEF Accountable, Truthful, PlacementInv, PlacementTypeOK, ExchangeInv,
         ExchangeTypeOK
<1> SUFFICES ASSUME NEW o \in Refused PROVE o \in Refused'
  BY <1>1
<1>3. /\ o \in Orders /\ ex[o] = "none" /\ row[o] # NoRow /\ row'[o] # NoRow
      /\ \A p \in Procs : place[p].pc = "call" =>
           \A i \in DOMAIN place[p].legs : place[p].legs[i] # o
  BY <1>1 DEF Refused
<1> SUFFICES /\ ex'[o] = "none"
             /\ \A p \in Procs : place'[p].pc = "call" =>
                  \A i \in DOMAIN place'[p].legs : place'[p].legs[i] # o
  BY <1>3 DEF Refused
<1>4. CASE UNCHANGED placementVars /\ NoneStays
  BY <1>3, <1>4 DEF placementVars, NoneStays
<1>5. CASE RowsAdded
  <2>1. PICK p \in Procs, legs \in Placements :
          CreateRows(p, legs) /\ UNCHANGED <<ex, late>>
    BY <1>5 DEF RowsAdded
  <2>2. \A i \in DOMAIN legs : legs[i] # o
    BY <1>3, <2>1 DEF CreateRows, InsertRows
  <2>3. /\ place'[p].legs = legs
        /\ \A q \in Procs : q # p => place'[q] = place[q]
    BY <1>2, <2>1 DEF CreateRows
  <2> QED BY <1>3, <2>1, <2>2, <2>3
<1>6. CASE MarkedError
  <2>1. PICK p \in Procs : OnErrorOrder(p) /\ UNCHANGED <<ex, late>>
    BY <1>6 DEF MarkedError
  <2>2. /\ place'[p].pc = "error"
        /\ \A q \in Procs : q # p => place'[q] = place[q]
    BY <1>2, <2>1 DEF OnErrorOrder, PlaceRecords
  <2> QED BY <1>3, <2>1, <2>2
<1>7. CASE CallEnds
  <2>1. PICK p \in Procs : CallAccepted(p) \/ CallRejected(p) \/ CallAnswerLost(p)
    BY <1>7 DEF CallEnds
  <2>2. /\ place[p].pc = "call" /\ place'[p].pc \in {"idle", "error"}
        /\ \A q \in Procs : q # p => place'[q] = place[q]
    BY <1>2, <2>1
    DEF CallAccepted, CallRejected, CallAnswerLost, NotPlacing, PlaceRecords
  <2>3. ex'[o] = "none"
    BY <1>2, <1>3, <2>1, <2>2
    DEF CallAccepted, CallRejected, CallAnswerLost, Accept, exchangeVars
  <2> QED BY <1>3, <2>2, <2>3
<1>8. CASE PlacementLeft
  <2>1. PICK p \in Procs : place' = [place EXCEPT ![p] = NotPlacing]
    BY <1>8 DEF PlacementLeft
  <2>2. /\ place'[p].pc = "idle"
        /\ \A q \in Procs : q # p => place'[q] = place[q]
    BY <1>2, <2>1 DEF NotPlacing
  <2> QED BY <1>3, <1>8, <2>2 DEF PlacementLeft, NoneStays
<1> QED BY <1>4, <1>5, <1>6, <1>7, <1>8 DEF Accountable, Kinds

(* What on_error_order marks is late, or refused for good.                  *)
LEMMA MarkedIsRefused ==
  ASSUME Accountable, NEW p \in Procs, OnErrorOrder(p)
  PROVE  /\ place[p].legs[1] \in late \cup Refused
         /\ row' = [row EXCEPT ![place[p].legs[1]] =
                      [NewRow EXCEPT !.status = "ERROR"]]
<1>1. PlacementInv /\ PlacingInv
  BY DEF Accountable, Truthful
<1>2. /\ 1 \in DOMAIN place[p].legs /\ place[p].pc = "error"
      /\ Head(place[p].legs) = place[p].legs[1]
      /\ place[p].legs[1] \in Orders
  BY <1>1, LegInHand DEF OnErrorOrder
<1> DEFINE o == place[p].legs[1]
<1>3. /\ row[o] # NoRow
      /\ ex[o] = "none" \/ o \in late
      /\ \A q \in Procs : \A j \in DOMAIN place[q].legs :
           place[q].legs[j] = o => q = p
  BY <1>1, <1>2, PlacingOf
<1>4. o \in late \cup Refused
  BY <1>2, <1>3 DEF Refused
<1>5. row' = [row EXCEPT ![o] = [NewRow EXCEPT !.status = "ERROR"]]
  BY <1>2 DEF OnErrorOrder, SaveAll, Write
<1> QED BY <1>4, <1>5

(* What a step writes in the row of o.                                      *)
Written(o) ==
  \/ row'[o] = row[o]
  \/ row'[o].status \in Settled
  \/ row[o] = NoRow /\ row'[o].status = "NEW"
  \/ row'[o].status = "ERROR" /\ o \in late \cup Refused
  \/ row'[o].status = row[o].status /\ row[o] # NoRow
  \/ \E p \in Procs :
       \/ /\ SavePeer(p) /\ o = Oco[cancel[p].o]
          /\ row'[o].status = cancel[p].peer.status
       \/ /\ SaveOwn(p) /\ o = cancel[p].o
          /\ row'[o].status = cancel[p].snap[o].status

LEMMA StatusWritten ==
  ASSUME Accountable, StatusWrite, NEW o \in Orders
  PROVE  row'[o] = row[o] \/ row'[o].status \in Settled
<1>1. row \in [Orders -> Rows] /\ WorkerInv
  BY StoreFacts DEF Accountable, Truthful
<1>2. PICK w \in Workers : wk[w].pc = "save" /\ SaveResult(wk[w].o, wk[w].s)
  BY DEF StatusWrite, SaveStatus, GuardedUpdate, GuardedUpdateRerun, Holds
<1>3. wk[w].o \in Orders /\ wk[w].s \in Settled
  BY <1>1, <1>2, WkOf DEF WorkerOK, Handling, Settled
<1>4. row' = [row EXCEPT ![wk[w].o] = WithResult(row[wk[w].o], wk[w].s)]
  BY <1>2 DEF SaveResult, Write
<1>5. row[wk[w].o] \in Rows
  BY <1>1, <1>3
<1>6. WithResult(row[wk[w].o], wk[w].s).status = wk[w].s
  BY <1>5 DEF WithResult, Rows
<1>7. CASE o = wk[w].o
  BY <1>1, <1>3, <1>4, <1>6, <1>7
<1>8. CASE o # wk[w].o
  BY <1>1, <1>4, <1>8
<1> QED BY <1>7, <1>8

LEMMA OutcomeWritten ==
  ASSUME Accountable, ObjectsKnown, OutcomeWrite, NEW o \in Orders
  PROVE  \/ row'[o] = row[o] \/ row'[o].status \in Settled
         \/ row'[o].status = row[o].status /\ row[o] # NoRow
<1>1. row \in [Orders -> Rows] /\ WorkerInv /\ RowsInv
  BY StoreFacts DEF Accountable, Truthful
<1>2. PICK w \in Workers : PassLeg(w) \/ SaveStarted(w) \/ SaveOutcome(w)
  BY DEF OutcomeWrite
<1>3. WorkerOK(wk[w]) /\ wk[w].mem \in Rows
  BY <1>1, WkOf
<1>4. CASE PassLeg(w)
  <2>1. wk[w].pc = "pass" /\ wk[w].mem.status \in Settled
    BY <1>4 DEF PassLeg, Holds, ObjectsKnown, InHand
  <2>2. wk[w].o \in Orders
    BY <1>3, <2>1 DEF WorkerOK, Handling, Calling
  <2>3. row' = [row EXCEPT ![wk[w].o] = [wk[w].mem EXCEPT !.cb = "OCO_CANCELED"]]
    BY <1>4 DEF PassLeg, SaveAll, Write
  <2>4. [wk[w].mem EXCEPT !.cb = "OCO_CANCELED"].status = wk[w].mem.status
    BY <1>3 DEF Rows
  <2>5. CASE o = wk[w].o
    BY <1>1, <2>1, <2>2, <2>3, <2>4, <2>5
  <2>6. CASE o # wk[w].o
    BY <1>1, <2>3, <2>6
  <2> QED BY <2>5, <2>6
<1>5. CASE SaveStarted(w) \/ SaveOutcome(w)
  <2>1. wk[w].act \in Orders /\ ex[wk[w].act] # "none"
    BY <1>3, <1>5
    DEF SaveStarted, SaveOutcome, Holds, WorkerOK, Calling, Terminal
  <2>2. PICK x : row' = [row EXCEPT ![wk[w].act] = [row[wk[w].act] EXCEPT !.cb = x]]
    BY <1>5 DEF SaveStarted, SaveOutcome, SaveCallback, Write
  <2>3. row[wk[w].act] \in Rows /\ row[wk[w].act] # NoRow
    BY <1>1, <2>1 DEF RowsInv
  <2>4. [row[wk[w].act] EXCEPT !.cb = x].status = row[wk[w].act].status
    BY <2>3 DEF Rows
  <2>5. CASE o = wk[w].act
    BY <1>1, <2>1, <2>2, <2>3, <2>4, <2>5
  <2>6. CASE o # wk[w].act
    BY <1>1, <2>2, <2>6
  <2> QED BY <2>5, <2>6
<1> QED BY <1>2, <1>4, <1>5

LEMMA ObjectWritten ==
  ASSUME Accountable, ObjectWrite, NEW o \in Orders
  PROVE  Written(o)
<1>1. row \in [Orders -> Rows] /\ CancelInv
  BY StoreFacts DEF Accountable, Truthful
<1>2. PICK p \in Procs : SavePeer(p) \/ SaveOwn(p)
  BY DEF ObjectWrite
<1> DEFINE c == cancel[p]
<1>3. c \in CancelRecords /\ CancelOK(c)
  BY <1>1 DEF CancelInv, CancelTypeOK
<1>4. CASE SavePeer(p)
  <2>1. c.peer \in Rows /\ HasOco(c.o)
    BY <1>3, <1>4 DEF SavePeer, CancelOK, CancelRecords
  <2>2. Oco[c.o] \in Orders
    BY <2>1, OcoAssumption DEF HasOco
  <2>3. row' = [row EXCEPT ![Oco[c.o]] = [c.peer EXCEPT !.cb = "CANCELED"]]
    BY <1>4 DEF SavePeer, SaveAll, Write
  <2>4. [c.peer EXCEPT !.cb = "CANCELED"].status = c.peer.status
    BY <2>1 DEF Rows
  <2>5. CASE o = Oco[c.o]
    BY <1>1, <1>4, <2>2, <2>3, <2>4, <2>5 DEF Written
  <2>6. CASE o # Oco[c.o]
    BY <1>1, <2>3, <2>6 DEF Written
  <2> QED BY <2>5, <2>6
<1>5. CASE SaveOwn(p)
  <2>1. c.o \in Orders /\ c.snap[c.o] \in Rows
    BY <1>3, <1>5 DEF SaveOwn, CancelOK, CancelRecords
  <2>2. row' = [row EXCEPT ![c.o] = [c.snap[c.o] EXCEPT !.cb = "CANCELED"]]
    BY <1>5 DEF SaveOwn, SaveAll, Write
  <2>3. [c.snap[c.o] EXCEPT !.cb = "CANCELED"].status = c.snap[c.o].status
    BY <2>1 DEF Rows
  <2>4. CASE o = c.o
    BY <1>1, <1>5, <2>1, <2>2, <2>3, <2>4 DEF Written
  <2>5. CASE o # c.o
    BY <1>1, <2>2, <2>5 DEF Written
  <2> QED BY <2>4, <2>5
<1> QED BY <1>2, <1>4, <1>5

LEMMA WrittenOf ==
  ASSUME Accountable, ObjectsKnown, [Next]_vars, NEW o \in Orders
  PROVE  Written(o)
<1>1. row \in [Orders -> Rows]
  BY StoreFacts DEF Accountable, Truthful
<1>2. CASE StatusWrite \/ ObjectWrite \/ OutcomeWrite
  BY <1>2, StatusWritten, ObjectWritten, OutcomeWritten DEF Written
<1>3. CASE UNCHANGED row
  BY <1>3 DEF Written
<1>4. CASE RowsCreated
  <2>1. PICK p \in Procs, legs \in Placements : CreateRows(p, legs)
    BY <1>4 DEF RowsCreated
  <2>2. \/ row'[o] = row[o]
        \/ row[o] = NoRow /\ row'[o] = NewRow
    BY <2>1 DEF CreateRows, InsertRows
  <2> QED BY <2>2 DEF Written, NewRow
<1>5. CASE ErrorWritten
  <2>1. PICK p \in Procs : OnErrorOrder(p)
    BY <1>5 DEF ErrorWritten
  <2> DEFINE q == place[p].legs[1]
             r == [NewRow EXCEPT !.status = "ERROR"]
  <2>2. q \in late \cup Refused /\ row' = [row EXCEPT ![q] = r]
    BY <2>1, MarkedIsRefused
  <2>3. r.status = "ERROR"
    BY DEF NewRow
  <2> HIDE DEF q, r
  <2>4. row'[o] = row[o] \/ (o = q /\ row'[o] = r)
    BY <1>1, <2>2
  <2> QED BY <2>2, <2>3, <2>4 DEF Written
<1> QED BY <1>2, <1>3, <1>4, <1>5, Writers DEF Writes

-----------------------------------------------------------------------------
(* ObjectsKnown is preserved *)

LEMMA RowsKnown ==
  ASSUME Accountable, ObjectsKnown, [Next]_vars, NEW o \in Orders
  PROVE  Known(o, row[o])'
<1>1. /\ Refused \subseteq Refused' /\ late \subseteq late'
      /\ row \in [Orders -> Rows] /\ CancelInv /\ RowsInv /\ ExchangeInv
  BY RefusedStays, StoreFacts DEF Accountable, Truthful
<1>2. Known(o, row[o])
  BY DEF ObjectsKnown
<1>3. ASSUME NEW p \in Procs, SavePeer(p) \/ SaveOwn(p)
      PROVE  LoopOK(p) /\ CancelOK(cancel[p])
  BY <1>1 DEF ObjectsKnown, CancelInv
<1>4. CASE \E p \in Procs : /\ SavePeer(p) /\ o = Oco[cancel[p].o]
                            /\ row'[o].status = cancel[p].peer.status
  <2>1. PICK p \in Procs : /\ SavePeer(p) /\ o = Oco[cancel[p].o]
                           /\ row'[o].status = cancel[p].peer.status
    BY <1>4
  <2>2. cancel[p].peer # NoRow /\ Known(o, cancel[p].peer)
    BY <1>3, <2>1 DEF LoopOK, SavePeer
  <2> QED BY <1>1, <2>1, <2>2 DEF Known
<1>5. CASE \E p \in Procs : /\ SaveOwn(p) /\ o = cancel[p].o
                            /\ row'[o].status = cancel[p].snap[o].status
  <2>1. PICK p \in Procs : /\ SaveOwn(p) /\ o = cancel[p].o
                           /\ row'[o].status = cancel[p].snap[o].status
    BY <1>5
  <2>2. cancel[p].snap[o] # NoRow /\ Known(o, cancel[p].snap[o])
    BY <1>3, <2>1 DEF LoopOK, SaveOwn
  <2> QED BY <1>1, <2>1, <2>2 DEF Known
<1>6. ASSUME row'[o].status \in Settled \cup {"NEW"} PROVE Known(o, row[o])'
  BY <1>6 DEF Known, Settled, Terminal
<1>7. CASE row'[o].status = row[o].status /\ row[o] # NoRow
  BY <1>1, <1>2, <1>7 DEF Known
<1>8. CASE row'[o] = row[o]
  BY <1>1, <1>2, <1>8 DEF Known
<1>9. CASE row'[o].status = "ERROR" /\ o \in late \cup Refused
  BY <1>1, <1>9 DEF Known
<1> QED BY <1>4, <1>5, <1>6, <1>7, <1>8, <1>9, WrittenOf DEF Written

(* The objects in a loop are read from rows.                                *)
LEMMA SnapshotKnown ==
  ASSUME ObjectsKnown, NEW S, NEW o \in Orders
  PROVE  Known(o, Snapshot(S)[o])
BY DEF ObjectsKnown, Known, Snapshot, NoRow

(* How the record of a loop may move.                                       *)
LoopCleared(p) == cancel'[p] = NotCancelling

LoopSet(p) ==
  /\ UNCHANGED row
  /\ cancel'[p].pc \in {"idle", "next"}
  /\ cancel'[p].peer \in {cancel[p].peer, NoRow}
  /\ \/ cancel'[p].snap = cancel[p].snap
     \/ \E S \in SUBSET Orders : /\ cancel'[p].snap = Snapshot(S)
                                 /\ p \notin Cancelers => S = ActiveOrders

LoopAdvances(p) ==
  cancel'[p] = Advance(p, cancel[p].o)

LoopMove(p) ==
  \/ cancel'[p] = cancel[p] \/ LoopCleared(p) \/ LoopSet(p)
  \/ CancelStep(p) \/ LoopAdvances(p)

LEMMA LoopKeeps ==
  ASSUME Accountable, ObjectsKnown, NEW p \in Procs, LoopMove(p)
  PROVE  LoopOK(p)'
<1>1. /\ cancel \in [Procs -> CancelRecords] /\ cancel[p] \in CancelRecords
      /\ CancelOK(cancel[p]) /\ row \in [Orders -> Rows] /\ RowsInv
      /\ ExchangeInv
  BY StoreFacts DEF Accountable, Truthful, CancelInv, CancelTypeOK
<1>2. LoopOK(p)
  BY DEF ObjectsKnown
<1>3. Refused \subseteq Refused' /\ late \subseteq late'
  BY RefusedStays
<1>4. ASSUME NEW o, NEW r, Known(o, r)
      PROVE  /\ r.status = "ABSENT" => r = NoRow
             /\ r.status = "ERROR" => o \in late' \cup Refused'
  BY <1>3, <1>4 DEF Known
<1>5. \A o \in Orders : Known(o, cancel[p].snap[o])
  BY <1>2 DEF LoopOK
<1>6. NoRow.status = "ABSENT"
  BY DEF NoRow
<1>7. ASSUME cancel'[p].snap = cancel[p].snap,
             cancel'[p].pc \in {"idle", "next"}
      PROVE  LoopOK(p)'
  BY <1>3, <1>5, <1>7 DEF LoopOK, Known
<1>8. CASE cancel'[p] = cancel[p]
  BY <1>2, <1>3, <1>8 DEF LoopOK, Known
<1>9. CASE LoopCleared(p)
  <2>1. /\ cancel'[p].pc = "idle"
        /\ \A o \in Orders : cancel'[p].snap[o] = NoRow
    BY <1>9 DEF LoopCleared, NotCancelling, NoSnapshot
  <2> QED BY <1>6, <2>1 DEF LoopOK, Known
<1>10. CASE LoopSet(p)
  <2>1. CASE cancel'[p].snap = cancel[p].snap
    BY <1>7, <1>10, <2>1 DEF LoopSet
  <2>2. CASE \E S \in SUBSET Orders :
               /\ cancel'[p].snap = Snapshot(S)
               /\ p \notin Cancelers => S = ActiveOrders
    <3>1. PICK S \in SUBSET Orders : cancel'[p].snap = Snapshot(S)
      BY <2>2
    <3>2. \A o \in Orders : Known(o, cancel'[p].snap[o])
      BY <3>1, SnapshotKnown
    <3> QED BY <1>3, <1>10, <3>2 DEF LoopSet, LoopOK, Known
  <2> QED BY <1>10, <2>1, <2>2 DEF LoopSet
<1>11. ASSUME NEW q, cancel'[p] = Advance(p, q) PROVE LoopOK(p)'
  <2>1. /\ cancel'[p].pc = "next"
        /\ \A o \in Orders :
             \/ cancel'[p].snap[o] = cancel[p].snap[o]
             \/ cancel'[p].snap[o] = NoRow
    BY <1>1, <1>11 DEF Advance, LoopWith, NotCancelling, CancelRecords
  <2> QED BY <1>3, <1>5, <1>6, <2>1 DEF LoopOK, Known
<1>12. CASE Reload(p)
  <2>1. PICK q \in Listed(p) :
          \/ cancel' = [cancel EXCEPT ![p] = Advance(p, q)]
          \/ cancel' = [cancel EXCEPT ![p] =
               [cancel[p] EXCEPT !.pc = IF HasOco(q) THEN "peer" ELSE "own",
                                 !.o = q]]
    BY <1>12 DEF Reload
  <2>2. CASE cancel' = [cancel EXCEPT ![p] = Advance(p, q)]
    <3>1. cancel'[p] = Advance(p, q)
      BY <1>1, <2>2
    <3> QED BY <1>11, <3>1
  <2>3. CASE cancel' = [cancel EXCEPT ![p] =
               [cancel[p] EXCEPT !.pc = IF HasOco(q) THEN "peer" ELSE "own",
                                 !.o = q]]
    <3>1. /\ cancel'[p].snap = cancel[p].snap /\ cancel'[p].o = q
          /\ cancel'[p].pc \in {"peer", "own"}
      BY <1>1, <2>3 DEF CancelRecords
    <3>2. cancel[p].snap[q] # NoRow
      BY DEF Listed
    <3> QED BY <1>3, <1>5, <3>1, <3>2 DEF LoopOK, Known
  <2> QED BY <2>1, <2>2, <2>3
<1>13. CASE FetchPeer(p)
  <2>1. /\ cancel'[p].snap = cancel[p].snap /\ cancel'[p].o = cancel[p].o
        /\ cancel'[p].pc = "savepeer"
        /\ cancel'[p].peer = row[Oco[cancel[p].o]]
        /\ cancel[p].pc = "peer"
    BY <1>1, <1>13 DEF FetchPeer, CancelRecords
  <2>2. /\ HasOco(cancel[p].o) /\ ex[cancel[p].o] # "none"
    BY <1>1, <2>1 DEF CancelOK
  <2>3. /\ Oco[cancel[p].o] \in Orders /\ ex[Oco[cancel[p].o]] # "none"
    BY <1>1, <2>2, OcoAssumption DEF HasOco, ExchangeInv, LegsEndTogether
  <2>4. row[Oco[cancel[p].o]] # NoRow /\ Known(Oco[cancel[p].o], row[Oco[cancel[p].o]])
    BY <1>1, <2>3 DEF RowsInv, ObjectsKnown
  <2>5. cancel[p].snap[cancel[p].o] # NoRow
    BY <1>2, <2>1 DEF LoopOK
  <2> QED BY <1>3, <1>5, <2>1, <2>4, <2>5 DEF LoopOK, Known
<1>14. CASE SavePeer(p) \/ SaveOwn(p)
  <2>1. /\ cancel'[p].snap = cancel[p].snap /\ cancel'[p].o = cancel[p].o
        /\ cancel'[p].pc \in {"own", "call"}
        /\ cancel[p].pc \in {"savepeer", "own"}
    BY <1>1, <1>14 DEF SavePeer, SaveOwn, CancelRecords
  <2> QED BY <1>2, <1>3, <1>5, <2>1 DEF LoopOK, Known
<1>15. CASE CancelCall(p) \/ LoopAdvances(p)
  <2>1. cancel'[p] = Advance(p, cancel[p].o)
    BY <1>1, <1>15 DEF CancelCall, LoopAdvances
  <2> QED BY <1>11, <2>1
<1> QED BY <1>8, <1>9, <1>10, <1>12, <1>13, <1>14, <1>15
        DEF LoopMove, CancelStep

(* Only its own process moves a loop or a command.                          *)
LEMMA CommandLoop ==
  ASSUME Accountable, ObjectsKnown, NEW c \in Commands,
         CommandStep(c) \/ KillCommand(c)
  PROVE  /\ LoopMove(c)
         /\ \A p \in Procs \ {c} : cancel'[p] = cancel[p]
         /\ \A d \in Commands \ {c} : cmd'[d] = cmd[d]
         /\ cmd'[c].pc \in {"placing", "list", "prompt"} =>
              cancel'[c].pc = cancel[c].pc
              /\ cmd[c].pc \in {"ready", "placing", "list"}
         /\ cmd'[c].pc # "ready"
<1>1. /\ cancel \in [Procs -> CancelRecords] /\ cancel[c] \in CancelRecords
      /\ cmd \in [Commands -> CommandRecords] /\ cmd[c] \in CommandRecords
      /\ c \in Procs /\ row \in [Orders -> Rows]
  BY StoreFacts DEF Accountable, Truthful, CancelInv, CancelTypeOK, CommandInv, Procs
<1>2. cmd[c].pc \in {"ready", "placing", "list", "prompt"} => cancel[c].pc = "idle"
  BY DEF ObjectsKnown
<1>3. CASE StartPlacement(c) \/ PlaceInCommand(c)
  <2>1. UNCHANGED cancel
    BY <1>3 DEF StartPlacement, PlaceInCommand
  <2>2. /\ cmd[c].pc \in {"ready", "placing"}
        /\ \/ UNCHANGED cmd /\ cmd[c].pc = "placing"
           \/ To(c, "placing") \/ To(c, "done") \/ To(c, "aborted")
    BY <1>3 DEF StartPlacement, PlaceInCommand
  <2>3. /\ \A d \in Commands \ {c} : cmd'[d] = cmd[d]
        /\ cmd'[c].pc \in {"placing", "done", "aborted"}
    BY <1>1, <2>2 DEF To, CommandRecords
  <2> QED BY <2>1, <2>2, <2>3 DEF LoopMove
<1>4. CASE CancelInCommand(c)
  <2>1. /\ \A d \in Commands \ {c} : cmd'[d] = cmd[d]
        /\ cmd'[c].pc \in {"cancelling", "done", "aborted"}
    BY <1>1, <1>4 DEF CancelInCommand, To, CommandRecords
  <2>2. LoopMove(c) /\ \A p \in Procs \ {c} : cancel'[p] = cancel[p]
    BY <1>1, <1>4
    DEF CancelInCommand, LoopMove, LoopCleared, CancelStep, CancelRaises,
        Reload, FetchPeer, SavePeer, SaveOwn, CancelCall
  <2> QED BY <2>1, <2>2
<1>5. CASE GetOrder(c)
  <2>1. /\ \A d \in Commands \ {c} : cmd'[d] = cmd[d]
        /\ cmd'[c].pc = "cancelling"
    BY <1>1, <1>5 DEF GetOrder, To, CommandRecords
  <2>2. PICK o \in Orders :
          cancel' = [cancel EXCEPT ![c] = LoopWith(Snapshot({o}))]
    BY <1>5 DEF GetOrder
  <2>3. /\ cancel'[c].snap = Snapshot({o}) /\ cancel'[c].pc = "next"
        /\ cancel'[c].peer = NoRow /\ UNCHANGED row /\ c \in Cancelers
    BY <1>1, <1>5, <2>2 DEF LoopWith, NotCancelling, GetOrder, storeVars
  <2>4. {o} \in SUBSET Orders
    OBVIOUS
  <2>5. LoopSet(c)
    BY <2>3, <2>4 DEF LoopSet
  <2> QED BY <1>1, <2>1, <2>2, <2>5 DEF LoopMove
<1>6. CASE GetBot(c)
  <2>1. UNCHANGED cancel
    BY <1>6 DEF GetBot
  <2>2. /\ \A d \in Commands \ {c} : cmd'[d] = cmd[d]
        /\ cmd'[c].pc \in {"list", "done"} /\ cmd[c].pc = "ready"
    BY <1>1, <1>6 DEF GetBot, To, CommandRecords
  <2> QED BY <2>1, <2>2 DEF LoopMove
<1>7. CASE ListActive(c)
  <2>1. /\ \A d \in Commands \ {c} : cmd'[d] = cmd[d]
        /\ cmd'[c].pc \in {"prompt", "aborted"}
        /\ cmd[c].pc = "list" /\ UNCHANGED row
    BY <1>1, <1>7 DEF ListActive, To, CommandRecords, storeVars
  <2>2. CASE UNCHANGED cancel
    BY <2>1, <2>2 DEF LoopMove
  <2>3. CASE cancel' = [cancel EXCEPT ![c].snap = Snapshot(ActiveOrders)]
    <3>1. /\ cancel'[c].snap = Snapshot(ActiveOrders)
          /\ cancel'[c].pc = cancel[c].pc
          /\ cancel'[c].peer = cancel[c].peer
          /\ \A p \in Procs \ {c} : cancel'[p] = cancel[p]
      BY <1>1, <2>3 DEF CancelRecords
    <3>2. ActiveOrders \in SUBSET Orders
      BY DEF ActiveOrders
    <3>3. LoopSet(c)
      BY <1>2, <2>1, <3>1, <3>2 DEF LoopSet
    <3> QED BY <2>1, <3>1, <3>3 DEF LoopMove
  <2> QED BY <1>7, <2>2, <2>3 DEF ListActive
<1>8. CASE Decline(c) \/ KillCommand(c)
  <2>1. /\ \A d \in Commands \ {c} : cmd'[d] = cmd[d]
        /\ cmd'[c].pc \in {"done", "aborted"}
    BY <1>1, <1>8 DEF Decline, KillCommand, To, CommandRecords, CommandAt
  <2>2. /\ cancel'[c] = NotCancelling
        /\ \A p \in Procs \ {c} : cancel'[p] = cancel[p]
    BY <1>1, <1>8 DEF Decline, KillCommand
  <2> QED BY <2>1, <2>2 DEF LoopMove, LoopCleared
<1>9. CASE Confirm(c)
  <2>1. /\ \A d \in Commands \ {c} : cmd'[d] = cmd[d]
        /\ cmd'[c].pc = "cancelling"
    BY <1>1, <1>9 DEF Confirm, To, CommandRecords
  <2>2. /\ cancel'[c].snap = cancel[c].snap /\ cancel'[c].pc = "next"
        /\ cancel'[c].peer = cancel[c].peer
        /\ \A p \in Procs \ {c} : cancel'[p] = cancel[p]
        /\ UNCHANGED row
    BY <1>1, <1>9 DEF Confirm, CancelRecords
  <2> QED BY <2>1, <2>2 DEF LoopMove, LoopSet
<1> QED BY <1>3, <1>4, <1>5, <1>6, <1>7, <1>8, <1>9 DEF CommandStep

LEMMA WorkerLoop ==
  ASSUME Accountable, NEW w \in Workers, WorkerStep(w) \/ WorkerFault(w)
  PROVE  LoopMove(w) /\ \A p \in Procs \ {w} : cancel'[p] = cancel[p]
<1>1. /\ cancel \in [Procs -> CancelRecords] /\ cancel[w] \in CancelRecords
      /\ w \in Procs
  BY DEF Accountable, Truthful, CancelInv, CancelTypeOK, Procs
<1>2. CASE CancelOpenOrder(w)
  BY <1>1, <1>2
  DEF CancelOpenOrder, LoopMove, LoopAdvances, CancelStep, CancelRaises,
      Reload, FetchPeer, SavePeer, SaveOwn, CancelCall
<1>3. CASE ListOpenOrders(w)
  <2>1. /\ cancel'[w].snap = Snapshot(ActiveOrders) /\ cancel'[w].pc = "next"
        /\ cancel'[w].peer = NoRow /\ UNCHANGED row
        /\ \A p \in Procs \ {w} : cancel'[p] = cancel[p]
    BY <1>1, <1>3 DEF ListOpenOrders, LoopWith, NotCancelling, storeVars
  <2>2. ActiveOrders \in SUBSET Orders
    BY DEF ActiveOrders
  <2> QED BY <2>1, <2>2 DEF LoopMove, LoopSet
<1>4. CASE OpenOrdersDone(w) \/ TimerStop(w) \/ Kill(w)
  BY <1>1, <1>4
  DEF OpenOrdersDone, TimerStop, Kill, Gone, LoopMove, LoopCleared
<1>5. CASE UNCHANGED cancel
  BY <1>5 DEF LoopMove
<1>6. \/ CancelOpenOrder(w) \/ ListOpenOrders(w) \/ OpenOrdersDone(w)
      \/ TimerStop(w) \/ Kill(w) \/ UNCHANGED cancel
  BY DEF WorkerStep, WorkerFault, Connect, TakeTimeStart, GetAllOrders,
         CompareEntry, HandleReport, DropExpired, SaveStatus, GuardedUpdate,
         GuardedUpdateMisses, GuardedUpdateRerun, ReadBot, ReadPeer, PassLeg,
         SaveStarted, RunStop, RunMethod, PlaceInCallback, SaveOutcome,
         LoseReport, others
<1> QED BY <1>2, <1>3, <1>4, <1>5, <1>6

(* A command and its loop are moved by that command only.                   *)
LEMMA CommandActor ==
  ASSUME Accountable, ObjectsKnown, [Next]_vars
  PROVE  /\ \A p \in Procs : LoopMove(p)
         /\ \A c \in Commands :
              \/ cmd'[c] = cmd[c] /\ cancel'[c] = cancel[c]
              \/ CommandStep(c) \/ KillCommand(c)
<1>1. CASE \E c \in Commands : CommandStep(c) \/ KillCommand(c)
  <2>1. PICK c \in Commands : CommandStep(c) \/ KillCommand(c)
    BY <1>1
  <2>2. c \in Procs /\ \A d \in Commands : d \in Procs
    BY DEF Procs
  <2> QED BY <2>1, <2>2, CommandLoop DEF LoopMove
<1>2. CASE \E w \in Workers : (WorkerStep(w) \/ WorkerFault(w)) /\ UNCHANGED cmd
  <2>1. PICK w \in Workers : (WorkerStep(w) \/ WorkerFault(w)) /\ UNCHANGED cmd
    BY <1>2
  <2>2. \A d \in Commands : d \in Procs /\ d # w
    BY CommandsAssumption DEF Procs
  <2> QED BY <2>1, <2>2, WorkerLoop DEF LoopMove
<1>3. CASE UNCHANGED <<cancel, cmd>>
  BY <1>3 DEF LoopMove
<1> QED BY <1>1, <1>2, <1>3
        DEF Next, WorkerRuns, ExchangeStep, Fault, vars

(* The object a worker has in hand says what it is about to write.          *)
LEMMA MemKnown ==
  ASSUME Accountable, ObjectsKnown, [Next]_vars, NEW w \in Workers
  PROVE  (wk[w].pc \in InHand => wk[w].mem.status \in Settled)'
<1>1. wk[w].pc \in InHand => wk[w].mem.status \in Settled
  BY DEF ObjectsKnown
<1>2. wk'[w] = wk[w] \/ Taken(w) \/ LetGo(w) \/ Handled(w)
  BY Actor, TurnOf DEF Accountable
<1> QED BY <1>1, <1>2 DEF Taken, LetGo, Handled

LEMMA ObjectsKnownInit == Init => ObjectsKnown
<1> SUFFICES ASSUME Init PROVE ObjectsKnown
  OBVIOUS
<1>1. \A o \in Orders : Known(o, NoRow)
  BY DEF Known, NoRow
<1>2. \A o \in Orders : row[o] = NoRow
  BY DEF Init, StoreInit
<1>3. \A p \in Procs : /\ cancel[p].pc = "idle"
                       /\ \A o \in Orders : cancel[p].snap[o] = NoRow
  BY DEF Init, CancelInit, NotCancelling, NoSnapshot
<1>4. \A w \in Workers : wk[w].pc = "down"
  BY DEF Init, CallbackInit, AtPc
<1>5. \A c \in Commands : c \in Procs
  BY DEF Procs
<1> QED BY <1>1, <1>2, <1>3, <1>4, <1>5 DEF ObjectsKnown, LoopOK, InHand

LEMMA ObjectsKnownStep ==
  Accountable /\ ObjectsKnown /\ [Next]_vars => ObjectsKnown'
<1> SUFFICES ASSUME Accountable, ObjectsKnown, [Next]_vars PROVE ObjectsKnown'
  OBVIOUS
<1>1. \A o \in Orders : Known(o, row[o])'
  BY RowsKnown
<1>2. \A p \in Procs : LoopOK(p)'
  BY CommandActor, LoopKeeps
<1>3. \A w \in Workers : (wk[w].pc \in InHand => wk[w].mem.status \in Settled)'
  BY MemKnown
<1>4. ASSUME NEW c \in Commands
      PROVE  (cmd[c].pc \in {"ready", "placing", "list", "prompt"} =>
                cancel[c].pc = "idle")'
  <2>1. cmd[c].pc \in {"ready", "placing", "list", "prompt"} =>
          cancel[c].pc = "idle"
    BY DEF ObjectsKnown
  <2>2. CASE cmd'[c] = cmd[c] /\ cancel'[c] = cancel[c]
    BY <2>1, <2>2
  <2>3. CASE CommandStep(c) \/ KillCommand(c)
    BY <2>1, <2>3, CommandLoop
  <2> QED BY <2>2, <2>3, CommandActor
<1> QED BY <1>1, <1>2, <1>3, <1>4 DEF ObjectsKnown

-----------------------------------------------------------------------------
(* The listed orders *)

(* A status that bot_stop can do with is replaced by such a status, unless  *)
(* it is an object read as NEW that is saved.                               *)
LEMMA SettledStays ==
  ASSUME Accountable, ObjectsKnown, [Next]_vars, NEW o \in Orders \ late,
         row[o].status \in Settled,
         \A p \in Procs :
           /\ SavePeer(p) /\ Oco[cancel[p].o] = o =>
                cancel[p].peer.status # "NEW"
           /\ SaveOwn(p) /\ cancel[p].o = o => cancel[p].snap[o].status # "NEW"
  PROVE  row'[o].status \in Settled
<1>1. /\ row \in [Orders -> Rows] /\ cancel \in [Procs -> CancelRecords]
      /\ Honest(o, row[o])
  BY StoreFacts DEF Accountable, Truthful, CancelInv, CancelTypeOK, StoreInv
<1>2. row[o] # NoRow /\ ex[o] # "none"
  BY <1>1 DEF NoRow, Settled, Terminal, Honest, Confirmed
<1>3. o \notin late \cup Refused
  BY <1>2 DEF Refused
<1>4. ASSUME NEW r \in Rows, r # NoRow, Known(o, r), r.status # "NEW"
      PROVE  r.status \in Settled
  BY <1>3, <1>4 DEF Known, Rows, Statuses, Settled, Terminal
<1>5. CASE \E p \in Procs : /\ SavePeer(p) /\ o = Oco[cancel[p].o]
                            /\ row'[o].status = cancel[p].peer.status
  <2>1. PICK p \in Procs : /\ SavePeer(p) /\ o = Oco[cancel[p].o]
                           /\ row'[o].status = cancel[p].peer.status
    BY <1>5
  <2>2. /\ cancel[p].peer \in Rows /\ cancel[p].peer # NoRow
        /\ Known(o, cancel[p].peer)
    BY <1>1, <2>1 DEF CancelRecords, ObjectsKnown, LoopOK, SavePeer
  <2> QED BY <1>4, <2>1, <2>2
<1>6. CASE \E p \in Procs : /\ SaveOwn(p) /\ o = cancel[p].o
                            /\ row'[o].status = cancel[p].snap[o].status
  <2>1. PICK p \in Procs : /\ SaveOwn(p) /\ o = cancel[p].o
                           /\ row'[o].status = cancel[p].snap[o].status
    BY <1>6
  <2>2. /\ cancel[p].snap[o] \in Rows /\ cancel[p].snap[o] # NoRow
        /\ Known(o, cancel[p].snap[o])
    BY <1>1, <2>1 DEF CancelRecords, ObjectsKnown, LoopOK, SaveOwn
  <2> QED BY <1>4, <2>1, <2>2
<1> QED BY <1>2, <1>3, <1>5, <1>6, WrittenOf DEF Written

LEMMA ListedSettled ==
  ASSUME Accountable, ObjectsKnown, NothingNewBeside, [Next]_vars,
         NEW c \in Stoppers, ListedOK(c), NEW o \in cmd[c].listed \ late'
  PROVE  /\ o \in Orders \ late
         /\ row'[o].status \in Settled
         /\ ex[o] \in Terminal => ex'[o] \in Terminal
<1>1. /\ o \in Orders \ late /\ c \in Procs
  BY RefusedStays, CommandsAssumption
  DEF Accountable, Truthful, CommandInv, CommandRecords, Procs
<1>2. row[o].status \in Settled
  BY <1>1 DEF ListedOK
<1>3. ASSUME NEW p \in Procs
      PROVE  /\ SavePeer(p) /\ Oco[cancel[p].o] = o =>
                  cancel[p].peer.status # "NEW"
             /\ SaveOwn(p) /\ cancel[p].o = o =>
                  cancel[p].snap[o].status # "NEW"
  <2>1. CASE p # c
    BY <1>1, <2>1 DEF NothingNewBeside
  <2>2. CASE p = c
    BY <1>1, <2>2
    DEF ListedOK, ObjectsKnown, LoopOK, SavePeer, SaveOwn, Settled, Terminal
  <2> QED BY <2>1, <2>2
<1>4. row'[o].status \in Settled
  BY <1>1, <1>2, <1>3, SettledStays
<1>5. ex[o] \in Terminal => ex'[o] \in Terminal
  BY <1>1 DEF Accountable, ExGrows
<1> QED BY <1>1, <1>4, <1>5

(* The loop of c goes on.                                                   *)
LEMMA ListedLoop ==
  ASSUME Accountable, ObjectsKnown, NothingNewBeside, [Next]_vars,
         NEW c \in Stoppers, ListedOK(c), CancelInCommand(c)
  PROVE  ListedOK(c)'
<1>1. /\ c \in Commands /\ c \in Procs
      /\ cmd[c] \in CommandRecords /\ cmd \in [Commands -> CommandRecords]
      /\ cancel \in [Procs -> CancelRecords] /\ cancel[c] \in CancelRecords
      /\ CancelOK(cancel[c]) /\ LoopOK(c)
      /\ ex \in [Orders -> ExchangeStatuses]
      /\ \A o \in Orders : Honest(o, row[o])
  BY CommandsAssumption
  DEF Accountable, Truthful, CommandInv, CancelInv, CancelTypeOK, Procs,
      ObjectsKnown, StoreInv, ExchangeInv, ExchangeTypeOK
<1>2. /\ cmd'[c].listed = cmd[c].listed
      /\ cmd[c].pc = "cancelling" /\ cmd'[c].pc \in {"cancelling", "done", "aborted"}
  BY <1>1 DEF CancelInCommand, To, CommandRecords
<1>3. \A o \in cmd[c].listed \ late' :
        /\ o \in Orders \ late
        /\ row[o].status \in Settled /\ row'[o].status \in Settled
        /\ cancel[c].snap[o] # NoRow => cancel[c].snap[o].status \in Settled
        /\ cancel[c].snap[o] = NoRow => ex[o] \in Terminal
        /\ ex[o] \in Terminal => ex'[o] \in Terminal
  BY <1>2, ListedSettled DEF ListedOK
<1>4. UNCHANGED cmd => cmd'[c].pc = "cancelling"
  BY <1>2
<1>5. CASE Reload(c) /\ UNCHANGED cmd
  <2>1. PICK q \in Listed(c) :
          cancel' = [cancel EXCEPT ![c] =
            IF row[q].status # "ACTIVE" THEN Advance(c, q)
            ELSE [cancel[c] EXCEPT !.pc = IF HasOco(q) THEN "peer" ELSE "own",
                                   !.o = q]]
    BY <1>5 DEF Reload
  <2>2. CASE row[q].status # "ACTIVE"
    <3>1. /\ cancel'[c].pc = "next"
          /\ \A o \in Orders :
               cancel'[c].snap[o] = IF o = q THEN NoRow ELSE cancel[c].snap[o]
      BY <1>1, <2>1, <2>2 DEF Advance, LoopWith, NotCancelling, CancelRecords
    <3>2. q \in cmd[c].listed \ late' => ex[q] \in Terminal
      BY <1>1, <1>3, <2>2 DEF Settled, Honest, Confirmed
    <3> QED BY <1>2, <1>3, <1>5, <1>4, <3>1, <3>2 DEF ListedOK
  <2>3. CASE row[q].status = "ACTIVE"
    <3>1. /\ cancel'[c].snap = cancel[c].snap
          /\ cancel'[c].pc \in {"peer", "own"}
      BY <1>1, <2>1, <2>3 DEF CancelRecords
    <3> QED BY <1>2, <1>3, <1>5, <1>4, <3>1 DEF ListedOK
  <2> QED BY <2>2, <2>3
<1>6. CASE FetchPeer(c) /\ UNCHANGED cmd
  <2>1. /\ cancel'[c].snap = cancel[c].snap
        /\ cancel'[c].peer = row[Oco[cancel[c].o]]
        /\ cancel'[c].o = cancel[c].o
    BY <1>1, <1>6 DEF FetchPeer, CancelRecords
  <2> QED BY <1>2, <1>3, <1>6, <1>4, <2>1 DEF ListedOK
<1>7. CASE (SavePeer(c) \/ SaveOwn(c)) /\ UNCHANGED cmd
  <2>1. /\ cancel'[c].snap = cancel[c].snap
        /\ cancel'[c].pc \in {"own", "call"}
    BY <1>1, <1>7 DEF SavePeer, SaveOwn, CancelRecords
  <2> QED BY <1>2, <1>3, <1>7, <1>4, <2>1 DEF ListedOK
<1>8. CASE CancelCall(c) /\ UNCHANGED cmd
  <2>1. /\ cancel'[c].pc = "next"
        /\ \A o \in Orders : cancel'[c].snap[o] =
             IF o = cancel[c].o THEN NoRow ELSE cancel[c].snap[o]
    BY <1>1, <1>8
    DEF CancelCall, Advance, LoopWith, NotCancelling, CancelRecords
  <2>2. cancel[c].o \in Orders /\ ex[cancel[c].o] # "none"
    BY <1>1, <1>8 DEF CancelCall, CancelOK
  <2>3. ex'[cancel[c].o] \in Terminal
    <3>1. CASE CancelAtExchange(cancel[c].o)
      <4>1. \/ ex' = [ex EXCEPT ![cancel[c].o] = "CANCELED"]
            \/ ex' = [ex EXCEPT ![cancel[c].o] = "CANCELED",
                                ![Oco[cancel[c].o]] = "CANCELED"]
        BY <3>1 DEF CancelAtExchange, Finish
      <4>2. ex'[cancel[c].o] = "CANCELED"
        BY <1>1, <2>2, <4>1
      <4> QED BY <4>2 DEF Terminal
    <3>2. CASE ex[cancel[c].o] \notin OnBook /\ UNCHANGED exchangeVars
      BY <1>1, <2>2, <3>2 DEF ExchangeStatuses, exchangeVars
    <3> QED BY <1>8, <3>1, <3>2 DEF CancelCall
  <2> QED BY <1>2, <1>3, <1>8, <1>4, <2>1, <2>3 DEF ListedOK
<1>9. CASE CancelRaises(c, NotCancelling) /\ To(c, "aborted")
  <2>1. /\ cancel'[c].pc = "idle" /\ cmd'[c].pc = "aborted"
        /\ \A o \in Orders : cancel'[c].snap[o] = NoRow
    BY <1>1, <1>9
    DEF CancelRaises, NotCancelling, NoSnapshot, To, CommandRecords
  <2> QED BY <1>2, <1>3, <2>1 DEF ListedOK
<1>10. CASE LoopDone(c) /\ cancel' = [cancel EXCEPT ![c] = NotCancelling]
  <2>1. /\ cancel'[c].pc = "idle"
        /\ \A o \in Orders : cancel'[c].snap[o] = NoRow
        /\ \A o \in Orders : cancel[c].snap[o] = NoRow
    BY <1>1, <1>10 DEF LoopDone, Listed, NotCancelling, NoSnapshot
  <2> QED BY <1>2, <1>3, <2>1 DEF ListedOK
<1> QED BY <1>5, <1>6, <1>7, <1>8, <1>9, <1>10 DEF CancelInCommand, CancelStep

LEMMA ListedKeeps ==
  ASSUME Accountable, ObjectsKnown, NothingNewBeside, [Next]_vars,
         NEW c \in Stoppers, ListedOK(c)
  PROVE  ListedOK(c)'
<1>1. /\ c \in Commands /\ c \in Procs
      /\ cmd[c] \in CommandRecords /\ cmd \in [Commands -> CommandRecords]
      /\ cancel \in [Procs -> CancelRecords] /\ cancel[c] \in CancelRecords
      /\ row \in [Orders -> Rows]
  BY CommandsAssumption, StoreFacts
  DEF Accountable, Truthful, CommandInv, CancelInv, CancelTypeOK, Procs
<1>2. \A o \in cmd[c].listed \ late' :
        /\ o \in Orders \ late /\ row'[o].status \in Settled
        /\ ex[o] \in Terminal => ex'[o] \in Terminal
  BY ListedSettled
<1>3. CASE cmd'[c] = cmd[c] /\ cancel'[c] = cancel[c]
  BY <1>2, <1>3 DEF ListedOK
<1>4. CASE \/ StartPlacement(c) \/ PlaceInCommand(c) \/ GetOrder(c)
           \/ GetBot(c) \/ Decline(c)
  <2>1. cmd'[c].listed = {}
    BY <1>1, <1>4
    DEF StartPlacement, PlaceInCommand, GetOrder, GetBot, Decline, To,
        CommandRecords, CommandAt, ListedOK
  <2> QED BY <2>1 DEF ListedOK
<1>5. CASE ListActive(c)
  <2>1. /\ cmd[c].listed = {} /\ cancel[c].pc = "idle" /\ UNCHANGED row
    BY <1>1, <1>5 DEF ListActive, ListedOK, ObjectsKnown, storeVars
  <2>2. CASE UNCHANGED cancel /\ To(c, "prompt")
    <3>1. cmd'[c].listed = {} /\ cmd'[c].pc = "prompt"
      BY <1>1, <2>1, <2>2 DEF To, CommandRecords
    <3> QED BY <3>1 DEF ListedOK
  <2>3. CASE /\ cancel' = [cancel EXCEPT ![c].snap = Snapshot(ActiveOrders)]
             /\ cmd' = [cmd EXCEPT ![c] =
                          [pc |-> "prompt", listed |-> ActiveOrders]]
    <3>1. /\ cancel'[c].pc = "idle"
          /\ cancel'[c].snap = Snapshot(ActiveOrders)
          /\ cmd'[c].pc = "prompt" /\ cmd'[c].listed = ActiveOrders
      BY <1>1, <2>1, <2>3 DEF CancelRecords
    <3>2. ASSUME NEW o \in ActiveOrders
          PROVE  /\ row'[o].status \in Settled
                 /\ cancel'[c].snap[o] # NoRow
                 /\ cancel'[c].snap[o].status \in Settled
      BY <2>1, <3>1, <3>2 DEF ActiveOrders, Snapshot, Settled, NoRow
    <3> QED BY <3>1, <3>2 DEF ListedOK
  <2>4. CASE UNCHANGED cancel /\ To(c, "aborted")
    <3>1. cmd'[c].listed = {} /\ cmd'[c].pc = "aborted"
      BY <1>1, <2>1, <2>4 DEF To, CommandRecords
    <3> QED BY <3>1 DEF ListedOK
  <2> QED BY <1>5, <2>2, <2>3, <2>4 DEF ListActive
<1>6. CASE Confirm(c)
  <2>1. /\ cmd'[c].listed = cmd[c].listed /\ cmd'[c].pc = "cancelling"
        /\ cancel'[c].snap = cancel[c].snap /\ cancel'[c].pc = "next"
        /\ cmd[c].pc = "prompt"
    BY <1>1, <1>6 DEF Confirm, To, CommandRecords, CancelRecords
  <2> QED BY <1>2, <2>1 DEF ListedOK
<1>7. CASE KillCommand(c)
  <2>1. /\ cmd'[c].listed = cmd[c].listed /\ cmd'[c].pc = "aborted"
        /\ cancel'[c].pc = "idle"
        /\ \A o \in Orders : cancel'[c].snap[o] = NoRow
    BY <1>1, <1>7
    DEF KillCommand, To, CommandRecords, NotCancelling, NoSnapshot
  <2> QED BY <1>2, <2>1 DEF ListedOK
<1>8. CASE CancelInCommand(c)
  BY <1>8, ListedLoop
<1> QED BY <1>1, <1>3, <1>4, <1>5, <1>6, <1>7, <1>8, CommandActor
        DEF CommandStep

LEMMA ListedInit == Init => ListedInv
BY CommandsAssumption DEF Init, CommandAt, ListedInv, ListedOK

(* When a bot_stop that ran to its end has listed an order, the order can   *)
(* trade no more: whatever the workers do, whatever dies, is rerun or       *)
(* reordered, however many commands run and with or without a peer - as     *)
(* long as nobody beside it holds an object that was read while its order   *)
(* was NEW, and but for orders whose placement raised after all.            *)
THEOREM ListedOrdersAreGone == Spec /\ []NothingNewBeside => []ListedAreGone
<1> DEFINE I == Truthful /\ Accounted /\ ObjectsKnown /\ ListedInv
<1>1. Init => I
  BY TruthfulInit, AccountedInit, ObjectsKnownInit, ListedInit
<1>2. I /\ NothingNewBeside /\ [Next]_vars => I'
  <2> SUFFICES ASSUME I, NothingNewBeside, [Next]_vars PROVE I'
    OBVIOUS
  <2>1. Accountable
    BY StepKind DEF Accountable, Accounted
  <2>2. Truthful' /\ Accounted' /\ ObjectsKnown'
    BY <2>1, TruthfulStep, AccountedStep, ObjectsKnownStep
  <2>3. ListedInv'
    BY <2>1, ListedKeeps DEF ListedInv
  <2> QED BY <2>2, <2>3
<1>3. I => ListedAreGone
  <2> SUFFICES ASSUME Truthful, ListedInv, NEW c \in Stoppers, cmd[c].pc = "done",
                      NEW o \in cmd[c].listed \ late
               PROVE  ex[o] \notin OnBook
    BY DEF ListedAreGone
  <2>1. ex[o] \in Terminal
    BY DEF ListedInv, ListedOK
  <2> QED BY <2>1 DEF Terminal, OnBook
<1> QED BY <1>1, <1>2, <1>3, PTL DEF Spec

-----------------------------------------------------------------------------
(* Who can hold an object read while NEW                                    *)

(* Every loop but an order_cancel's is over a list of ACTIVE rows, and an   *)
(* order without a peer gives it nothing else to read.                      *)
ReadActive(p) ==
  /\ cancel[p].peer = NoRow
  /\ \A o \in Orders : cancel[p].snap[o].status \in {"ABSENT", "ACTIVE"}

LEMMA ReadActiveInit == Init => \A p \in Procs : ReadActive(p)
<1> SUFFICES ASSUME Init, NEW p \in Procs PROVE ReadActive(p)
  OBVIOUS
<1>1. cancel[p].peer = NoRow /\ \A o \in Orders : cancel[p].snap[o] = NoRow
  BY DEF Init, CancelInit, NotCancelling, NoSnapshot
<1> QED BY <1>1 DEF ReadActive, NoRow

LEMMA ReadActiveKeeps ==
  ASSUME Accountable, ObjectsKnown, [Next]_vars, DOMAIN Oco = {},
         NEW p \in Procs \ Cancelers, ReadActive(p)
  PROVE  ReadActive(p)'
<1>1. /\ cancel \in [Procs -> CancelRecords] /\ cancel[p] \in CancelRecords
      /\ CancelOK(cancel[p]) /\ LoopMove(p)
  BY CommandActor DEF Accountable, Truthful, CancelInv, CancelTypeOK
<1>2. NoRow.status = "ABSENT"
  BY DEF NoRow
<1>3. CASE cancel'[p] = cancel[p]
  BY <1>3 DEF ReadActive
<1>4. CASE LoopCleared(p)
  <2>1. cancel'[p].peer = NoRow /\ \A o \in Orders : cancel'[p].snap[o] = NoRow
    BY <1>4 DEF LoopCleared, NotCancelling, NoSnapshot
  <2> QED BY <1>2, <2>1 DEF ReadActive
<1>5. CASE LoopSet(p)
  <2>1. cancel'[p].peer = NoRow
    BY <1>5 DEF LoopSet, ReadActive
  <2>2. CASE cancel'[p].snap = cancel[p].snap
    BY <2>1, <2>2 DEF ReadActive
  <2>3. CASE cancel'[p].snap = Snapshot(ActiveOrders)
    BY <1>2, <2>1, <2>3 DEF ReadActive, Snapshot, ActiveOrders
  <2> QED BY <1>5, <2>2, <2>3 DEF LoopSet
<1>6. ASSUME NEW q, cancel'[p] = Advance(p, q) PROVE ReadActive(p)'
  <2>1. /\ cancel'[p].peer = NoRow
        /\ \A o \in Orders : \/ cancel'[p].snap[o] = cancel[p].snap[o]
                             \/ cancel'[p].snap[o] = NoRow
    BY <1>1, <1>6 DEF Advance, LoopWith, NotCancelling, CancelRecords
  <2> QED BY <1>2, <2>1 DEF ReadActive
<1>7. CASE Reload(p)
  <2>1. PICK q \in Listed(p) :
          \/ cancel' = [cancel EXCEPT ![p] = Advance(p, q)]
          \/ cancel' = [cancel EXCEPT ![p] =
               [cancel[p] EXCEPT !.pc = IF HasOco(q) THEN "peer" ELSE "own",
                                 !.o = q]]
    BY <1>7 DEF Reload
  <2>2. CASE cancel' = [cancel EXCEPT ![p] = Advance(p, q)]
    <3>1. cancel'[p] = Advance(p, q)
      BY <1>1, <2>2
    <3> QED BY <1>6, <3>1
  <2>3. CASE cancel' = [cancel EXCEPT ![p] =
               [cancel[p] EXCEPT !.pc = IF HasOco(q) THEN "peer" ELSE "own",
                                 !.o = q]]
    <3>1. cancel'[p].snap = cancel[p].snap /\ cancel'[p].peer = cancel[p].peer
      BY <1>1, <2>3 DEF CancelRecords
    <3> QED BY <3>1 DEF ReadActive
  <2> QED BY <2>1, <2>2, <2>3
<1>8. ~FetchPeer(p) /\ ~SavePeer(p)
  BY <1>1 DEF FetchPeer, SavePeer, CancelOK, HasOco
<1>9. CASE SaveOwn(p)
  <2>1. cancel'[p].snap = cancel[p].snap /\ cancel'[p].peer = cancel[p].peer
    BY <1>1, <1>9 DEF SaveOwn, CancelRecords
  <2> QED BY <2>1 DEF ReadActive
<1>10. CASE CancelCall(p) \/ LoopAdvances(p)
  <2>1. cancel'[p] = Advance(p, cancel[p].o)
    BY <1>1, <1>10 DEF CancelCall, LoopAdvances
  <2> QED BY <1>6, <2>1
<1> QED BY <1>1, <1>3, <1>4, <1>5, <1>7, <1>8, <1>9, <1>10
        DEF LoopMove, CancelStep

(* Without peers, and with no order_cancel beside a bot_stop, nobody ever   *)
(* holds such an object: the orders bot_stop listed are gone.               *)
THEOREM ListedAreGoneWithoutCancelers ==
  ASSUME DOMAIN Oco = {}, \A c \in Stoppers : Cancelers \subseteq {c}
  PROVE  Spec => []ListedAreGone
<1> DEFINE I == /\ Truthful /\ Accounted /\ ObjectsKnown
                /\ \A p \in Procs \ Cancelers : ReadActive(p)
<1>1. Init => I
  BY TruthfulInit, AccountedInit, ObjectsKnownInit, ReadActiveInit
<1>2. I /\ [Next]_vars => I'
  <2> SUFFICES ASSUME I, [Next]_vars PROVE I'
    OBVIOUS
  <2>1. Accountable
    BY StepKind DEF Accountable, Accounted
  <2>2. Truthful' /\ Accounted' /\ ObjectsKnown'
    BY <2>1, TruthfulStep, AccountedStep, ObjectsKnownStep
  <2>3. \A p \in Procs \ Cancelers : ReadActive(p)'
    BY <2>1, ReadActiveKeeps
  <2> QED BY <2>2, <2>3
<1>3. I => NothingNewBeside
  <2> SUFFICES ASSUME I, NEW c \in Stoppers, NEW p \in Procs \ {c}
               PROVE  /\ \A o \in Orders : cancel[p].snap[o].status # "NEW"
                      /\ cancel[p].peer.status # "NEW"
    BY DEF NothingNewBeside
  <2>1. ReadActive(p)
    OBVIOUS
  <2> QED BY <2>1 DEF ReadActive, NoRow
<1> QED BY <1>1, <1>2, <1>3, ListedOrdersAreGone, PTL DEF Spec

=============================================================================
