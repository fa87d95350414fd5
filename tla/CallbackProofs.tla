--------------------------- MODULE CallbackProofs ---------------------------
(***************************************************************************)
(* Who may put a callback back to WAITING, and what a waiting callback     *)
(* means: proofs about OrderFlow for every number of orders, workers and   *)
(* commands.  A step is first told by its kind - how it writes the table,  *)
(* how it moves a placement - and Accounted is then preserved kind by kind.*)
(***************************************************************************)
EXTENDS OrderFlowProofs

(* The exchange accepts nothing in this step.                               *)
NoneStays == \A o \in Orders : ex[o] = "none" => ex'[o] = "none"

(* A callback_status other than WAITING is written.                         *)
CallbackWrite ==
  \E o \in Orders, r \in Rows :
    /\ row' = [row EXCEPT ![o] = r]
    /\ ex[o] # "none"
    /\ r.cb # "WAITING"

(* A worker writes the status it has in hand.                               *)
StatusWrite ==
  \E w \in Workers : SaveStatus(w) \/ GuardedUpdate(w) \/ GuardedUpdateRerun(w)

RowsAdded ==
  \E p \in Procs, legs \in Placements :
    CreateRows(p, legs) /\ UNCHANGED <<ex, late>>

MarkedError == \E p \in Procs : OnErrorOrder(p) /\ UNCHANGED <<ex, late>>

CallEnds ==
  /\ UNCHANGED row
  /\ \E p \in Procs : CallAccepted(p) \/ CallRejected(p) \/ CallAnswerLost(p)

PlacementLeft ==
  /\ UNCHANGED <<row, late>> /\ NoneStays
  /\ \E p \in Procs : place' = [place EXCEPT ![p] = NotPlacing]

(* The kinds of step.                                                       *)
Kinds ==
  \/ /\ UNCHANGED row \/ CallbackWrite \/ StatusWrite
     /\ UNCHANGED placementVars /\ NoneStays
  \/ RowsAdded \/ MarkedError \/ CallEnds \/ PlacementLeft

(* A step that writes neither the rows nor what the exchange decided.       *)
LEMMA IdleKind ==
  ASSUME UNCHANGED <<row, ex, placementVars>> PROVE Kinds /\ ExGrows
BY DEF Kinds, NoneStays, ExGrows

LEMMA ExchangeKind ==
  ASSUME ExchangeInv, NEW o \in Orders,
         Fill(o) \/ CancelAtExchange(o) \/ Expire(o) \/ PartFill(o) \/ PushOut(o)
  PROVE  NoneStays /\ ExGrows
<1>1. ex \in [Orders -> ExchangeStatuses]
  BY DEF ExchangeInv, ExchangeTypeOK
<1>2. NoneStays
  BY <1>1, OcoAssumption
  DEF NoneStays, Fill, CancelAtExchange, Finish, LivePeer, HasOco, Expire,
      PartFill, PushOut, OnBook
<1> QED BY <1>2, ExchangeMoves

(* cancel_order writes CANCELED in the callback columns of orders that the  *)
(* exchange has accepted, for it reloads them and asks for ACTIVE.          *)
LEMMA CancelKind ==
  ASSUME StoreInv, ExchangeInv, CancelInv, NEW p \in Procs,
         CancelStep(p) \/ \E next \in CancelRecords : CancelRaises(p, next)
  PROVE  (UNCHANGED row \/ CallbackWrite) /\ NoneStays
<1> DEFINE c == cancel[p]
<1>1. c \in CancelRecords /\ CancelOK(c)
  BY DEF CancelInv, CancelTypeOK
<1>2. CASE Reload(p) \/ FetchPeer(p)
  BY <1>2 DEF Reload, FetchPeer, storeVars, exchangeVars, NoneStays
<1>3. CASE SavePeer(p)
  <2>1. /\ c.peer \in Rows /\ HasOco(c.o) /\ c.o \in Orders
        /\ ex[c.o] # "none"
    BY <1>1, <1>3 DEF SavePeer, CancelOK, CancelRecords
  <2>2. Oco[c.o] \in Orders /\ ex[Oco[c.o]] # "none"
    BY <2>1, OcoAssumption DEF HasOco, ExchangeInv, LegsEndTogether
  <2> DEFINE r == [c.peer EXCEPT !.cb = "CANCELED"]
  <2>3. r \in Rows /\ r.cb # "WAITING"
    BY <2>1 DEF Rows, CallbackStatuses
  <2>4. row' = [row EXCEPT ![Oco[c.o]] = r]
    BY <1>3 DEF SavePeer, SaveAll, Write
  <2> HIDE DEF r
  <2>5. CallbackWrite
    BY <2>2, <2>3, <2>4 DEF CallbackWrite
  <2> QED BY <1>3, <2>5 DEF SavePeer, exchangeVars, NoneStays
<1>4. CASE SaveOwn(p)
  <2>1. c.snap[c.o] \in Rows /\ c.o \in Orders /\ ex[c.o] # "none"
    BY <1>1, <1>4 DEF SaveOwn, CancelOK, CancelRecords
  <2> DEFINE r == [c.snap[c.o] EXCEPT !.cb = "CANCELED"]
  <2>2. r \in Rows /\ r.cb # "WAITING"
    BY <2>1 DEF Rows, CallbackStatuses
  <2>3. row' = [row EXCEPT ![c.o] = r]
    BY <1>4 DEF SaveOwn, SaveAll, Write
  <2> HIDE DEF r
  <2>4. CallbackWrite
    BY <2>1, <2>2, <2>3 DEF CallbackWrite
  <2> QED BY <1>4, <2>4 DEF SaveOwn, exchangeVars, NoneStays
<1>5. CASE CancelCall(p) \/ \E next \in CancelRecords : CancelRaises(p, next)
  <2>1. UNCHANGED row /\ c.o \in Orders
    BY <1>1, <1>5 DEF CancelCall, CancelRaises, storeVars, CancelOK
  <2>2. CancelAtExchange(c.o) \/ UNCHANGED exchangeVars
    BY <1>5 DEF CancelCall, CancelRaises
  <2>3. NoneStays
    BY <2>1, <2>2, ExchangeKind DEF exchangeVars, NoneStays
  <2> QED BY <2>1, <2>3
<1> QED BY <1>2, <1>3, <1>4, <1>5 DEF CancelStep

(* new_order_* in a command or in a callback.                               *)
LEMMA PlacementKind ==
  ASSUME ExchangeInv, PlacementInv, NEW p \in Procs,
         \/ /\ CallAccepted(p) \/ CallRejected(p) \/ CallAnswerLost(p)
            /\ UNCHANGED storeVars
         \/ OnErrorOrder(p) /\ UNCHANGED <<exchangeVars, late>>
         \/ /\ place' = [place EXCEPT ![p] = NotPlacing]
            /\ UNCHANGED <<storeVars, exchangeVars, late>>
  PROVE  Kinds /\ ExGrows
<1>1. CASE /\ CallAccepted(p) \/ CallRejected(p) \/ CallAnswerLost(p)
           /\ UNCHANGED storeVars
  BY <1>1, PlacementCalls DEF Kinds, CallEnds, storeVars
<1>2. CASE OnErrorOrder(p) /\ UNCHANGED <<exchangeVars, late>>
  BY <1>2, ExchangeKeeps DEF Kinds, MarkedError, exchangeVars
<1>3. CASE /\ place' = [place EXCEPT ![p] = NotPlacing]
           /\ UNCHANGED <<storeVars, exchangeVars, late>>
  BY <1>3, ExchangeKeeps
  DEF Kinds, PlacementLeft, NoneStays, storeVars, exchangeVars
<1> QED BY <1>1, <1>2, <1>3

LEMMA CommandKind ==
  ASSUME Truthful, NEW c \in Commands, CommandStep(c) \/ KillCommand(c)
  PROVE  Kinds /\ ExGrows
<1>1. StoreInv /\ ExchangeInv /\ PlacementInv /\ CancelInv /\ c \in Procs
  BY DEF Truthful, Procs
<1>2. CASE StartPlacement(c)
  <2>1. RowsAdded
    BY <1>1, <1>2 DEF StartPlacement, RowsAdded, exchangeVars
  <2> QED BY <1>1, <1>2, <2>1, ExchangeKeeps DEF Kinds, StartPlacement
<1>3. CASE PlaceInCommand(c)
  BY <1>1, <1>3, PlacementKind DEF PlaceInCommand
<1>4. CASE CancelInCommand(c)
  <2>1. UNCHANGED placementVars
    BY <1>4 DEF CancelInCommand
  <2>2. CASE CancelStep(c) \/ CancelRaises(c, NotCancelling)
    <3>1. ExGrows
      BY <1>1, <2>2, CancelSteps, CancelRaisesTrue, NotCancellingSound
    <3>2. (UNCHANGED row \/ CallbackWrite) /\ NoneStays
      BY <1>1, <2>2, CancelKind, NotCancellingSound
    <3> QED BY <2>1, <3>1, <3>2 DEF Kinds
  <2>3. CASE UNCHANGED <<storeVars, exchangeVars>>
    BY <2>1, <2>3, IdleKind DEF storeVars, exchangeVars
  <2> QED BY <1>4, <2>2, <2>3 DEF CancelInCommand
<1>5. CASE GetOrder(c) \/ GetBot(c) \/ ListActive(c) \/ Decline(c) \/ Confirm(c)
  <2>1. UNCHANGED <<row, ex, placementVars>>
    BY <1>5
    DEF GetOrder, GetBot, ListActive, Decline, Confirm, storeVars, exchangeVars
  <2> QED BY <2>1, IdleKind
<1>6. CASE KillCommand(c)
  BY <1>1, <1>6, PlacementKind DEF KillCommand
<1> QED BY <1>2, <1>3, <1>4, <1>5, <1>6 DEF CommandStep

LEMMA WorkerKind ==
  ASSUME Truthful, NEW w \in Workers, WorkerStep(w) \/ WorkerFault(w)
  PROVE  Kinds /\ ExGrows
<1>1. /\ StoreInv /\ ExchangeInv /\ PlacementInv /\ CancelInv /\ WorkerInv
      /\ w \in Procs
  BY DEF Truthful, Procs
<1>2. CASE \/ TakeTimeStart(w) \/ GetAllOrders(w) \/ CompareEntry(w)
           \/ GuardedUpdateMisses(w) \/ ReadBot(w) \/ ReadPeer(w) \/ RunStop(w)
           \/ ListOpenOrders(w) \/ OpenOrdersDone(w)
           \/ Connect(w) \/ HandleReport(w) \/ DropExpired(w) \/ LoseReport(w)
  <2>1. UNCHANGED <<row, ex, placementVars>>
    BY <1>2
    DEF TakeTimeStart, GetAllOrders, CompareEntry, GuardedUpdateMisses, ReadBot,
        ReadPeer, RunStop, ListOpenOrders, OpenOrdersDone, Connect, OpenSocket,
        HandleReport, DropExpired, LoseReport, Recv, storeVars, exchangeVars,
        others
  <2> QED BY <2>1, IdleKind
<1>3. CASE SaveStatus(w) \/ GuardedUpdate(w) \/ GuardedUpdateRerun(w)
  <2>1. StatusWrite /\ UNCHANGED <<exchangeVars, placementVars>>
    BY <1>3
    DEF SaveStatus, GuardedUpdate, GuardedUpdateRerun, StatusWrite, others
  <2> QED BY <1>1, <2>1, ExchangeKeeps DEF Kinds, NoneStays, exchangeVars
<1>4. CASE PassLeg(w) \/ SaveStarted(w) \/ SaveOutcome(w)
  <2>1. UNCHANGED <<exchangeVars, placementVars>>
    BY <1>4 DEF PassLeg, SaveStarted, SaveOutcome, others
  <2>2. wk[w] \in WorkerRecords /\ WorkerOK(wk[w])
    BY <1>1, WkOf
  <2>3. row \in [Orders -> Rows]
    BY <1>1, StoreFacts
  <2>4. CASE PassLeg(w)
    <3> DEFINE r == [wk[w].mem EXCEPT !.cb = "OCO_CANCELED"]
    <3>1. /\ wk[w].o \in Orders /\ wk[w].mem \in Rows /\ HasOco(wk[w].o)
          /\ wk[w].act \in Orders /\ Confirmed(wk[w].o, wk[w].s)
          /\ wk[w].s \in {"ACTIVE"} \cup Terminal
      BY <1>1, <2>2, <2>4, WkOf
      DEF PassLeg, Holds, WorkerOK, Handling, Calling
    <3>2. ex[wk[w].o] # "none"
      BY <3>1 DEF Confirmed, Terminal
    <3>3. r \in Rows /\ r.cb # "WAITING"
      BY <3>1 DEF Rows, CallbackStatuses
    <3>4. row' = [row EXCEPT ![wk[w].o] = r]
      BY <2>4 DEF PassLeg, SaveAll, Write
    <3> HIDE DEF r
    <3>5. CallbackWrite
      BY <3>1, <3>2, <3>3, <3>4 DEF CallbackWrite
    <3> QED BY <1>1, <2>1, <3>5, ExchangeKeeps
            DEF Kinds, NoneStays, exchangeVars
  <2>5. CASE SaveStarted(w) \/ SaveOutcome(w)
    <3>1. wk[w].act \in Orders /\ ex[wk[w].act] # "none"
      BY <2>2, <2>5
      DEF SaveStarted, SaveOutcome, Holds, WorkerOK, Calling, Terminal
    <3>2. PICK x \in {"STARTED", "DONE", "ERROR"} : SaveCallback(wk[w].act, x)
      BY <2>5 DEF SaveStarted, SaveOutcome
    <3> DEFINE r == [row[wk[w].act] EXCEPT !.cb = x]
    <3>3. r \in Rows /\ r.cb # "WAITING"
      BY <2>3, <3>1 DEF Rows, CallbackStatuses
    <3>4. row' = [row EXCEPT ![wk[w].act] = r]
      BY <3>2 DEF SaveCallback, Write
    <3> HIDE DEF r
    <3>5. CallbackWrite
      BY <3>1, <3>3, <3>4 DEF CallbackWrite
    <3> QED BY <1>1, <2>1, <3>5, ExchangeKeeps
            DEF Kinds, NoneStays, exchangeVars
  <2> QED BY <1>4, <2>4, <2>5
<1>5. CASE CancelOpenOrder(w)
  <2>1. UNCHANGED placementVars
    BY <1>5 DEF CancelOpenOrder
  <2>2. Advance(w, cancel[w].o) \in CancelRecords
        /\ CancelOK(Advance(w, cancel[w].o))
    BY <1>1, AdvanceSound
  <2>3. CancelStep(w) \/ CancelRaises(w, Advance(w, cancel[w].o))
    BY <1>5 DEF CancelOpenOrder
  <2>4. (UNCHANGED row \/ CallbackWrite) /\ NoneStays
    BY <1>1, <2>2, <2>3, CancelKind
  <2>5. ExGrows
    BY <1>1, <2>2, <2>3, CancelSteps, CancelRaisesTrue
  <2> QED BY <2>1, <2>4, <2>5 DEF Kinds
<1>6. CASE RunMethod(w)
  <2>1. ExGrows /\ UNCHANGED ex
    BY <1>1, <1>6, ExchangeKeeps DEF RunMethod, exchangeVars
  <2>2. CASE UNCHANGED <<storeVars, placementVars>>
    BY <2>1, <2>2, IdleKind DEF storeVars
  <2>3. CASE \E legs \in Placements :
               CreateRows(w, legs) /\ UNCHANGED <<bot, late>>
    BY <1>1, <2>1, <2>3 DEF Kinds, RowsAdded
  <2> QED BY <1>6, <2>2, <2>3 DEF RunMethod
<1>7. CASE PlaceInCallback(w)
  BY <1>1, <1>7, PlacementKind DEF PlaceInCallback
<1>8. CASE TimerStop(w) \/ Kill(w)
  <2>1. Gone(w)
    BY <1>8 DEF TimerStop, Kill
  <2>2. ExGrows /\ UNCHANGED <<ex, row, late>>
    BY <1>1, <2>1, SocketMoves DEF Gone, CloseSocket
  <2> QED BY <1>1, <2>1, <2>2 DEF Gone, Kinds, PlacementLeft, NoneStays
<1> QED BY <1>2, <1>3, <1>4, <1>5, <1>6, <1>7, <1>8 DEF WorkerStep, WorkerFault

(* Every step is of one of the kinds.                                       *)
LEMMA StepKind == Truthful /\ [Next]_vars => Kinds /\ ExGrows
<1> SUFFICES ASSUME Truthful, [Next]_vars PROVE Kinds /\ ExGrows
  OBVIOUS
<1>1. CASE \E c \in Commands : CommandStep(c)
  BY <1>1, CommandKind
<1>2. CASE \E w \in Workers : WorkerRuns(w)
  BY <1>2, WorkerKind DEF WorkerRuns
<1>3. CASE ExchangeStep
  <2>1. UNCHANGED <<row, placementVars>>
    BY <1>3 DEF ExchangeStep, storeVars
  <2>2. NoneStays /\ ExGrows
    BY <1>3, ExchangeKind DEF ExchangeStep, Truthful
  <2> QED BY <2>1, <2>2 DEF Kinds
<1>4. CASE Fault
  BY <1>4, WorkerKind, CommandKind DEF Fault
<1>5. CASE UNCHANGED vars
  BY <1>5, IdleKind DEF vars, storeVars, exchangeVars
<1> QED BY <1>1, <1>2, <1>3, <1>4, <1>5 DEF Next

-----------------------------------------------------------------------------
(* What a step does to one row *)

Accountable == Truthful /\ RowsInv /\ PlacingInv /\ Kinds /\ ExGrows

RowStep(o) ==
  \/ row'[o] = row[o]
  \/ row[o] = NoRow /\ row'[o] = NewRow
  \/ ex[o] # "none" /\ row'[o].cb # "WAITING"
  \/ ex[o] # "none" /\ row'[o].cb = row[o].cb /\ row'[o].status # "ABSENT"
  \/ /\ row'[o].status = "ERROR" /\ row'[o].cb = "WAITING"
     /\ ex[o] = "none" \/ o \in late

(* The legs of a placement under way, and the leg about to be marked.       *)
LEMMA LegInHand ==
  ASSUME PlacementInv, NEW p \in Procs, OnErrorOrder(p)
  PROVE  /\ 1 \in DOMAIN place[p].legs
         /\ Head(place[p].legs) = place[p].legs[1]
         /\ place[p].legs[1] \in Orders
<1>1. place[p].legs \in Seq(Orders) /\ place[p].legs # <<>>
  BY DEF PlacementInv, PlacementTypeOK, PlaceRecords, OnErrorOrder
<1> QED BY <1>1

LEMMA RowStepOf ==
  ASSUME Accountable, NEW o \in Orders
  PROVE  RowStep(o)
<1>1. /\ row \in [Orders -> Rows] /\ PlacementInv /\ WorkerInv
      /\ \A q \in Orders : row[q] \in Rows
  BY StoreFacts DEF Accountable, Truthful
<1>2. CASE UNCHANGED row
  BY <1>2 DEF RowStep
<1>3. CASE CallbackWrite
  BY <1>1, <1>3 DEF CallbackWrite, RowStep
<1>4. CASE StatusWrite
  <2>1. PICK w \in Workers : wk[w].pc = "save" /\ SaveResult(wk[w].o, wk[w].s)
    BY <1>4
    DEF StatusWrite, SaveStatus, GuardedUpdate, GuardedUpdateRerun, Holds
  <2>2. /\ wk[w].o \in Orders /\ wk[w].s \in {"ACTIVE"} \cup Terminal
        /\ Confirmed(wk[w].o, wk[w].s)
    BY <1>1, <2>1, WkOf DEF WorkerOK, Handling
  <2>3. ex[wk[w].o] # "none"
    BY <2>2 DEF Confirmed, Terminal
  <2>4. row' = [row EXCEPT ![wk[w].o] = WithResult(row[wk[w].o], wk[w].s)]
    BY <2>1 DEF SaveResult, Write
  <2>5. row[wk[w].o] \in Rows
    BY <1>1, <2>2
  <2>6. /\ WithResult(row[wk[w].o], wk[w].s).cb = row[wk[w].o].cb
        /\ WithResult(row[wk[w].o], wk[w].s).status = wk[w].s
    BY <2>5 DEF WithResult, Rows
  <2>7. wk[w].s # "ABSENT"
    BY <2>2 DEF Terminal
  <2>8. CASE o = wk[w].o
    <3>1. row'[o] = WithResult(row[wk[w].o], wk[w].s)
      BY <1>1, <2>2, <2>4, <2>8
    <3> QED BY <2>3, <2>6, <2>7, <2>8, <3>1 DEF RowStep
  <2>9. CASE o # wk[w].o
    BY <1>1, <2>4, <2>9 DEF RowStep
  <2> QED BY <2>8, <2>9
<1>5. CASE RowsAdded
  BY <1>1, <1>5 DEF RowsAdded, CreateRows, InsertRows, RowStep
<1>6. CASE MarkedError
  <2>1. PICK p \in Procs : OnErrorOrder(p)
    BY <1>6 DEF MarkedError
  <2> DEFINE r == [NewRow EXCEPT !.status = "ERROR"]
             q == place[p].legs[1]
  <2>2. row' = [row EXCEPT ![q] = r] /\ q \in Orders
    BY <1>1, <2>1, LegInHand DEF OnErrorOrder, SaveAll, Write
  <2>3. ex[q] = "none" \/ q \in late
    BY <1>1, <2>1, LegInHand DEF Accountable, PlacingInv
  <2>4. r.status = "ERROR" /\ r.cb = "WAITING"
    BY DEF NewRow
  <2> HIDE DEF r
  <2> QED BY <1>1, <2>2, <2>3, <2>4 DEF RowStep
<1> QED BY <1>2, <1>3, <1>4, <1>5, <1>6
        DEF Accountable, Kinds, CallEnds, PlacementLeft

(* Only orders whose rows are there are accepted.                           *)
LEMMA AcceptedHasRow ==
  ASSUME Accountable, NEW o \in Orders, ex[o] = "none", ex'[o] # "none"
  PROVE  row[o] # NoRow
<1>1. PICK p \in Procs : CallAccepted(p) \/ CallAnswerLost(p)
  BY DEF Accountable, Kinds, RowsAdded, MarkedError, CallEnds, PlacementLeft,
         NoneStays, CallRejected, exchangeVars
<1>2. /\ Accept(place[p].legs)
      /\ ex \in [Orders -> ExchangeStatuses]
  BY <1>1 DEF CallAccepted, CallAnswerLost, Accountable, Truthful, ExchangeInv,
              ExchangeTypeOK
<1>3. \E i \in DOMAIN place[p].legs : place[p].legs[i] = o
  BY <1>2 DEF Accept
<1> QED BY <1>3 DEF Accountable, PlacingInv

(* The row part of Accounted, and the property on a callback that has left  *)
(* WAITING.                                                                 *)
LEMMA RowsKeep ==
  ASSUME Accountable
  PROVE  /\ RowsInv'
         /\ \A o \in Orders : row[o] # NoRow => row'[o] # NoRow
         /\ \A o \in Orders \ late :
              row[o].cb # "WAITING" => row'[o].cb # "WAITING"
<1>1. ASSUME NEW o \in Orders
      PROVE  /\ row[o] # NoRow => row'[o] # NoRow
             /\ row'[o].cb # "WAITING" => ex'[o] # "none"
             /\ o \notin late /\ row[o].cb # "WAITING" => row'[o].cb # "WAITING"
  <2>1. RowStep(o)
    BY RowStepOf
  <2>2. /\ row[o].cb # "WAITING" => ex[o] # "none"
        /\ ex[o] # "none" => ex'[o] # "none"
    BY DEF Accountable, RowsInv, ExGrows
  <2>3. NoRow.cb = "WAITING" /\ NewRow.cb = "WAITING" /\ NewRow # NoRow
        /\ NoRow.status = "ABSENT"
    BY DEF NoRow, NewRow
  <2> QED BY <2>1, <2>2, <2>3 DEF RowStep
<1>2. ASSUME NEW o \in Orders, ex'[o] # "none" PROVE row'[o] # NoRow
  <2>1. ex[o] # "none" => row[o] # NoRow
    BY DEF Accountable, RowsInv
  <2> QED BY <1>1, <1>2, <2>1, AcceptedHasRow
<1> QED BY <1>1, <1>2 DEF RowsInv

-----------------------------------------------------------------------------
(* Placements *)

(* What PlacingInv says of the orders one process is placing.               *)
LEMMA PlacingOf ==
  ASSUME PlacingInv, NEW p \in Procs, NEW i \in DOMAIN place[p].legs
  PROVE  /\ row[place[p].legs[i]] # NoRow
         /\ \/ ex[place[p].legs[i]] = "none"
            \/ place[p].pc = "error" /\ place[p].legs[i] \in late
         /\ \A q \in Procs : \A j \in DOMAIN place[q].legs :
              place[q].legs[j] = place[p].legs[i] => q = p
BY DEF PlacingInv

(* No process gets a leg it did not have.                                   *)
LEMMA PlacingShrinks ==
  ASSUME PlacingInv, \A o \in Orders : row[o] # NoRow => row'[o] # NoRow,
         \A p \in Procs :
           /\ place'[p].pc = "idle" => place'[p].legs = <<>>
           /\ \A i \in DOMAIN place'[p].legs :
                LET o == place'[p].legs[i] IN
                /\ o \in Orders
                /\ \E j \in DOMAIN place[p].legs : place[p].legs[j] = o
                /\ ex'[o] = "none" \/ (place'[p].pc = "error" /\ o \in late')
  PROVE  PlacingInv'
<1>1. ASSUME NEW p \in Procs, NEW i \in DOMAIN place'[p].legs
      PROVE  /\ row'[place'[p].legs[i]] # NoRow
             /\ \/ ex'[place'[p].legs[i]] = "none"
                \/ place'[p].pc = "error" /\ place'[p].legs[i] \in late'
             /\ \A q \in Procs : \A j \in DOMAIN place'[q].legs :
                  place'[q].legs[j] = place'[p].legs[i] => q = p
  <2>1. PICK k \in DOMAIN place[p].legs : place[p].legs[k] = place'[p].legs[i]
    BY <1>1
  <2>2. row'[place'[p].legs[i]] # NoRow
    BY <1>1, <2>1, PlacingOf
  <2>3. ASSUME NEW q \in Procs, NEW j \in DOMAIN place'[q].legs,
               place'[q].legs[j] = place'[p].legs[i]
        PROVE  q = p
    <3>1. PICK l \in DOMAIN place[q].legs : place[q].legs[l] = place'[q].legs[j]
      BY <2>3
    <3> QED BY <2>1, <2>3, <3>1, PlacingOf
  <2> QED BY <1>1, <2>2, <2>3
<1> QED BY <1>1 DEF PlacingInv

(* Rows that were not there are not in another process's placement.         *)
LEMMA PlacingStarts ==
  ASSUME PlacementInv, PlacingInv, RowsInv,
         \A o \in Orders : row[o] # NoRow => row'[o] # NoRow,
         NEW p \in Procs, NEW legs \in Placements,
         CreateRows(p, legs), UNCHANGED <<ex, late>>
  PROVE  PlacingInv'
<1>1. /\ \A q \in Procs : q # p => place'[q] = place[q]
      /\ place'[p].pc = "call" /\ place'[p].legs = legs
      /\ \A i \in DOMAIN legs : legs[i] \in Orders
      /\ \A q \in Procs : \A i \in DOMAIN place[q].legs :
           place[q].legs[i] \in Orders
  <2>1. place \in [Procs -> PlaceRecords]
    BY DEF PlacementInv, PlacementTypeOK
  <2>2. legs \in Seq(Orders)
    BY LegsOfPlacement
  <2>3. \A i \in DOMAIN legs : legs[i] \in Orders
    BY <2>2
  <2>4. ASSUME NEW q \in Procs, NEW i \in DOMAIN place[q].legs
        PROVE  place[q].legs[i] \in Orders
    <3>1. place[q].legs \in Seq(Orders)
      BY <2>1 DEF PlaceRecords
    <3> QED BY <3>1
  <2> QED BY <2>1, <2>3, <2>4 DEF CreateRows
<1>2. ASSUME NEW i \in DOMAIN legs
      PROVE  /\ row[legs[i]] = NoRow /\ row'[legs[i]] # NoRow
             /\ ex'[legs[i]] = "none"
  <2>1. row[legs[i]] = NoRow
    BY DEF CreateRows, InsertRows
  <2>2. row'[legs[i]] = NewRow
    BY <1>1 DEF CreateRows, InsertRows
  <2>3. NewRow # NoRow
    BY DEF NewRow, NoRow
  <2> QED BY <1>1, <2>1, <2>2, <2>3 DEF RowsInv
<1>3. ASSUME NEW q \in Procs, NEW i \in DOMAIN place'[q].legs
      PROVE  /\ row'[place'[q].legs[i]] # NoRow
             /\ \/ ex'[place'[q].legs[i]] = "none"
                \/ place'[q].pc = "error" /\ place'[q].legs[i] \in late'
             /\ \A r \in Procs : \A j \in DOMAIN place'[r].legs :
                  place'[r].legs[j] = place'[q].legs[i] => r = q
  <2>1. CASE q = p
    <3>1. ASSUME NEW r \in Procs, NEW j \in DOMAIN place'[r].legs,
                 place'[r].legs[j] = place'[q].legs[i]
          PROVE  r = q
      BY <1>1, <1>2, <2>1, <3>1, PlacingOf
    <3> QED BY <1>1, <1>2, <2>1, <3>1
  <2>2. CASE q # p
    <3>1. place'[q] = place[q]
      BY <1>1, <2>2
    <3>2. /\ row[place[q].legs[i]] # NoRow
          /\ \/ ex[place[q].legs[i]] = "none"
             \/ place[q].pc = "error" /\ place[q].legs[i] \in late
      BY <3>1, PlacingOf
    <3>3. ASSUME NEW r \in Procs, NEW j \in DOMAIN place'[r].legs,
                 place'[r].legs[j] = place'[q].legs[i]
          PROVE  r = q
      BY <1>1, <1>2, <3>1, <3>2, <3>3, PlacingOf
    <3> QED BY <1>1, <3>1, <3>2, <3>3
  <2> QED BY <2>1, <2>2
<1>4. \A q \in Procs : place'[q].pc = "idle" => place'[q].legs = <<>>
  BY <1>1 DEF PlacingInv
<1> QED BY <1>3, <1>4 DEF PlacingInv

LEMMA PlacingKeeps ==
  ASSUME Accountable
  PROVE  PlacingInv' /\ late \subseteq late'
<1>1. /\ PlacementInv /\ PlacingInv /\ RowsInv
      /\ \A o \in Orders : row[o] # NoRow => row'[o] # NoRow
  BY RowsKeep DEF Accountable, Truthful
<1>2. /\ place \in [Procs -> PlaceRecords]
      /\ ex \in [Orders -> ExchangeStatuses]
  BY DEF Accountable, Truthful, PlacementInv, PlacementTypeOK, ExchangeInv,
         ExchangeTypeOK
<1>3. ASSUME NEW p \in Procs, NEW i \in DOMAIN place[p].legs
      PROVE  place[p].legs[i] \in Orders
  <2>1. place[p].legs \in Seq(Orders)
    BY <1>2 DEF PlaceRecords
  <2> QED BY <2>1
<1>4. \A p \in Procs : place[p].pc = "idle" => place[p].legs = <<>>
  BY <1>1 DEF PlacingInv
<1>5. CASE UNCHANGED placementVars /\ NoneStays
  <2>1. ASSUME NEW p \in Procs, NEW i \in DOMAIN place[p].legs
        PROVE  \/ ex'[place[p].legs[i]] = "none"
               \/ place[p].pc = "error" /\ place[p].legs[i] \in late
    BY <1>1, <1>3, <1>5, PlacingOf DEF NoneStays
  <2> QED BY <1>1, <1>3, <1>4, <1>5, <2>1, PlacingShrinks DEF placementVars
<1>6. CASE PlacementLeft
  <2>1. PICK p \in Procs : place' = [place EXCEPT ![p] = NotPlacing]
    BY <1>6 DEF PlacementLeft
  <2>2. /\ place'[p].pc = "idle" /\ place'[p].legs = <<>>
        /\ \A q \in Procs : q # p => place'[q] = place[q]
    BY <1>2, <2>1 DEF NotPlacing
  <2>3. ASSUME NEW q \in Procs, NEW i \in DOMAIN place[q].legs
        PROVE  \/ ex'[place[q].legs[i]] = "none"
               \/ place[q].pc = "error" /\ place[q].legs[i] \in late'
    BY <1>1, <1>3, <1>6, PlacingOf DEF NoneStays, PlacementLeft
  <2>4. ASSUME NEW q \in Procs, NEW i \in DOMAIN place'[q].legs
        PROVE  q # p
    BY <2>2, <2>4
  <2> QED BY <1>1, <1>3, <1>4, <1>6, <2>2, <2>3, <2>4, PlacingShrinks
          DEF PlacementLeft
<1>7. CASE MarkedError
  <2>1. PICK p \in Procs : OnErrorOrder(p)
    BY <1>7 DEF MarkedError
  <2>2. /\ place[p].legs \in Seq(Orders) /\ place[p].legs # <<>>
        /\ place[p].pc = "error"
    BY <1>2, <2>1 DEF PlaceRecords, OnErrorOrder
  <2>3. /\ place'[p].pc = "error" /\ place'[p].legs = Tail(place[p].legs)
        /\ \A q \in Procs : q # p => place'[q] = place[q]
    BY <1>2, <2>1, <2>2 DEF OnErrorOrder, PlaceRecords
  <2>4. \A i \in DOMAIN place'[p].legs :
          /\ i + 1 \in DOMAIN place[p].legs
          /\ place'[p].legs[i] = place[p].legs[i + 1]
    BY <2>2, <2>3
  <2>5. UNCHANGED <<ex, late>>
    BY <1>7 DEF MarkedError
  <2>6. ASSUME NEW q \in Procs, NEW i \in DOMAIN place'[q].legs
        PROVE  /\ place'[q].legs[i] \in Orders
               /\ \E j \in DOMAIN place[q].legs :
                    place[q].legs[j] = place'[q].legs[i]
               /\ \/ ex'[place'[q].legs[i]] = "none"
                  \/ place'[q].pc = "error" /\ place'[q].legs[i] \in late'
    <3>1. CASE q = p
      <4>1. /\ i + 1 \in DOMAIN place[p].legs
            /\ place'[p].legs[i] = place[p].legs[i + 1]
        BY <2>4, <3>1
      <4>2. /\ place[p].legs[i + 1] \in Orders
            /\ \/ ex[place[p].legs[i + 1]] = "none"
               \/ place[p].legs[i + 1] \in late
        BY <1>1, <1>3, <4>1, PlacingOf
      <4> QED BY <2>3, <2>5, <3>1, <4>1, <4>2
    <3>2. CASE q # p
      BY <1>1, <1>3, <2>3, <2>5, <3>2, PlacingOf
    <3> QED BY <3>1, <3>2
  <2>7. \A q \in Procs : place'[q].pc = "idle" => place'[q].legs = <<>>
    BY <1>4, <2>3
  <2> QED BY <1>1, <2>5, <2>6, <2>7, PlacingShrinks
<1>8. CASE CallEnds
  <2>1. PICK p \in Procs : CallAccepted(p) \/ CallRejected(p) \/ CallAnswerLost(p)
    BY <1>8 DEF CallEnds
  <2>2. place[p].pc = "call" /\ late \subseteq late'
    BY <2>1 DEF CallAccepted, CallRejected, CallAnswerLost
  <2>3. /\ \A q \in Procs : q # p => place'[q] = place[q]
        /\ \/ CallAccepted(p) /\ place'[p] = NotPlacing
           \/ /\ CallRejected(p) \/ CallAnswerLost(p)
              /\ place'[p].pc = "error" /\ place'[p].legs = place[p].legs
    BY <1>2, <2>1 DEF CallAccepted, CallRejected, CallAnswerLost, PlaceRecords
  <2>4. ASSUME NEW q \in Procs, q # p, NEW i \in DOMAIN place[q].legs
        PROVE  ex'[place[q].legs[i]] = ex[place[q].legs[i]]
    <3>1. ~\E j \in DOMAIN place[p].legs : place[p].legs[j] = place[q].legs[i]
      BY <1>1, <2>4, PlacingOf
    <3> QED BY <1>3, <2>1, <2>4, <3>1
            DEF CallAccepted, CallRejected, CallAnswerLost, Accept, exchangeVars
  <2>5. ASSUME NEW i \in DOMAIN place[p].legs,
               CallRejected(p) \/ CallAnswerLost(p)
        PROVE  ex'[place[p].legs[i]] = "none" \/ place[p].legs[i] \in late'
    BY <1>1, <2>2, <2>5, PlacingOf
    DEF CallRejected, CallAnswerLost, exchangeVars
  <2>6. ASSUME NEW q \in Procs, NEW i \in DOMAIN place'[q].legs
        PROVE  /\ place'[q].legs[i] \in Orders
               /\ \E j \in DOMAIN place[q].legs :
                    place[q].legs[j] = place'[q].legs[i]
               /\ \/ ex'[place'[q].legs[i]] = "none"
                  \/ place'[q].pc = "error" /\ place'[q].legs[i] \in late'
    <3>1. CASE q = p
      BY <1>3, <2>3, <2>5, <2>6, <3>1 DEF NotPlacing
    <3>2. CASE q # p
      BY <1>1, <1>3, <2>2, <2>3, <2>4, <3>2, PlacingOf
    <3> QED BY <3>1, <3>2
  <2>7. \A q \in Procs : place'[q].pc = "idle" => place'[q].legs = <<>>
    BY <1>4, <2>3 DEF NotPlacing
  <2> QED BY <1>1, <2>2, <2>6, <2>7, PlacingShrinks
<1>9. CASE RowsAdded
  BY <1>1, <1>9, PlacingStarts DEF RowsAdded
<1> QED BY <1>5, <1>6, <1>7, <1>8, <1>9 DEF Accountable, Kinds

-----------------------------------------------------------------------------
(* Workers *)

(* A worker moves its own record only, and lost only grows.                 *)
LEMMA OwnRecord ==
  ASSUME WorkerInv, NEW w \in Workers, WorkerStep(w) \/ WorkerFault(w)
  PROVE  /\ \A v \in Workers : v # w => wk'[v] = wk[v]
         /\ lost \subseteq lost'
<1>1. wk \in [Workers -> WorkerRecords]
  BY WkOf
<1>2. CASE \/ Connect(w) \/ TakeTimeStart(w) \/ GetAllOrders(w)
           \/ CompareEntry(w) \/ HandleReport(w) \/ DropExpired(w)
           \/ LoseReport(w)
  BY <1>1, <1>2
  DEF Connect, TakeTimeStart, GetAllOrders, CompareEntry, HandleReport,
      DropExpired, LoseReport, Goto, callbackVars
<1>3. CASE \/ SaveStatus(w) \/ GuardedUpdate(w) \/ GuardedUpdateMisses(w)
           \/ GuardedUpdateRerun(w) \/ ReadBot(w) \/ ReadPeer(w) \/ PassLeg(w)
  BY <1>1, <1>3
  DEF SaveStatus, GuardedUpdate, GuardedUpdateMisses, GuardedUpdateRerun,
      ReadBot, ReadPeer, PassLeg, Saved, Return, Goto, Execute
<1>4. CASE \/ SaveStarted(w) \/ RunStop(w) \/ ListOpenOrders(w)
           \/ CancelOpenOrder(w) \/ OpenOrdersDone(w) \/ RunMethod(w)
           \/ PlaceInCallback(w) \/ SaveOutcome(w)
  BY <1>1, <1>4
  DEF SaveStarted, RunStop, ListOpenOrders, CancelOpenOrder, OpenOrdersDone,
      RunMethod, PlaceInCallback, SaveOutcome, Return, Goto, callbackVars
<1>5. CASE TimerStop(w) \/ Kill(w)
  BY <1>1, <1>5 DEF TimerStop, Kill, Gone
<1> QED BY <1>2, <1>3, <1>4, <1>5 DEF WorkerStep, WorkerFault

(* Whoever's record changes has made the step.                              *)
LEMMA Actor ==
  ASSUME Truthful, [Next]_vars
  PROVE  /\ lost \subseteq lost'
         /\ \A v \in Workers :
              wk'[v] = wk[v] \/ WorkerStep(v) \/ WorkerFault(v)
<1>1. WorkerInv
  BY DEF Truthful
<1>2. CASE \E w \in Workers : WorkerStep(w) \/ WorkerFault(w)
  BY <1>1, <1>2, OwnRecord
<1>3. CASE UNCHANGED callbackVars
  BY <1>3 DEF callbackVars
<1>4. UNCHANGED callbackVars \/ \E w \in Workers : WorkerStep(w) \/ WorkerFault(w)
  BY DEF Next, CommandStep, WorkerRuns, ExchangeStep, Fault, KillCommand, vars,
         callbackVars
<1> QED BY <1>2, <1>3, <1>4

(* An object that nobody moves stays no newer than its row.                 *)
LEMMA ObjectStays ==
  ASSUME Accountable, NEW k \in WorkerRecords, WorkerOK(k), ObjectOK(k)
  PROVE  ObjectOK(k)'
<1>1. k.pc \in InHand => k.o \in Orders
  BY DEF InHand, WorkerOK, Handling, Calling
<1>2. /\ \A o \in Orders \ late : row[o].cb # "WAITING" => row'[o].cb # "WAITING"
      /\ late \subseteq late'
  BY RowsKeep, PlacingKeeps
<1> QED BY <1>1, <1>2 DEF ObjectOK

(* How the record of a worker may move: an order is taken in hand, handled  *)
(* further, or let go.                                                      *)
Taken(w) ==
  /\ UNCHANGED row
  /\ wk'[w].pc = "save" /\ wk'[w].o \in Orders
  /\ wk'[w].mem.cb = row[wk'[w].o].cb
  /\ wk'[w].mem.status \in Settled

Handled(w) ==
  /\ wk[w].pc \in InHand
  /\ wk'[w].pc \in InHand \cup {"start"}
  /\ wk'[w].o = wk[w].o /\ wk'[w].s = wk[w].s /\ wk'[w].mem = wk[w].mem
  /\ wk'[w].pc = "start" => HasOco(wk[w].o) \/ wk'[w].act = wk[w].o

LetGo(w) == wk'[w].pc \notin InHand \cup {"start"}

HandlesOn(w) ==
  SaveStatus(w) \/ GuardedUpdate(w) \/ ReadBot(w) \/ ReadPeer(w) \/ PassLeg(w)

LEMMA TakenOf ==
  ASSUME Truthful, NEW w \in Workers, CompareEntry(w) \/ HandleReport(w)
  PROVE  wk'[w] = wk[w] \/ Taken(w)
<1>1. /\ WorkerInv /\ wk \in [Workers -> WorkerRecords]
      /\ todo \in [Workers -> SUBSET Reports]
      /\ feed \in [Workers -> Seq(Reports)]
  BY WkOf
  DEF Truthful, WorkerInv, CallbackTypeOK, ExchangeInv, ExchangeTypeOK
<1>2. ASSUME NEW o \in Orders, NEW s
      PROVE  /\ WithResult(row[o], s).cb = row[o].cb
             /\ WithResult(row[o], s).status = s
  <2>1. row[o] \in Rows
    BY StoreFacts DEF Truthful
  <2> QED BY <2>1 DEF WithResult, Rows
<1>3. CASE CompareEntry(w)
  <2>1. PICK r \in todo[w] :
          \/ UNCHANGED wk
          \/ wk' = [wk EXCEPT ![w] =
               [AtPc("save") EXCEPT !.o = r.o, !.s = r.s, !.guarded = TRUE,
                                    !.mem = WithResult(row[r.o], r.s)]]
    BY <1>3 DEF CompareEntry
  <2>2. r.o \in Orders /\ r.s \in Settled /\ UNCHANGED row
    <3>1. r \in Reports
      BY <1>1
    <3> QED BY <1>3, <3>1 DEF Reports, Settled, CompareEntry
  <2> DEFINE m == WithResult(row[r.o], r.s)
             k == [AtPc("save") EXCEPT !.o = r.o, !.s = r.s, !.guarded = TRUE,
                                       !.mem = m]
  <2>3. m.cb = row[r.o].cb /\ m.status \in Settled
    BY <1>2, <2>2
  <2>4. k.pc = "save" /\ k.o = r.o /\ k.mem = m
    BY DEF AtPc
  <2>5. wk' = wk \/ wk' = [wk EXCEPT ![w] = k]
    BY <2>1
  <2> HIDE DEF k, m
  <2> QED BY <1>1, <2>2, <2>3, <2>4, <2>5 DEF Taken
<1>4. CASE HandleReport(w)
  <2> DEFINE r == Head(feed[w])
  <2>1. r.o \in Orders /\ r.s \in Settled /\ UNCHANGED row
    <3>1. feed[w] \in Seq(Reports) /\ feed[w] # <<>> /\ UNCHANGED row
      BY <1>1, <1>4 DEF HandleReport, Recv, storeVars
    <3>2. r \in Reports
      BY <3>1
    <3> QED BY <3>1, <3>2 DEF Reports, Settled
  <2>2. wk' = [wk EXCEPT ![w] =
          [AtPc("save") EXCEPT !.o = r.o, !.s = r.s,
                               !.mem = WithResult(row[r.o], r.s)]]
    BY <1>4 DEF HandleReport
  <2> HIDE DEF r
  <2> DEFINE m == WithResult(row[r.o], r.s)
             k == [AtPc("save") EXCEPT !.o = r.o, !.s = r.s, !.mem = m]
  <2>3. m.cb = row[r.o].cb /\ m.status \in Settled
    BY <1>2, <2>1
  <2>4. k.pc = "save" /\ k.o = r.o /\ k.mem = m
    BY DEF AtPc
  <2>5. wk' = [wk EXCEPT ![w] = k]
    BY <2>2
  <2> HIDE DEF k, m
  <2> QED BY <1>1, <2>1, <2>3, <2>4, <2>5 DEF Taken
<1> QED BY <1>3, <1>4

LEMMA GotoLetsGo ==
  ASSUME WorkerInv, NEW w \in Workers,
         NEW pc \in WorkerPcs \ (InHand \cup {"start"}), Goto(w, pc)
  PROVE  LetGo(w)
<1>1. wk \in [Workers -> WorkerRecords] /\ wk[w] \in WorkerRecords
  BY WkOf
<1>2. wk'[w] = [wk[w] EXCEPT !.pc = pc]
  BY <1>1 DEF Goto
<1>3. wk'[w].pc = pc
  BY <1>1, <1>2 DEF WorkerRecords
<1> QED BY <1>3 DEF LetGo

LEMMA ExecuteHandles ==
  ASSUME WorkerInv, NEW w \in Workers, NEW act, NEW r, wk[w].pc \in InHand,
         Execute(w, act, r), HasOco(wk[w].o) \/ act = wk[w].o
  PROVE  Handled(w) \/ LetGo(w)
<1>1. wk \in [Workers -> WorkerRecords] /\ wk[w] \in WorkerRecords
  BY WkOf
<1> DEFINE k == [wk[w] EXCEPT !.pc = "start", !.act = act, !.actmem = r]
<1>2. wk'[w] = k \/ wk'[w] = AtPc("ready")
  BY <1>1 DEF Execute
<1>3. /\ k.pc = "start" /\ k.o = wk[w].o /\ k.s = wk[w].s
      /\ k.mem = wk[w].mem /\ k.act = act
  BY <1>1 DEF WorkerRecords
<1>4. AtPc("ready").pc = "ready"
  BY DEF AtPc
<1> HIDE DEF k
<1> QED BY <1>2, <1>3, <1>4 DEF Handled, LetGo, InHand

LEMMA TurnOf ==
  ASSUME Truthful, NEW w \in Workers, WorkerStep(w) \/ WorkerFault(w)
  PROVE  \/ wk'[w] = wk[w] \/ Taken(w) \/ LetGo(w)
         \/ HandlesOn(w) /\ Handled(w)
<1>1. WorkerInv /\ wk \in [Workers -> WorkerRecords]
      /\ wk[w] \in WorkerRecords /\ WorkerOK(wk[w])
  BY WkOf DEF Truthful
<1>2. CASE Connect(w) \/ TakeTimeStart(w) \/ GetAllOrders(w)
  BY <1>1, <1>2, GotoLetsGo
  DEF Connect, TakeTimeStart, GetAllOrders, WorkerPcs, InHand
<1>3. CASE CompareEntry(w) \/ HandleReport(w)
  BY <1>3, TakenOf
<1>4. CASE DropExpired(w) \/ LoseReport(w) \/ CancelOpenOrder(w)
  BY <1>4 DEF DropExpired, LoseReport, CancelOpenOrder, callbackVars
<1>5. ASSUME Return(w) PROVE LetGo(w)
  BY <1>1, <1>5 DEF Return, LetGo, AtPc, InHand
<1>6. CASE SaveStatus(w) \/ GuardedUpdate(w)
  <2>1. Saved(w) /\ wk[w].pc = "save"
    BY <1>6 DEF SaveStatus, GuardedUpdate, Holds
  <2>2. HandlesOn(w)
    BY <1>6 DEF HandlesOn
  <2> QED BY <1>1, <2>1, <2>2
          DEF Saved, WorkerRecords, LetGo, Handled, AtPc, InHand
<1>7. CASE GuardedUpdateMisses(w) \/ GuardedUpdateRerun(w) \/ SaveOutcome(w)
  BY <1>5, <1>7 DEF GuardedUpdateMisses, GuardedUpdateRerun, SaveOutcome
<1>8. CASE ReadBot(w)
  <2>1. wk[w].pc = "bot"
    BY <1>8 DEF ReadBot, Holds
  <2>2. Return(w) \/ Goto(w, "oco") \/ Execute(w, wk[w].o, wk[w].mem)
    BY <1>8 DEF ReadBot
  <2>3. CASE Goto(w, "oco")
    <3>1. wk'[w] = [wk[w] EXCEPT !.pc = "oco"]
      BY <1>1, <2>3 DEF Goto
    <3> QED BY <1>1, <1>8, <2>1, <3>1 DEF WorkerRecords, Handled, HandlesOn, InHand
  <2>4. HandlesOn(w)
    BY <1>8 DEF HandlesOn
  <2> QED BY <1>1, <1>5, <2>1, <2>2, <2>3, <2>4, ExecuteHandles DEF InHand
<1>9. CASE ReadPeer(w)
  BY <1>1, <1>9
  DEF ReadPeer, Holds, WorkerRecords, LetGo, Handled, HandlesOn, AtPc, InHand
<1>10. CASE PassLeg(w)
  <2>1. HasOco(wk[w].o) /\ wk[w].pc = "pass"
    BY <1>1, <1>10 DEF PassLeg, Holds, WorkerOK
  <2> QED BY <1>1, <1>10, <2>1, ExecuteHandles DEF PassLeg, HandlesOn, InHand
<1>11. CASE \/ SaveStarted(w) \/ RunStop(w) \/ ListOpenOrders(w)
            \/ OpenOrdersDone(w) \/ RunMethod(w)
  BY <1>1, <1>11, GotoLetsGo
  DEF SaveStarted, RunStop, ListOpenOrders, OpenOrdersDone, RunMethod,
      WorkerPcs, InHand
<1>12. CASE PlaceInCallback(w)
  BY <1>1, <1>12, GotoLetsGo DEF PlaceInCallback, WorkerPcs, InHand
<1>13. CASE TimerStop(w) \/ Kill(w)
  BY <1>1, <1>13 DEF TimerStop, Kill, Gone, LetGo, AtPc, InHand
<1> QED BY <1>2, <1>3, <1>4, <1>6, <1>7, <1>8, <1>9, <1>10, <1>11, <1>12,
           <1>13 DEF WorkerStep, WorkerFault

(* The object part of Accounted.                                            *)
LEMMA ObjectsKeep ==
  ASSUME Accountable, [Next]_vars, NEW v \in Workers, ObjectOK(wk[v])
  PROVE  ObjectOK(wk[v])'
<1>1. Truthful /\ wk[v] \in WorkerRecords /\ WorkerOK(wk[v])
  BY WkOf DEF Accountable, Truthful
<1>2. /\ \A o \in Orders \ late : row[o].cb # "WAITING" => row'[o].cb # "WAITING"
      /\ late \subseteq late'
  BY RowsKeep, PlacingKeeps
<1>3. CASE wk'[v] = wk[v]
  BY <1>1, <1>3, ObjectStays DEF ObjectOK
<1>4. CASE Taken(v)
  BY <1>4 DEF Taken, ObjectOK
<1>5. CASE LetGo(v)
  BY <1>5 DEF LetGo, ObjectOK
<1>6. CASE Handled(v)
  <2>1. wk[v].o \in Orders
    BY <1>1, <1>6 DEF Handled, InHand, WorkerOK, Handling, Calling
  <2> QED BY <1>2, <1>6, <2>1 DEF Handled, ObjectOK
<1> QED BY <1>1, <1>3, <1>4, <1>5, <1>6, TurnOf, Actor

-----------------------------------------------------------------------------
(* Waiting callbacks *)

Waits(o) == row[o].status \in Terminal /\ row[o].cb = "WAITING"

(* The dispatch of o by w goes on, or is recorded as cut off.               *)
GoesOn(w, o) ==
  \/ o \in lost'
  \/ wk'[w].pc \in {"bot", "oco", "pass", "start"} /\ wk'[w].o = o
     /\ wk'[w].s \in Terminal

(* A worker that dispatches an order without peer calls it, unless the bot  *)
(* is not ON or the worker dies.                                            *)
LEMMA DispatchGoesOn ==
  ASSUME WorkerInv, StoreInv, NEW w \in Workers, ObjectOK(wk[w]),
         WorkerStep(w) \/ WorkerFault(w), Dispatching(w), wk[w].s \in Terminal,
         wk[w].o \in HasCallback \ (DOMAIN Oco \cup late),
         row[wk[w].o].cb = "WAITING", row'[wk[w].o].cb = "WAITING"
  PROVE  GoesOn(w, wk[w].o)
<1>1. /\ wk \in [Workers -> WorkerRecords] /\ wk[w] \in WorkerRecords
      /\ WorkerOK(wk[w]) /\ row \in [Orders -> Rows]
  BY WkOf, StoreFacts
<1>2. ~HasOco(wk[w].o) /\ wk[w].o \in Orders
  BY CallbackAssumption DEF HasOco
<1>3. wk[w].pc \in {"bot", "start"}
  BY <1>1, <1>2 DEF Dispatching, WorkerOK
<1>4. ReadBot(w) \/ SaveStarted(w) \/ Kill(w) \/ LoseReport(w)
  BY <1>3
  DEF WorkerStep, WorkerFault, Holds, Connect, TakeTimeStart, GetAllOrders,
      CompareEntry, HandleReport, DropExpired, SaveStatus, GuardedUpdate,
      GuardedUpdateMisses, GuardedUpdateRerun, ReadPeer, PassLeg, RunStop,
      ListOpenOrders, CancelOpenOrder, OpenOrdersDone, RunMethod,
      PlaceInCallback, SaveOutcome, TimerStop
<1>5. CASE ReadBot(w)
  <2>1. wk[w].pc = "bot" /\ wk[w].s # "ACTIVE"
    BY <1>5 DEF ReadBot, Holds, Terminal
  <2>2. \/ lost' = lost \cup {wk[w].o}
        \/ Execute(w, wk[w].o, wk[w].mem)
    BY <1>2, <1>5, <2>1 DEF ReadBot
  <2>3. wk[w].mem.cb = "WAITING"
    BY <1>2, <2>1 DEF ObjectOK, InHand
  <2>4. CASE Execute(w, wk[w].o, wk[w].mem)
    <3>1. wk'[w] = [wk[w] EXCEPT !.pc = "start", !.act = wk[w].o,
                                 !.actmem = wk[w].mem]
      BY <1>1, <2>3, <2>4 DEF Execute
    <3> QED BY <1>1, <3>1 DEF WorkerRecords, GoesOn
  <2> QED BY <2>2, <2>4 DEF GoesOn
<1>6. CASE SaveStarted(w)
  <2>1. wk[w].act = wk[w].o
    BY <1>2, <1>6 DEF SaveStarted, Holds, ObjectOK
  <2>2. row' = [row EXCEPT ![wk[w].o] = [row[wk[w].o] EXCEPT !.cb = "STARTED"]]
    BY <1>6, <2>1 DEF SaveStarted, SaveCallback, Write
  <2>3. row[wk[w].o] \in Rows
    BY <1>1, <1>2
  <2>4. row'[wk[w].o].cb = "STARTED"
    BY <1>1, <1>2, <2>2, <2>3 DEF Rows
  <2> QED BY <2>4
<1>7. CASE Kill(w)
  BY <1>7 DEF Kill, GoesOn
<1>8. CASE LoseReport(w)
  BY <1>8 DEF LoseReport, callbackVars, GoesOn, Dispatching
<1> QED BY <1>4, <1>5, <1>6, <1>7, <1>8

(* A worker that writes a final status dispatches it next, unless the       *)
(* UPDATE was run twice.                                                    *)
LEMMA WrittenGoesOn ==
  ASSUME WorkerInv, StoreInv, NEW w \in Workers,
         SaveStatus(w) \/ GuardedUpdate(w) \/ GuardedUpdateRerun(w),
         ~HasOco(wk[w].o), row'[wk[w].o].status \in Terminal
  PROVE  GoesOn(w, wk[w].o)
<1>1. /\ wk \in [Workers -> WorkerRecords] /\ wk[w] \in WorkerRecords
      /\ WorkerOK(wk[w]) /\ row \in [Orders -> Rows]
  BY WkOf, StoreFacts
<1>2. wk[w].pc = "save" /\ SaveResult(wk[w].o, wk[w].s)
  BY DEF SaveStatus, GuardedUpdate, GuardedUpdateRerun, Holds
<1>3. wk[w].o \in Orders
  BY <1>1, <1>2 DEF WorkerOK, Handling
<1>4. row' = [row EXCEPT ![wk[w].o] = WithResult(row[wk[w].o], wk[w].s)]
  BY <1>2 DEF SaveResult, Write
<1>5. row[wk[w].o] \in Rows
  BY <1>1, <1>3
<1>6. WithResult(row[wk[w].o], wk[w].s).status = wk[w].s
  BY <1>5 DEF WithResult, Rows
<1>7. row'[wk[w].o] = WithResult(row[wk[w].o], wk[w].s)
  BY <1>1, <1>3, <1>4
<1>8. wk[w].s \in Terminal
  BY <1>6, <1>7
<1>9. CASE SaveStatus(w) \/ GuardedUpdate(w)
  <2>1. Saved(w) /\ ~IgnoredCallback(wk[w].o, wk[w].s)
    BY <1>9 DEF SaveStatus, GuardedUpdate, IgnoredCallback
  <2>2. wk'[w] = [wk[w] EXCEPT !.pc = "bot"]
    BY <1>1, <2>1 DEF Saved
  <2> QED BY <1>1, <1>8, <2>2 DEF WorkerRecords, GoesOn
<1>10. CASE GuardedUpdateRerun(w)
  BY <1>10 DEF GuardedUpdateRerun, GoesOn
<1> QED BY <1>9, <1>10

(* Without such a write nothing starts to wait.                             *)
LEMMA WaitedBefore ==
  ASSUME Accountable, ~StatusWrite, NEW o \in Orders, Waits(o)'
  PROVE  Waits(o)
<1>1. row \in [Orders -> Rows] /\ PlacementInv
  BY StoreFacts DEF Accountable, Truthful
<1>2. CASE UNCHANGED row
  BY <1>2 DEF Waits
<1>3. CASE CallbackWrite
  BY <1>1, <1>3 DEF CallbackWrite, Waits
<1>4. CASE RowsAdded
  BY <1>1, <1>4
  DEF RowsAdded, CreateRows, InsertRows, NewRow, Waits, Terminal
<1>5. CASE MarkedError
  <2>1. PICK p \in Procs : OnErrorOrder(p)
    BY <1>5 DEF MarkedError
  <2> DEFINE r == [NewRow EXCEPT !.status = "ERROR"]
  <2>2. row' = [row EXCEPT ![Head(place[p].legs)] = r]
    BY <2>1 DEF OnErrorOrder, SaveAll, Write
  <2>3. r.status \notin Terminal
    BY DEF NewRow, Terminal
  <2> HIDE DEF r
  <2> QED BY <1>1, <2>2, <2>3 DEF Waits
<1> QED BY <1>2, <1>3, <1>4, <1>5
        DEF Accountable, Kinds, CallEnds, PlacementLeft

LEMMA ExplainedKeeps ==
  ASSUME Accountable, Accounted, [Next]_vars,
         NEW o \in HasCallback \ (DOMAIN Oco \cup late')
  PROVE  Explained(o)'
<1>1. /\ Truthful /\ WorkerInv /\ StoreInv /\ o \in Orders /\ o \notin late
      /\ ~HasOco(o)
  BY CallbackAssumption, PlacingKeeps DEF Accountable, Truthful, HasOco
<1>2. /\ lost \subseteq lost'
      /\ \A v \in Workers : wk'[v] = wk[v] \/ WorkerStep(v) \/ WorkerFault(v)
  BY <1>1, Actor
<1> SUFFICES ASSUME Waits(o)' PROVE o \in lost' \/ \E w \in Workers : GoesOn(w, o)
  BY DEF GoesOn, Waits, Explained, Dispatching
<1>3. CASE Waits(o)
  <2>1. o \in lost \/ \E w \in Workers : /\ Dispatching(w) /\ wk[w].o = o
                                         /\ wk[w].s \in Terminal
    BY <1>1, <1>3 DEF Accounted, Explained, Waits
  <2>2. ASSUME NEW w \in Workers, Dispatching(w), wk[w].o = o,
               wk[w].s \in Terminal
        PROVE  GoesOn(w, o)
    <3>1. CASE wk'[w] = wk[w]
      BY <2>2, <3>1 DEF GoesOn, Dispatching
    <3>2. CASE WorkerStep(w) \/ WorkerFault(w)
      <4>1. row[o].cb = "WAITING" /\ row'[o].cb = "WAITING"
        BY <1>3 DEF Waits
      <4>2. ObjectOK(wk[w])
        BY DEF Accounted
      <4> QED BY <1>1, <2>2, <3>2, <4>1, <4>2, DispatchGoesOn
    <3> QED BY <1>2, <3>1, <3>2
  <2> QED BY <1>2, <2>1, <2>2
<1>4. CASE ~Waits(o)
  <2>1. PICK w \in Workers :
          SaveStatus(w) \/ GuardedUpdate(w) \/ GuardedUpdateRerun(w)
    BY <1>1, <1>4, WaitedBefore DEF StatusWrite
  <2>2. wk[w].pc = "save" /\ SaveResult(wk[w].o, wk[w].s)
    BY <2>1 DEF SaveStatus, GuardedUpdate, GuardedUpdateRerun, Holds
  <2>3. CASE wk[w].o = o
    BY <1>1, <2>1, <2>3, WrittenGoesOn DEF Waits
  <2>4. CASE wk[w].o # o
    <3>1. row'[o] = row[o]
      BY <1>1, <2>2, <2>4, StoreFacts DEF SaveResult, Write
    <3> QED BY <1>4, <3>1 DEF Waits
  <2> QED BY <2>3, <2>4
<1> QED BY <1>3, <1>4

-----------------------------------------------------------------------------
(* Accounted is an invariant *)

LEMMA AccountedInit == Init => Accounted
<1> SUFFICES ASSUME Init PROVE Accounted
  OBVIOUS
<1>1. RowsInv
  BY DEF Init, StoreInit, ExchangeInit, NoRow, RowsInv
<1>2. PlacingInv
  BY DEF Init, PlacementInit, NotPlacing, PlacingInv
<1>3. \A w \in Workers : ObjectOK(wk[w])
  BY DEF Init, CallbackInit, AtPc, ObjectOK, InHand
<1>4. \A o \in Orders : Explained(o)
  BY DEF Init, StoreInit, NoRow, Terminal, Explained
<1> QED BY <1>1, <1>2, <1>3, <1>4, CallbackAssumption DEF Accounted

LEMMA AccountedStep == Truthful /\ Accounted /\ [Next]_vars => Accounted'
<1> SUFFICES ASSUME Truthful, Accounted, [Next]_vars PROVE Accounted'
  OBVIOUS
<1>1. Accountable
  BY StepKind DEF Accountable, Accounted
<1>2. RowsInv' /\ PlacingInv'
  BY <1>1, RowsKeep, PlacingKeeps
<1>3. ASSUME NEW w \in Workers PROVE ObjectOK(wk[w])'
  BY <1>1, ObjectsKeep DEF Accounted
<1>4. \A o \in HasCallback \ (DOMAIN Oco \cup late') : Explained(o)'
  BY <1>1, ExplainedKeeps
<1> QED BY <1>2, <1>3, <1>4 DEF Accounted

(* Every row, object and placement is accounted for: WAITING is written by  *)
(* nobody but on_error_order, every order under placement belongs to one    *)
(* process, and a finished order that waits is in somebody's hands.         *)
THEOREM EverythingIsAccounted == Spec => [](Truthful /\ Accounted)
<1>1. Init => Truthful /\ Accounted
  BY TruthfulInit, AccountedInit
<1>2. (Truthful /\ Accounted) /\ [Next]_vars => (Truthful /\ Accounted)'
  BY TruthfulStep, AccountedStep
<1> QED BY <1>1, <1>2, PTL DEF Spec

(* Whatever the number of workers and whatever dies: a finished order       *)
(* without peer that still waits is being dispatched, or its dispatch was   *)
(* cut off at a known place.                                                *)
THEOREM WaitingHasAReason == Spec => []WaitingIsExplained
<1>1. Accounted => WaitingIsExplained
  BY DEF Accounted, Explained, WaitingIsExplained
<1> QED BY <1>1, EverythingIsAccounted, PTL

(* No stale object saved whole takes a callback back to WAITING.            *)
THEOREM CallbacksLeaveWaitingOnce == Spec => NeverWaitingAgain
<1>1. Truthful /\ Accounted /\ [Next]_vars =>
        [\A o \in Orders \ late :
           row[o].cb # "WAITING" => row'[o].cb # "WAITING"]_vars
  <2> SUFFICES ASSUME Truthful, Accounted, [Next]_vars
               PROVE  \A o \in Orders \ late :
                        row[o].cb # "WAITING" => row'[o].cb # "WAITING"
    OBVIOUS
  <2>1. Accountable
    BY StepKind DEF Accountable, Accounted
  <2> QED BY <2>1, RowsKeep
<1> QED BY <1>1, EverythingIsAccounted, PTL DEF Spec, NeverWaitingAgain
=============================================================================
