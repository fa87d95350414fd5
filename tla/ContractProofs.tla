--------------------------- MODULE ContractProofs ---------------------------
(***************************************************************************)
(* With one worker per connection, a callback is started at most once and  *)
(* for one leg of an OCO: proofs about OrderFlow for every number of       *)
(* orders and commands, up to the refinement of CallbackContract.  The     *)
(* objects a worker holds are copies of rows; that their WAITING is still  *)
(* true when the callback starts is what CalledOnce records.               *)
(***************************************************************************)
EXTENDS CallbackProofs

(* The supervisor runs one user-data-stream process per connection.         *)
OneWorker == \A v, w \in Workers : v = w

(* What is known of a step before CalledOnce is proved of its end.          *)
Calm ==
  /\ Accountable /\ CalledOnce /\ OneWorker
  /\ late \subseteq late'
  /\ \A o \in Orders \ late : row[o].cb # "WAITING" => row'[o].cb # "WAITING"

LEMMA CalmStep ==
  ASSUME Truthful, Accounted, CalledOnce, OneWorker, [Next]_vars
  PROVE  Calm
<1>1. Accountable
  BY StepKind DEF Accountable, Accounted
<1> QED BY <1>1, RowsKeep, PlacingKeeps DEF Calm

LEMMA CallTypes ==
  ASSUME Truthful
  PROVE  /\ runs \in [Orders -> Nat]
         /\ wk \in [Workers -> WorkerRecords]
         /\ row \in [Orders -> Rows]
         /\ late \subseteq Orders
BY StoreFacts
DEF Truthful, WorkerInv, CallbackTypeOK, PlacementInv, PlacementTypeOK

(* The other leg of a leg that is not late.                                 *)
LEMMA OtherLeg ==
  ASSUME LegsLateTogether, NEW o \in DOMAIN Oco
  PROVE  /\ o \in Orders /\ Oco[o] \in Orders /\ Oco[o] \in DOMAIN Oco
         /\ Oco[o] # o /\ Oco[Oco[o]] = o
         /\ o \notin late <=> Oco[o] \notin late
BY OcoAssumption DEF LegsLateTogether

(* Only SaveStarted counts.                                                 *)
LEMMA RunsChange ==
  ASSUME [Next]_vars
  PROVE  UNCHANGED runs \/ \E w \in Workers : SaveStarted(w)
<1>1. ASSUME NEW w \in Workers, WorkerStep(w) \/ WorkerFault(w)
      PROVE  UNCHANGED runs \/ SaveStarted(w)
  <2>1. CASE \/ Connect(w) \/ TakeTimeStart(w) \/ GetAllOrders(w)
             \/ CompareEntry(w) \/ HandleReport(w) \/ DropExpired(w)
             \/ LoseReport(w) \/ TimerStop(w) \/ Kill(w)
    BY <2>1
    DEF Connect, TakeTimeStart, GetAllOrders, CompareEntry, HandleReport,
        DropExpired, LoseReport, TimerStop, Kill, Gone, callbackVars
  <2>2. CASE \/ SaveStatus(w) \/ GuardedUpdate(w) \/ GuardedUpdateMisses(w)
             \/ GuardedUpdateRerun(w) \/ ReadBot(w) \/ ReadPeer(w) \/ PassLeg(w)
    BY <2>2
    DEF SaveStatus, GuardedUpdate, GuardedUpdateMisses, GuardedUpdateRerun,
        ReadBot, ReadPeer, PassLeg
  <2>3. CASE \/ SaveStarted(w) \/ RunStop(w) \/ ListOpenOrders(w)
             \/ CancelOpenOrder(w) \/ OpenOrdersDone(w) \/ RunMethod(w)
             \/ PlaceInCallback(w) \/ SaveOutcome(w)
    BY <2>3
    DEF RunStop, ListOpenOrders, CancelOpenOrder, OpenOrdersDone, RunMethod,
        PlaceInCallback, SaveOutcome, callbackVars
  <2> QED BY <1>1, <2>1, <2>2, <2>3 DEF WorkerStep, WorkerFault
<1>2. UNCHANGED callbackVars \/ \E w \in Workers : WorkerStep(w) \/ WorkerFault(w)
  BY DEF Next, CommandStep, WorkerRuns, ExchangeStep, Fault, KillCommand, vars,
         callbackVars
<1> QED BY <1>1, <1>2 DEF callbackVars

(* The two legs of an OCO are placed by one call.                           *)
LEMMA LateKeeps ==
  ASSUME Calm PROVE LegsLateTogether'
<1>1. LegsLateTogether
  BY DEF Calm, CalledOnce
<1>2. CASE UNCHANGED late
  BY <1>1, <1>2 DEF LegsLateTogether
<1>3. CASE \E p \in Procs : CallAnswerLost(p)
  <2>1. PICK p \in Procs : CallAnswerLost(p)
    BY <1>3
  <2>2. /\ place[p].legs \in Placements
        /\ late' = late \cup {place[p].legs[i] : i \in DOMAIN place[p].legs}
    BY <2>1 DEF CallAnswerLost, Calm, Accountable, Truthful, PlacementInv
  <2>3. \A o \in DOMAIN Oco :
          (\E i \in DOMAIN place[p].legs : place[p].legs[i] = o)
            <=> (\E i \in DOMAIN place[p].legs : place[p].legs[i] = Oco[o])
    BY <2>2, LegsOfPlacement
  <2> QED BY <1>1, <2>2, <2>3 DEF LegsLateTogether
<1>4. UNCHANGED late \/ \E p \in Procs : CallAnswerLost(p)
  BY DEF Calm, Accountable, Kinds, RowsAdded, MarkedError, CallEnds,
         CallAccepted, CallRejected, PlacementLeft, placementVars
<1> QED BY <1>2, <1>3, <1>4

-----------------------------------------------------------------------------
(* Steps that start no callback *)

LEMMA SpentStays ==
  ASSUME Calm, UNCHANGED runs
  PROVE  /\ \A o \in Orders \ late' : Spent(o)'
         /\ \A o \in DOMAIN Oco \ late' : PeerSpent(o)'
<1>1. ASSUME NEW o \in Orders \ late' PROVE Spent(o)'
  BY DEF Calm, CalledOnce, Spent
<1>2. ASSUME NEW o \in DOMAIN Oco \ late' PROVE PeerSpent(o)'
  <2>1. PeerSpent(o) /\ o \notin late
    BY DEF Calm, CalledOnce
  <2>2. Oco[o] \in Orders \ late
    BY <2>1, OtherLeg DEF Calm, CalledOnce
  <2> QED BY <2>1, <2>2 DEF Calm, PeerSpent
<1> QED BY <1>1, <1>2

(* An object nobody moves.                                                  *)
LEMMA FirstCallStays ==
  ASSUME Calm, UNCHANGED runs, NEW k \in WorkerRecords, WorkerOK(k),
         FirstCall(k)
  PROVE  FirstCall(k)'
<1>1. LegsLateTogether /\ late \subseteq late'
  BY DEF Calm, CalledOnce
<1>2. ASSUME k.pc = "start", HasOco(k.act), k.act \notin late',
             row[Oco[k.act]].cb # "WAITING"
      PROVE  row'[Oco[k.act]].cb # "WAITING"
  <2>1. Oco[k.act] \in Orders \ late
    BY <1>1, <1>2, OtherLeg DEF HasOco
  <2> QED BY <1>2, <2>1 DEF Calm
<1> QED BY <1>1, <1>2 DEF FirstCall

(* The worker goes on with the order it has in hand.                        *)
LEMMA FirstCallGoes ==
  ASSUME Calm, UNCHANGED runs, NEW w \in Workers, WorkerOK(wk[w]),
         wk[w] \in WorkerRecords, FirstCall(wk[w]),
         HandlesOn(w)
  PROVE  FirstCall(wk[w])'
<1> DEFINE o == wk[w].o
<1>1. /\ LegsLateTogether /\ late \subseteq late'
      /\ wk \in [Workers -> WorkerRecords] /\ runs \in [Orders -> Nat]
      /\ row \in [Orders -> Rows]
  BY CallTypes DEF Calm, CalledOnce, Accountable
<1>2. o \in Orders /\ wk[w].pc \in InHand
  BY DEF HandlesOn, SaveStatus, GuardedUpdate, ReadBot, ReadPeer, PassLeg, Holds,
         WorkerOK, Handling, Calling, InHand
<1>3. o \notin late /\ wk[w].mem.cb = "WAITING" => runs[o] = 0
  BY <1>2 DEF FirstCall
<1>4. CASE LetGo(w)
  BY <1>4 DEF LetGo, FirstCall, InHand
<1>5. ASSUME wk'[w].pc \in {"bot", "oco"}, wk'[w].o = o, wk'[w].mem = wk[w].mem
      PROVE  FirstCall(wk[w])'
  BY <1>1, <1>3, <1>5 DEF FirstCall
<1>6. CASE SaveStatus(w) \/ GuardedUpdate(w)
  <2>1. Saved(w) /\ wk[w].pc = "save"
    BY <1>6 DEF SaveStatus, GuardedUpdate, Holds
  <2>2. CASE IgnoredCallback(o, wk[w].s)
    BY <1>1, <1>4, <2>1, <2>2 DEF Saved, LetGo, AtPc, InHand
  <2>3. CASE ~IgnoredCallback(o, wk[w].s)
    <3>1. wk'[w] = [wk[w] EXCEPT !.pc = "bot"]
      BY <1>1, <2>1, <2>3 DEF Saved
    <3> QED BY <1>5, <3>1 DEF WorkerRecords
  <2> QED BY <2>2, <2>3
<1>7. CASE ReadBot(w)
  <2>1. \/ Return(w)
        \/ Goto(w, "oco")
        \/ ~HasOco(o) /\ Execute(w, o, wk[w].mem)
    BY <1>7 DEF ReadBot
  <2>2. CASE Return(w)
    BY <1>1, <1>4, <2>2 DEF Return, LetGo, AtPc, InHand
  <2>3. CASE Goto(w, "oco")
    <3>1. wk'[w] = [wk[w] EXCEPT !.pc = "oco"]
      BY <1>1, <2>3 DEF Goto
    <3> QED BY <1>5, <3>1 DEF WorkerRecords
  <2>4. CASE ~HasOco(o) /\ Execute(w, o, wk[w].mem)
    <3>1. CASE wk[w].mem.cb = "WAITING" /\ o \in HasCallback
      <4>1. wk'[w] = [wk[w] EXCEPT !.pc = "start", !.act = o,
                                   !.actmem = wk[w].mem]
        BY <1>1, <2>4, <3>1 DEF Execute
      <4>2. wk'[w].pc = "start" /\ wk'[w].act = o
        BY <4>1 DEF WorkerRecords
      <4> QED BY <1>1, <1>3, <2>4, <3>1, <4>2 DEF FirstCall, InHand
    <3>2. CASE ~(wk[w].mem.cb = "WAITING" /\ o \in HasCallback)
      BY <1>1, <1>4, <2>4, <3>2 DEF Execute, LetGo, AtPc, InHand
    <3> QED BY <3>1, <3>2
  <2> QED BY <2>1, <2>2, <2>3, <2>4
<1>8. CASE ReadPeer(w)
  <2>1. wk[w].pc = "oco" /\ HasOco(o) /\ UNCHANGED row
    BY <1>8 DEF ReadPeer, Holds, WorkerOK, storeVars
  <2>2. Oco[o] \in Orders /\ (o \notin late <=> Oco[o] \notin late)
        /\ Oco[Oco[o]] = o
    BY <1>1, <2>1, OtherLeg DEF HasOco
  <2>3. CASE row[Oco[o]].status = "ACTIVE"
    BY <1>1, <1>4, <1>8, <2>3 DEF ReadPeer, LetGo, AtPc, InHand
  <2>4. CASE row[Oco[o]].status # "ACTIVE"
    <3>1. wk'[w] = [wk[w] EXCEPT !.pc = "pass", !.act = Oco[o],
                                 !.actmem = row[Oco[o]]]
      BY <1>1, <1>8, <2>4 DEF ReadPeer
    <3>2. /\ wk'[w].pc = "pass" /\ wk'[w].act = Oco[o] /\ wk'[w].o = o
          /\ wk'[w].mem = wk[w].mem /\ wk'[w].actmem = row[Oco[o]]
      BY <3>1 DEF WorkerRecords
    <3>3. o \notin late /\ row[Oco[o]].cb = "WAITING" =>
            runs[Oco[o]] = 0 /\ runs[o] = 0
      <4> SUFFICES ASSUME o \notin late, row[Oco[o]].cb = "WAITING"
                   PROVE  runs[Oco[o]] = 0 /\ runs[o] = 0
        OBVIOUS
      <4>1. Spent(Oco[o]) /\ PeerSpent(o)
        BY <2>1, <2>2 DEF Calm, CalledOnce, HasOco
      <4> QED BY <1>1, <1>2, <2>2, <4>1 DEF Spent, PeerSpent
    <3> QED BY <1>1, <1>3, <3>2, <3>3 DEF FirstCall, InHand
  <2> QED BY <2>3, <2>4
<1>9. CASE PassLeg(w)
  <2>1. /\ wk[w].pc = "pass" /\ HasOco(o) /\ wk[w].act = Oco[o]
        /\ o \notin late /\ wk[w].actmem.cb = "WAITING" =>
             runs[Oco[o]] = 0 /\ runs[o] = 0
    BY <1>9 DEF PassLeg, Holds, WorkerOK, FirstCall
  <2>2. Oco[o] \in Orders /\ (o \notin late <=> Oco[o] \notin late)
        /\ Oco[Oco[o]] = o
    BY <1>1, <2>1, OtherLeg DEF HasOco
  <2>3. Execute(w, Oco[o], wk[w].actmem)
    BY <1>9, <2>1 DEF PassLeg
  <2>4. CASE wk[w].actmem.cb = "WAITING" /\ Oco[o] \in HasCallback
    <3>1. wk'[w] = [wk[w] EXCEPT !.pc = "start", !.act = Oco[o],
                                 !.actmem = wk[w].actmem]
      BY <1>1, <2>3, <2>4 DEF Execute
    <3>2. wk'[w].pc = "start" /\ wk'[w].act = Oco[o]
      BY <3>1 DEF WorkerRecords
    <3>3. row'[o].cb # "WAITING"
      <4>1. wk[w].mem \in Rows
        BY DEF WorkerRecords
      <4>2. row' = [row EXCEPT ![o] = [wk[w].mem EXCEPT !.cb = "OCO_CANCELED"]]
        BY <1>9 DEF PassLeg, SaveAll, Write
      <4>3. [wk[w].mem EXCEPT !.cb = "OCO_CANCELED"].cb = "OCO_CANCELED"
        BY <4>1 DEF Rows
      <4> QED BY <1>1, <1>2, <4>2, <4>3
    <3> QED BY <1>1, <2>1, <2>2, <2>4, <3>2, <3>3 DEF FirstCall, InHand
  <2>5. CASE ~(wk[w].actmem.cb = "WAITING" /\ Oco[o] \in HasCallback)
    BY <1>1, <1>4, <2>3, <2>5 DEF Execute, LetGo, AtPc, InHand
  <2> QED BY <2>4, <2>5
<1> QED BY <1>6, <1>7, <1>8, <1>9 DEF HandlesOn

LEMMA FirstCallKeeps ==
  ASSUME Calm, [Next]_vars, UNCHANGED runs, NEW w \in Workers
  PROVE  FirstCall(wk[w])'
<1>1. /\ Truthful /\ wk[w] \in WorkerRecords /\ WorkerOK(wk[w])
      /\ FirstCall(wk[w]) /\ runs \in [Orders -> Nat]
  BY WkOf, CallTypes DEF Calm, Accountable, Truthful, CalledOnce
<1>2. CASE wk'[w] = wk[w]
  BY <1>1, <1>2, FirstCallStays DEF FirstCall
<1>3. CASE Taken(w)
  <2>1. ASSUME wk'[w].o \notin late, wk'[w].mem.cb = "WAITING"
        PROVE  runs[wk'[w].o] = 0
    <3>1. Spent(wk'[w].o)
      BY <1>3, <2>1 DEF Taken, Calm, CalledOnce
    <3> QED BY <1>1, <1>3, <2>1, <3>1 DEF Taken, Spent
  <2> QED BY <1>3, <2>1 DEF Taken, FirstCall, Calm
<1>4. CASE LetGo(w)
  BY <1>4 DEF LetGo, FirstCall, InHand
<1>5. CASE HandlesOn(w)
  BY <1>1, <1>5, FirstCallGoes
<1> QED BY <1>1, <1>2, <1>3, <1>4, <1>5, TurnOf, Actor

-----------------------------------------------------------------------------
(* The start of a callback *)

(* What the only worker knows when it starts a callback.                    *)
LEMMA StartedOnce ==
  ASSUME Calm, NEW w \in Workers, SaveStarted(w)
  PROVE  LET a == wk[w].act IN
         /\ a \in Orders /\ ex[a] \in Terminal
         /\ runs' = [runs EXCEPT ![a] = @ + 1]
         /\ row'[a].cb = "STARTED"
         /\ wk'[w].pc = "run" /\ late' = late
         /\ a \notin late =>
              /\ runs[a] = 0
              /\ HasOco(a) => runs[Oco[a]] = 0 /\ row[Oco[a]].cb # "WAITING"
<1> DEFINE a == wk[w].act
<1>1. /\ wk[w] \in WorkerRecords /\ WorkerOK(wk[w]) /\ FirstCall(wk[w])
      /\ wk \in [Workers -> WorkerRecords] /\ row \in [Orders -> Rows]
  BY WkOf, CallTypes DEF Calm, Accountable, Truthful, CalledOnce
<1>2. wk[w].pc = "start" /\ a \in Orders /\ ex[a] \in Terminal
  BY <1>1 DEF SaveStarted, Holds, WorkerOK, Calling
<1>3. row[a] \in Rows
  BY <1>1, <1>2
<1>4. row'[a].cb = "STARTED"
  <2>1. row' = [row EXCEPT ![a] = [row[a] EXCEPT !.cb = "STARTED"]]
    BY DEF SaveStarted, SaveCallback, Write
  <2> QED BY <1>1, <1>2, <1>3, <2>1 DEF Rows
<1>5. wk'[w].pc = "run" /\ late' = late
  BY <1>1 DEF SaveStarted, Goto, WorkerRecords, others, placementVars
<1> QED BY <1>1, <1>2, <1>4, <1>5 DEF SaveStarted, FirstCall

LEMMA StartKeeps ==
  ASSUME Calm, NEW w \in Workers, SaveStarted(w)
  PROVE  CalledOnce'
<1> DEFINE a == wk[w].act
<1>1. /\ LegsLateTogether /\ runs \in [Orders -> Nat]
      /\ \A o \in Orders \ late : Spent(o)
      /\ \A o \in DOMAIN Oco \ late : PeerSpent(o)
  BY CallTypes DEF Calm, Accountable, CalledOnce
<1>2. /\ a \in Orders
      /\ runs' = [runs EXCEPT ![a] = @ + 1]
      /\ row'[a].cb = "STARTED"
      /\ wk'[w].pc = "run" /\ late' = late
      /\ a \notin late =>
           /\ runs[a] = 0
           /\ HasOco(a) => runs[Oco[a]] = 0 /\ row[Oco[a]].cb # "WAITING"
  BY StartedOnce
<1> HIDE DEF a
<1>3. ASSUME NEW o \in Orders \ late PROVE Spent(o)'
  <2>1. CASE o = a
    BY <1>1, <1>2, <2>1 DEF Spent
  <2>2. CASE o # a
    <3>1. runs'[o] = runs[o] /\ Spent(o)
      BY <1>1, <1>2, <2>2
    <3> QED BY <3>1 DEF Calm, Spent
  <2> QED BY <2>1, <2>2
<1>4. ASSUME NEW o \in DOMAIN Oco \ late PROVE PeerSpent(o)'
  <2>1. /\ o \in Orders /\ Oco[o] \in Orders \ late /\ Oco[o] # o
        /\ Oco[Oco[o]] = o /\ PeerSpent(o)
    BY <1>1, OtherLeg
  <2>2. CASE o = a
    <3>1. runs'[Oco[o]] = 0 /\ row[Oco[o]].cb # "WAITING"
      BY <1>1, <1>2, <2>1, <2>2 DEF HasOco
    <3> QED BY <2>1, <3>1 DEF Calm, PeerSpent
  <2>3. CASE Oco[o] = a
    <3>1. runs[o] = 0
      BY <1>2, <2>1, <2>3, OcoAssumption DEF HasOco
    <3>2. runs'[o] = 0
      BY <1>1, <1>2, <2>1, <2>3, <3>1
    <3> QED BY <3>2 DEF PeerSpent
  <2>4. CASE o # a /\ Oco[o] # a
    <3>1. runs'[o] = runs[o] /\ runs'[Oco[o]] = runs[Oco[o]]
      BY <1>1, <1>2, <2>1, <2>4
    <3> QED BY <2>1, <3>1 DEF Calm, PeerSpent
  <2> QED BY <2>2, <2>3, <2>4
<1>5. ASSUME NEW v \in Workers PROVE FirstCall(wk[v])'
  <2>1. wk'[v].pc = "run"
    BY <1>2 DEF Calm, OneWorker
  <2> QED BY <2>1 DEF FirstCall, InHand
<1>6. LegsLateTogether'
  BY <1>1, <1>2 DEF LegsLateTogether
<1> QED BY <1>2, <1>3, <1>4, <1>5, <1>6 DEF CalledOnce

-----------------------------------------------------------------------------
(* The theorems *)

LEMMA CalledOnceInit == Init => CalledOnce
BY OcoAssumption
DEF Init, PlacementInit, CallbackInit, CalledOnce, LegsLateTogether, Spent,
    PeerSpent, FirstCall, AtPc, InHand

LEMMA CalledOnceStep ==
  OneWorker /\ Truthful /\ Accounted /\ CalledOnce /\ [Next]_vars => CalledOnce'
<1> SUFFICES ASSUME OneWorker, Truthful, Accounted, CalledOnce, [Next]_vars
             PROVE  CalledOnce'
  OBVIOUS
<1>1. Calm
  BY CalmStep
<1>2. CASE \E w \in Workers : SaveStarted(w)
  BY <1>1, <1>2, StartKeeps
<1>3. CASE UNCHANGED runs
  BY <1>1, <1>3, LateKeeps, SpentStays, FirstCallKeeps DEF CalledOnce
<1> QED BY <1>2, <1>3, RunsChange

(* With one worker, what it holds in hand has not been called yet if its    *)
(* object still says WAITING.                                               *)
THEOREM TheOnlyWorkerCallsOnce ==
  ASSUME OneWorker
  PROVE  Spec => [](Truthful /\ Accounted /\ CalledOnce)
<1>1. Init => Truthful /\ Accounted /\ CalledOnce
  BY TruthfulInit, AccountedInit, CalledOnceInit
<1>2. (Truthful /\ Accounted /\ CalledOnce) /\ [Next]_vars =>
        (Truthful /\ Accounted /\ CalledOnce)'
  BY TruthfulStep, AccountedStep, CalledOnceStep
<1> QED BY <1>1, <1>2, PTL DEF Spec

(* One worker starts a callback at most once, through restarts,             *)
(* synchronisations, reruns and stale saves.                                *)
THEOREM CallbacksStartOnce ==
  ASSUME OneWorker
  PROVE  Spec => []CallbackOnce
<1>1. CalledOnce => CallbackOnce
  BY DEF CalledOnce, Spent, CallbackOnce
<1> QED BY <1>1, TheOnlyWorkerCallsOnce, PTL

(* One worker never calls both legs of an OCO.                              *)
THEOREM LegsAreCalledOnce ==
  ASSUME OneWorker
  PROVE  Spec => []OneLegCalled
<1>1. CalledOnce => OneLegCalled
  BY DEF CalledOnce, PeerSpent, OneLegCalled
<1> QED BY <1>1, TheOnlyWorkerCallsOnce, PTL

LEMMA ContractInit == Init => Contract!Init
BY DEF Init, ExchangeInit, PlacementInit, CallbackInit, Contract!Init, Over,
       Terminal

(* A step that starts no callback is a step of the contract.                *)
LEMMA NoCallKeepsContract ==
  ASSUME Truthful, Truthful', ExGrows, late \subseteq late', UNCHANGED runs
  PROVE  Contract!Next
<1>1. runs \in [Orders -> Nat] /\ late' \subseteq Orders
  BY CallTypes DEF Truthful, PlacementInv, PlacementTypeOK
<1>2. Over \subseteq Over' /\ Over' \subseteq Orders
  BY DEF Over, ExGrows
<1>3. Contract!Call({})
  BY <1>1 DEF Contract!Call
<1> QED BY <1>1, <1>2, <1>3 DEF Contract!Next

LEMMA StartKeepsContract ==
  ASSUME Calm, Truthful', ExGrows, NEW w \in Workers, SaveStarted(w)
  PROVE  Contract!Next
<1> DEFINE a == wk[w].act
<1>1. /\ runs \in [Orders -> Nat] /\ late \subseteq late' /\ late' \subseteq Orders
  BY CallTypes DEF Calm, Accountable, Truthful, PlacementInv, PlacementTypeOK
<1>2. /\ a \in Orders /\ ex[a] \in Terminal
      /\ runs' = [runs EXCEPT ![a] = @ + 1]
      /\ a \notin late =>
           /\ runs[a] = 0
           /\ HasOco(a) => runs[Oco[a]] = 0
  BY StartedOnce
<1> HIDE DEF a
<1>3. Over \subseteq Over' /\ Over' \subseteq Orders /\ a \in Over'
  BY <1>2 DEF Over, ExGrows
<1>4. Contract!Call({a})
  <2>1. a \notin late' => Contract!MayCall(a, {a})
    BY <1>1, <1>2, OcoAssumption DEF Contract!MayCall, HasOco
  <2>2. runs' = [o \in Orders |-> IF o \in {a} THEN runs[o] + 1 ELSE runs[o]]
    BY <1>1, <1>2
  <2> QED BY <1>3, <2>1, <2>2 DEF Contract!Call
<1> QED BY <1>1, <1>2, <1>3, <1>4 DEF Contract!Next

(* All processes together, with one worker, implement CallbackContract.     *)
THEOREM OrderFlowKeepsContract ==
  ASSUME OneWorker
  PROVE  Spec => KeepsContract
<1> DEFINE I == Truthful /\ Accounted /\ CalledOnce
<1>1. Init => Contract!Init
  BY ContractInit
<1>2. I /\ I' /\ [Next]_vars => [Contract!Next]_(Contract!vars)
  <2> SUFFICES ASSUME I, I', [Next]_vars PROVE Contract!Next
    OBVIOUS
  <2>1. Calm /\ ExGrows
    BY CalmStep DEF Calm, Accountable
  <2>2. CASE UNCHANGED runs
    BY <2>1, <2>2, NoCallKeepsContract DEF Calm
  <2>3. CASE \E w \in Workers : SaveStarted(w)
    BY <2>1, <2>3, StartKeepsContract
  <2> QED BY <2>2, <2>3, RunsChange
<1>3. Spec => []I
  BY TheOnlyWorkerCallsOnce
<1> QED BY <1>1, <1>2, <1>3, PTL DEF Spec, KeepsContract, Contract!Spec
=============================================================================
