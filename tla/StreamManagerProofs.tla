------------------------ MODULE StreamManagerProofs ------------------------
(***************************************************************************)
(* Proofs about StreamManager for any number of connections, threads,      *)
(* commands and faults: its types, and that a process in _processes always *)
(* belongs to a thread that still looks after it.                          *)
(***************************************************************************)
EXTENDS StreamManager, TLAPS

(* While main is in the sweep, what it has still to visit are keys.         *)
StreamInv ==
  /\ StreamTypeOK
  /\ main.todo \subseteq main.keys
  /\ SlotIsServed

-----------------------------------------------------------------------------
(* What is left of a queue after its first n messages is a queue.           *)
LEMMA RestOfQueue ==
  ASSUME NEW S, NEW s \in Seq(S), NEW n \in Nat, n <= Len(s)
  PROVE  SubSeq(s, n + 1, Len(s)) \in Seq(S)
OBVIOUS

(* A main record without anything in hand.                                  *)
LEMMA MainAtType ==
  ASSUME NEW pc \in {"boot", "listen", "emergency", "sweep", "exiting"}
  PROVE  MainAt(pc) \in MainRecords /\ MainAt(pc).todo \subseteq MainAt(pc).keys
BY DEF MainAt, MainRecords

(* The program starts in the invariant.                                     *)
LEMMA StreamInitInv == Init => StreamInv
<1> SUFFICES ASSUME Init PROVE StreamInv
  OBVIOUS
<1> USE StreamAssumption DEF Init
<1>1. main \in MainRecords /\ main.todo \subseteq main.keys
  BY MainAtType
<1>2. NoThread \in ThreadRecords
  BY DEF NoThread, ThreadRecords, ThreadPcs
<1>3. StreamTypeOK
  BY <1>1, <1>2 DEF StreamTypeOK
<1>4. SlotIsServed
  BY DEF SlotIsServed
<1> QED
  BY <1>1, <1>3, <1>4 DEF StreamInv

(* Steps that leave slot and thread alone need only their types.            *)
LEMMA SlotKeeps ==
  ASSUME SlotIsServed, UNCHANGED <<slot, thread>>
  PROVE  SlotIsServed'
BY DEF SlotIsServed

(* A thread that is given a connection held no slot before.                 *)
LEMMA HandleStartInv ==
  ASSUME StreamInv, NEW c \in Connections, HandleStart(c)
  PROVE  StreamInv'
<1> USE StreamAssumption
<1>0. StreamTypeOK /\ SlotIsServed
  BY DEF StreamInv
<1>1. queue' \in [Connections -> Seq({"START", "STOP"})]
  BY <1>0 DEF StreamTypeOK, HandleStart, Receive
<1>2. CASE slot[c] \in {"absent", "stopped"}
  <2> DEFINE t == CHOOSE u \in Threads : thread[u].pc = "none"
  <2>1. t \in Threads /\ thread[t].pc = "none"
    BY <1>2 DEF HandleStart
  <2>2. thread' = [thread EXCEPT ![t] = [pc |-> "new", c |-> c]]
    BY <1>2 DEF HandleStart
  <2> HIDE DEF t
  <2>3. thread' \in [Threads -> ThreadRecords]
    BY <1>0, <2>1, <2>2 DEF StreamTypeOK, ThreadRecords, ThreadPcs
  <2>4. StreamTypeOK'
    BY <1>0, <1>1, <2>3 DEF StreamTypeOK, HandleStart
  <2>5. SlotIsServed'
    BY <1>0, <2>1, <2>2 DEF SlotIsServed, StreamTypeOK, HandleStart
  <2> QED
    BY <2>4, <2>5 DEF StreamInv, HandleStart
<1>3. CASE slot[c] \notin {"absent", "stopped"}
  <2>1. UNCHANGED <<main, slot, thread, alive, sends, faults>>
    BY <1>3 DEF HandleStart
  <2> QED
    BY <1>0, <1>1, <2>1, SlotKeeps DEF StreamInv, StreamTypeOK
<1> QED
  BY <1>2, <1>3

(* What main takes from a slot that is not empty is a thread or the mark.   *)
LEMMA HandleStopInv ==
  ASSUME StreamInv, NEW c \in Connections, HandleStop(c)
  PROVE  StreamInv'
<1> USE StreamAssumption
<1>0. StreamTypeOK /\ SlotIsServed /\ main.todo \subseteq main.keys
  BY DEF StreamInv
<1>1. queue' \in [Connections -> Seq({"START", "STOP"})]
  BY <1>0 DEF StreamTypeOK, HandleStop, Receive
<1>2. main' \in MainRecords /\ main'.todo \subseteq main'.keys
  <2>1. CASE slot[c] = "absent"
    BY <1>0, <2>1 DEF StreamTypeOK, HandleStop
  <2>2. CASE slot[c] # "absent"
    <3>1. main' = [main EXCEPT !.pc = "mark", !.c = c, !.worker = slot[c]]
      BY <2>2 DEF HandleStop, Take
    <3>2. slot[c] \in Threads \cup {"stopped"}
      BY <1>0, <2>2 DEF StreamTypeOK
    <3> QED
      BY <1>0, <3>1, <3>2 DEF StreamTypeOK, MainRecords
  <2> QED
    BY <2>1, <2>2
<1> QED
  BY <1>0, <1>1, <1>2, SlotKeeps DEF StreamInv, StreamTypeOK, HandleStop

LEMMA SendInv ==
  ASSUME StreamInv, NEW c \in Connections, Send(c)
  PROVE  StreamInv'
<1> USE StreamAssumption
<1>0. StreamTypeOK /\ SlotIsServed
  BY DEF StreamInv
<1>1. queue' \in [Connections -> Seq({"START", "STOP"})]
  BY <1>0 DEF StreamTypeOK, Send
<1>2. sends' \in 0..MaxSends
  BY <1>0 DEF StreamTypeOK, Send
<1> QED
  BY <1>0, <1>1, <1>2, SlotKeeps DEF StreamInv, StreamTypeOK, Send

LEMMA BootInv == StreamInv /\ Boot => StreamInv'
<1> SUFFICES ASSUME StreamInv, Boot PROVE StreamInv'
  OBVIOUS
<1>0. StreamTypeOK /\ SlotIsServed
  BY DEF StreamInv
<1>1. queue' \in [Connections -> Seq({"START", "STOP"})]
  BY <1>0 DEF StreamTypeOK, Boot
<1>2. main' \in MainRecords /\ main'.todo \subseteq main'.keys
  BY MainAtType DEF Boot
<1> QED
  BY <1>0, <1>1, <1>2, SlotKeeps DEF StreamInv, StreamTypeOK, Boot

(* The mark takes a thread's process out of the slot and puts none in.      *)
LEMMA MarkInv == StreamInv /\ Mark => StreamInv'
<1> SUFFICES ASSUME StreamInv, Mark PROVE StreamInv'
  OBVIOUS
<1> USE StreamAssumption
<1>0. StreamTypeOK /\ SlotIsServed /\ main.todo \subseteq main.keys
  BY DEF StreamInv
<1>1. main' \in MainRecords /\ main'.todo \subseteq main'.keys
  BY <1>0 DEF StreamTypeOK, Mark, MainRecords
<1>2. slot' \in [Connections -> Threads \cup {"absent", "stopped"}]
  BY <1>0 DEF StreamTypeOK, Mark
<1>3. SlotIsServed'
  BY <1>0 DEF StreamTypeOK, Mark, SlotIsServed
<1> QED
  BY <1>0, <1>1, <1>2, <1>3 DEF StreamInv, StreamTypeOK, Mark

LEMMA TerminateInv ==
  StreamInv /\ (Terminate \/ TerminateError) => StreamInv'
<1> SUFFICES ASSUME StreamInv, Terminate \/ TerminateError PROVE StreamInv'
  OBVIOUS
<1>0. StreamTypeOK /\ SlotIsServed /\ main.todo \subseteq main.keys
  BY DEF StreamInv
<1>1. main' \in MainRecords /\ main'.todo \subseteq main'.keys
  <2>1. CASE main.sweep /\ Terminate
    BY <1>0, <2>1 DEF StreamTypeOK, Terminate, MainRecords
  <2>2. CASE ~main.sweep /\ Terminate
    BY <2>2, MainAtType DEF Terminate
  <2>3. CASE TerminateError
    BY <2>3, MainAtType DEF TerminateError
  <2> QED
    BY <2>1, <2>2, <2>3
<1>2. alive' \subseteq Threads
  BY <1>0 DEF StreamTypeOK, Terminate, TerminateError
<1> QED
  BY <1>0, <1>1, <1>2, SlotKeeps
  DEF StreamInv, StreamTypeOK, Terminate, TerminateError

(* The keys are those that are not absent, so what the sweep takes from one *)
(* is a thread or the mark.                                                 *)
LEMMA SweepInv ==
  StreamInv /\ (BeginSweep \/ SweepNext \/ SweepEnds) => StreamInv'
<1> SUFFICES ASSUME StreamInv, BeginSweep \/ SweepNext \/ SweepEnds
             PROVE  StreamInv'
  OBVIOUS
<1>0. StreamTypeOK /\ SlotIsServed /\ main.todo \subseteq main.keys
  BY DEF StreamInv
<1>1. main' \in MainRecords /\ main'.todo \subseteq main'.keys
  <2>1. CASE BeginSweep
    BY <2>1 DEF BeginSweep, MainAt, MainRecords, Keys
  <2>2. CASE SweepNext
    <3>1. PICK c \in main.todo :
            main' = [main EXCEPT !.pc = "mark", !.c = c, !.worker = slot[c],
                                 !.todo = @ \ {c}]
      BY <2>2 DEF SweepNext
    <3>2. c \in Connections /\ slot[c] \in Threads \cup {"stopped"}
      BY <1>0, <2>2 DEF SweepNext, Keys, StreamTypeOK
    <3> QED
      BY <1>0, <3>1, <3>2 DEF StreamTypeOK, MainRecords
  <2>3. CASE SweepEnds
    BY <2>3, MainAtType DEF SweepEnds
  <2> QED
    BY <2>1, <2>2, <2>3
<1> QED
  BY <1>0, <1>1, SlotKeeps
  DEF StreamInv, StreamTypeOK, BeginSweep, SweepNext, SweepEnds

(* The program starts again with nothing.                                   *)
LEMMA FreshInv ==
  ASSUME StreamInv, Fresh, faults' \in 0..MaxFaults
  PROVE  StreamInv'
<1> USE StreamAssumption
<1>0. StreamTypeOK
  BY DEF StreamInv
<1>1. queue' \in [Connections -> Seq({"START", "STOP"})]
  <2>1. PICK n \in [Connections -> 0..MaxSends + MaxFaults + 1] :
          /\ \A c \in Connections : n[c] <= Len(queue[c])
          /\ queue' = [c \in Connections |->
                         SubSeq(queue[c], n[c] + 1, Len(queue[c]))]
    BY DEF Fresh, LoseDelivered
  <2>2. ASSUME NEW c \in Connections
        PROVE  SubSeq(queue[c], n[c] + 1, Len(queue[c])) \in Seq({"START", "STOP"})
    <3>1. n[c] \in Nat /\ n[c] <= Len(queue[c])
      BY <2>1
    <3>2. queue[c] \in Seq({"START", "STOP"})
      BY <1>0 DEF StreamTypeOK
    <3> QED
      BY <3>1, <3>2, RestOfQueue
  <2> QED
    BY <2>1, <2>2
<1>2. main' \in MainRecords /\ main'.todo \subseteq main'.keys
  BY MainAtType DEF Fresh
<1>3. thread' \in [Threads -> ThreadRecords]
  BY DEF Fresh, NoThread, ThreadRecords, ThreadPcs
<1>4. StreamTypeOK'
  BY <1>0, <1>1, <1>2, <1>3 DEF StreamTypeOK, Fresh
<1>5. SlotIsServed'
  BY DEF Fresh, SlotIsServed
<1> QED
  BY <1>2, <1>4, <1>5 DEF StreamInv

(* A thread stores its own process for its own connection.                  *)
LEMMA CreateInv ==
  ASSUME StreamInv, NEW t \in Threads, Create(t)
  PROVE  StreamInv'
<1> USE StreamAssumption
<1>0. StreamTypeOK /\ SlotIsServed /\ main.todo \subseteq main.keys
  BY DEF StreamInv
<1>1. thread' = [thread EXCEPT ![t].pc = "start"]
  BY DEF Create, Goto
<1>2. thread' \in [Threads -> ThreadRecords]
  BY <1>0, <1>1 DEF StreamTypeOK, ThreadRecords, ThreadPcs
<1>3. slot' \in [Connections -> Threads \cup {"absent", "stopped"}]
  BY <1>0 DEF StreamTypeOK, Create
<1>4. main' \in MainRecords /\ main'.todo \subseteq main'.keys
  BY <1>0 DEF StreamTypeOK, Create, MainRecords
<1>5. SlotIsServed'
  BY <1>0, <1>1 DEF StreamTypeOK, Create, SlotIsServed, ThreadRecords
<1> QED
  BY <1>0, <1>2, <1>3, <1>4, <1>5 DEF StreamInv, StreamTypeOK, Create

(* A thread ends only when its slot holds the mark, so no slot holds it.    *)
LEMMA JoinedInv ==
  ASSUME StreamInv, NEW t \in Threads, Joined(t)
  PROVE  StreamInv'
<1> USE StreamAssumption
<1>0. StreamTypeOK /\ SlotIsServed
  BY DEF StreamInv
<1>1. thread' \in [Threads -> ThreadRecords]
  BY <1>0 DEF StreamTypeOK, Joined, Goto, NoThread, ThreadRecords, ThreadPcs
<1>2. CASE slot[thread[t].c] = "stopped"
  <2>1. thread' = [thread EXCEPT ![t] = NoThread] /\ slot' = slot
    BY <1>2 DEF Joined
  <2>2. \A c \in Connections : slot[c] # t
    BY <1>0, <1>2 DEF SlotIsServed
  <2> QED
    BY <1>0, <1>1, <2>1, <2>2 DEF StreamInv, StreamTypeOK, SlotIsServed, Joined
<1>3. CASE slot[thread[t].c] # "stopped"
  <2>1. thread' = [thread EXCEPT ![t].pc = "again"] /\ slot' = slot
    BY <1>3 DEF Joined, Goto
  <2>2. SlotIsServed'
    BY <1>0, <2>1 DEF StreamTypeOK, SlotIsServed, ThreadRecords
  <2> QED
    BY <1>0, <1>1, <2>2 DEF StreamInv, StreamTypeOK, Joined
<1> QED
  BY <1>2, <1>3

(* A thread whose process starts, or fails to start, keeps its slot.        *)
LEMMA StartInv ==
  ASSUME StreamInv, NEW t \in Threads, faults' \in 0..MaxFaults,
         StartProcess(t) \/ ForkFails(t)
  PROVE  StreamInv'
<1>0. StreamTypeOK /\ SlotIsServed
  BY DEF StreamInv
<1>1. PICK pc \in {"join", "failed"} : thread' = [thread EXCEPT ![t].pc = pc]
  BY DEF StartProcess, ForkFails, Goto
<1>2. thread' \in [Threads -> ThreadRecords]
  BY <1>0, <1>1 DEF StreamTypeOK, ThreadRecords, ThreadPcs
<1>3. SlotIsServed'
  BY <1>0, <1>1
  DEF StreamTypeOK, SlotIsServed, ThreadRecords, StartProcess, ForkFails
<1> QED
  BY <1>0, <1>2, <1>3
  DEF StreamInv, StreamTypeOK, StartProcess, ForkFails

LEMMA ProcessEndsInv ==
  ASSUME StreamInv, NEW t \in Threads, ProcessEnds(t)
  PROVE  StreamInv'
BY SlotKeeps DEF StreamInv, StreamTypeOK, ProcessEnds

LEMMA ListenRaisesInv ==
  ASSUME StreamInv, ListenRaises, faults' \in 0..MaxFaults
  PROVE  StreamInv'
<1>1. main' \in MainRecords /\ main'.todo \subseteq main'.keys
  BY MainAtType DEF ListenRaises
<1> QED
  BY <1>1, SlotKeeps DEF StreamInv, StreamTypeOK, ListenRaises

LEMMA FaultInv == StreamInv /\ Fault => StreamInv'
<1> SUFFICES ASSUME StreamInv, Fault PROVE StreamInv'
  OBVIOUS
<1>1. faults' \in 0..MaxFaults
  BY StreamAssumption DEF Fault, StreamInv, StreamTypeOK
<1>2. CASE Crash
  BY <1>1, <1>2, FreshInv DEF Crash
<1>3. CASE ListenRaises
  BY <1>1, <1>3, ListenRaisesInv
<1>4. CASE \E t \in Threads : ForkFails(t)
  BY <1>1, <1>4, StartInv
<1> QED
  BY <1>2, <1>3, <1>4 DEF Fault

(* Every step of the program and of its surroundings.                       *)
LEMMA StreamNextInv == StreamInv /\ [Next]_vars => StreamInv'
<1> SUFFICES ASSUME StreamInv, [Next]_vars PROVE StreamInv'
  OBVIOUS
<1>0. faults \in 0..MaxFaults
  BY DEF StreamInv, StreamTypeOK
<1>1. ASSUME NEW c \in Connections, Send(c) \/ Handle(c)
      PROVE  StreamInv'
  BY <1>1, SendInv, HandleStartInv, HandleStopInv DEF Handle
<1>2. CASE MainStep
  <2>1. CASE Restart
    BY <1>0, <2>1, FreshInv DEF Restart
  <2> QED
    BY <1>2, <2>1, BootInv, MarkInv, TerminateInv, SweepInv DEF MainStep
<1>3. ASSUME NEW t \in Threads, ThreadStep(t) \/ ProcessEnds(t)
      PROVE  StreamInv'
  <2>1. CASE StartProcess(t)
    BY <1>0, <2>1, StartInv DEF StartProcess
  <2> QED
    BY <1>3, <2>1, CreateInv, JoinedInv, ProcessEndsInv DEF ThreadStep
<1>4. CASE Fault
  BY <1>4, FaultInv
<1>5. CASE UNCHANGED vars
  BY <1>5, SlotKeeps DEF StreamInv, StreamTypeOK, vars
<1> QED
  BY <1>1, <1>2, <1>3, <1>4, <1>5 DEF Next

(* The dict and the threads keep their types.                               *)
THEOREM StreamTypeIsCorrect == Spec => []StreamTypeOK
<1>1. StreamInv => StreamTypeOK
  BY DEF StreamInv
<1> QED
  BY <1>1, StreamInitInv, StreamNextInv, PTL DEF Spec

(* A START is ignored only for a connection some thread looks after: the    *)
(* process in a slot belongs to a thread of that connection that has not    *)
(* ended, through STOPs, doubled threads and emergencies.                   *)
THEOREM SlotsAreServed == Spec => []SlotIsServed
<1>1. StreamInv => SlotIsServed
  BY DEF StreamInv
<1> QED
  BY <1>1, StreamInitInv, StreamNextInv, PTL DEF Spec
=============================================================================
