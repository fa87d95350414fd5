--------------------------- MODULE StreamManager ---------------------------
(***************************************************************************)
(* user_data_streams.py: the program that keeps one user-data-stream       *)
(* process running for each exchange connection.  Its main thread handles  *)
(* START and STOP from RabbitMQ; one thread per started connection creates *)
(* a process, waits for it and creates the next.  They share one dict,     *)
(* _processes, without a lock.                                             *)
(*                                                                         *)
(* Commands of different connections are not ordered: no step looks at two *)
(* connections, so the queue is kept as one queue per connection.  auto_ack*)
(* hands messages over before they are handled: how many of them a crash   *)
(* takes along is decided when it happens (LoseDelivered).                 *)
(***************************************************************************)
EXTENDS Naturals, Sequences

CONSTANTS
  Connections,   \* ids of exchange connections
  Threads,       \* bound: ProcessWorker objects at one time
  None,          \* no connection
  Sent,          \* the commands others send: START, or also STOP
  MaxSends,      \* bound: commands sent by others
  MaxFaults      \* bound: crashes, raised exceptions and failed forks

ASSUME StreamAssumption ==
  /\ None \notin Connections
  /\ Threads \cap {"absent", "stopped", "joined"} = {}
  /\ Sent \subseteq {"START", "STOP"}
  /\ MaxSends \in Nat /\ MaxFaults \in Nat

VARIABLES
  queue,    \* queue[c]: commands for connection c not yet handled
  main,     \* the main thread
  slot,     \* _processes[c]: "absent", "stopped", or the thread whose
            \* latest process it is
  thread,   \* thread[t]: where ProcessWorker t is, and its connection
  alive,    \* the threads whose latest process is running
  sends, faults   \* how much of the bounds is used

vars == <<queue, main, slot, thread, alive, sends, faults>>

(* new: started by START; again: went round its loop; start: the process is *)
(* created and stored; join: started; failed: Process.start raised.         *)
ThreadPcs == {"none", "new", "again", "start", "join", "failed"}

ThreadRecords == [pc : ThreadPcs, c : Connections \cup {None}]

NoThread == [pc |-> "none", c |-> None]

(* c, worker: the connection in hand and what was read from its slot, where *)
(* "joined" is a process that has ended and been replaced; keys, todo: the  *)
(* keys of _processes when the sweep of exception_handler began, and those  *)
(* it has still to visit; sweep: main is in that loop.                      *)
MainRecords ==
  [pc     : {"boot", "listen", "mark", "terminate", "emergency", "sweep",
             "exiting"},
   c      : Connections \cup {None},
   worker : Threads \cup {"stopped", "joined"},
   keys   : SUBSET Connections,
   todo   : SUBSET Connections,
   sweep  : BOOLEAN]

MainAt(pc) == [pc |-> pc, c |-> None, worker |-> "joined",
               keys |-> {}, todo |-> {}, sweep |-> FALSE]

Keys == {c \in Connections : slot[c] # "absent"}

Serves(t, c) == thread[t].c = c /\ thread[t].pc # "failed"

-----------------------------------------------------------------------------
(* Commands *)

(* bot_create (START) or any caller of user_data_stream_stop (STOP).        *)
Send(c) ==
  /\ sends < MaxSends
  /\ sends' = sends + 1
  /\ \E k \in Sent : queue' = [queue EXCEPT ![c] = Append(@, k)]
  /\ UNCHANGED <<main, slot, thread, alive, faults>>

(* run: a START for every connection with NEW or ACTIVE orders - any set of *)
(* them - and then the program listens.                                     *)
Boot ==
  /\ main.pc = "boot"
  /\ \E S \in SUBSET Connections :
       queue' = [c \in Connections |->
                   IF c \in S THEN Append(queue[c], "START") ELSE queue[c]]
  /\ main' = MainAt("listen")
  /\ UNCHANGED <<slot, thread, alive, sends, faults>>

Receive(c, k) ==
  /\ main.pc = "listen"
  /\ queue[c] # <<>> /\ Head(queue[c]) = k
  /\ queue' = [queue EXCEPT ![c] = Tail(@)]

(* START: a thread is started unless the slot holds a process.              *)
HandleStart(c) ==
  /\ Receive(c, "START")
  /\ IF slot[c] \in {"absent", "stopped"}
     THEN /\ \E t \in Threads : thread[t].pc = "none"
          /\ LET t == CHOOSE u \in Threads : thread[u].pc = "none" IN
               thread' = [thread EXCEPT ![t] = [pc |-> "new", c |-> c]]
     ELSE UNCHANGED thread
  /\ UNCHANGED <<main, slot, alive, sends, faults>>

(* The slot is read, and below marked and its process terminated.           *)
Take(c) ==
  main' = [main EXCEPT !.pc = "mark", !.c = c, !.worker = slot[c]]

(* Faulty variant of HandleStop: without the look at `in _processes'.       *)
HandleStopUnchecked(c) ==
  /\ Receive(c, "STOP")
  /\ Take(c)
  /\ UNCHANGED <<slot, thread, alive, sends, faults>>

(* STOP of a connection that was never started is ignored.                  *)
HandleStop(c) ==
  /\ Receive(c, "STOP")
  /\ IF slot[c] = "absent" THEN UNCHANGED main ELSE Take(c)
  /\ UNCHANGED <<slot, thread, alive, sends, faults>>

(* _processes[c] = 'stopped'.                                               *)
Mark ==
  /\ main.pc = "mark"
  /\ slot' = [slot EXCEPT ![main.c] = "stopped"]
  /\ main' = [main EXCEPT !.pc = "terminate"]
  /\ UNCHANGED <<queue, thread, alive, sends, faults>>

(* worker.terminate() raises on the string 'stopped' and on a process that  *)
(* has not been started.                                                    *)
TerminateRaises ==
  \/ main.worker = "stopped"
  \/ main.worker \in Threads /\ thread[main.worker].pc \in {"start", "failed"}

Terminate ==
  /\ main.pc = "terminate" /\ ~TerminateRaises
  /\ alive' = alive \ {main.worker}
  /\ main' = IF main.sweep THEN [main EXCEPT !.pc = "sweep"]
                           ELSE MainAt("listen")
  /\ UNCHANGED <<queue, slot, thread, sends, faults>>

(* In the handler of a command the exception leads to exception_handler; in *)
(* exception_handler itself it ends the main thread.                        *)
TerminateError ==
  /\ main.pc = "terminate" /\ TerminateRaises
  /\ main' = MainAt(IF main.sweep THEN "exiting" ELSE "emergency")
  /\ UNCHANGED <<queue, slot, thread, alive, sends, faults>>

-----------------------------------------------------------------------------
(* exception_handler *)

(* After the sleep of three seconds the loop over _processes begins.        *)
BeginSweep ==
  /\ main.pc = "emergency"
  /\ main' = [MainAt("sweep") EXCEPT !.keys = Keys, !.todo = Keys,
                                     !.sweep = TRUE]
  /\ UNCHANGED <<queue, slot, thread, alive, sends, faults>>

(* The next key, in any order.                                              *)
SweepNext ==
  /\ main.pc = "sweep" /\ Keys = main.keys
  /\ \E c \in main.todo :
       main' = [main EXCEPT !.pc = "mark", !.c = c, !.worker = slot[c],
                            !.todo = @ \ {c}]
  /\ UNCHANGED <<queue, slot, thread, alive, sends, faults>>

(* All done and sys.exit(1), or RuntimeError because a thread has added a   *)
(* key; either way the interpreter now waits for the threads.               *)
SweepEnds ==
  /\ main.pc = "sweep" /\ (Keys # main.keys \/ main.todo = {})
  /\ main' = MainAt("exiting")
  /\ UNCHANGED <<queue, slot, thread, alive, sends, faults>>

-----------------------------------------------------------------------------
(* ProcessWorker.run *)

Goto(t, pc) == thread' = [thread EXCEPT ![t].pc = pc]

(* A process is created and stored over whatever the slot holds.  If main   *)
(* has the previous one in hand, that is now a process that has ended.      *)
Create(t) ==
  /\ thread[t].pc \in {"new", "again"}
  /\ slot' = [slot EXCEPT ![thread[t].c] = t]
  /\ main' = [main EXCEPT !.worker = IF @ = t THEN "joined" ELSE @]
  /\ Goto(t, "start")
  /\ UNCHANGED <<queue, alive, sends, faults>>

StartProcess(t) ==
  /\ thread[t].pc = "start"
  /\ alive' = alive \cup {t}
  /\ Goto(t, "join")
  /\ UNCHANGED <<queue, main, slot, sends, faults>>

(* The worker ends: its timer after 23 hours, an exception, a signal.       *)
ProcessEnds(t) ==
  /\ t \in alive
  /\ alive' = alive \ {t}
  /\ UNCHANGED <<queue, main, slot, thread, sends, faults>>

(* Faulty variants of Joined: the worker is not started again; the mark is  *)
(* not looked at.                                                           *)
JoinedForGood(t) ==
  /\ thread[t].pc = "join" /\ t \notin alive
  /\ thread' = [thread EXCEPT ![t] = NoThread]
  /\ UNCHANGED <<queue, main, slot, alive, sends, faults>>

JoinedUnmarked(t) ==
  /\ thread[t].pc = "join" /\ t \notin alive
  /\ Goto(t, "again")
  /\ UNCHANGED <<queue, main, slot, alive, sends, faults>>

(* join() returns: the thread ends if its slot is marked, or goes round.    *)
Joined(t) ==
  /\ thread[t].pc = "join" /\ t \notin alive
  /\ IF slot[thread[t].c] = "stopped"
     THEN thread' = [thread EXCEPT ![t] = NoThread]
     ELSE Goto(t, "again")
  /\ UNCHANGED <<queue, main, slot, alive, sends, faults>>

-----------------------------------------------------------------------------
(* The end of the program *)

(* Messages handed to the program and not handled are gone with it.         *)
LoseDelivered ==
  \E n \in [Connections -> 0..MaxSends + MaxFaults + 1] :
    /\ \A c \in Connections : n[c] <= Len(queue[c])
    /\ queue' = [c \in Connections |-> SubSeq(queue[c], n[c] + 1, Len(queue[c]))]

(* The container starts the program again.                                  *)
Fresh ==
  /\ LoseDelivered
  /\ main' = MainAt("boot")
  /\ slot' = [c \in Connections |-> "absent"]
  /\ thread' = [t \in Threads |-> NoThread]
  /\ alive' = {}
  /\ UNCHANGED sends

(* The program ends when its last thread has.                               *)
Restart ==
  /\ main.pc = "exiting"
  /\ \A t \in Threads : thread[t].pc \in {"none", "failed"}
  /\ Fresh
  /\ UNCHANGED faults

(* The program is killed with everything in it (docker restart, memory).    *)
Crash == main.pc # "boot" /\ Fresh

(* Listening fails: the connection to RabbitMQ is lost.                     *)
ListenRaises ==
  /\ main.pc = "listen"
  /\ main' = MainAt("emergency")
  /\ UNCHANGED <<queue, slot, thread, alive, sends>>

(* The thread dies in process.start().                                      *)
ForkFails(t) ==
  /\ thread[t].pc = "start"
  /\ Goto(t, "failed")
  /\ UNCHANGED <<queue, main, slot, alive, sends>>

Fault ==
  /\ faults < MaxFaults
  /\ faults' = faults + 1
  /\ Crash \/ ListenRaises \/ \E t \in Threads : ForkFails(t)

-----------------------------------------------------------------------------

Handle(c) == HandleStart(c) \/ HandleStop(c)

MainStep ==
  \/ Boot \/ Mark \/ Terminate \/ TerminateError
  \/ BeginSweep \/ SweepNext \/ SweepEnds \/ Restart

ThreadStep(t) == Create(t) \/ StartProcess(t) \/ Joined(t)

Init ==
  /\ queue = [c \in Connections |-> <<>>]
  /\ main = MainAt("boot")
  /\ slot = [c \in Connections |-> "absent"]
  /\ thread = [t \in Threads |-> NoThread]
  /\ alive = {}
  /\ sends = 0 /\ faults = 0

Next ==
  \/ \E c \in Connections : Send(c) \/ Handle(c)
  \/ MainStep
  \/ \E t \in Threads : ThreadStep(t) \/ ProcessEnds(t)
  \/ Fault

Spec == Init /\ [][Next]_vars

(* The main thread and the threads go on, and every process ends after 23   *)
(* hours at the latest.                                                     *)
FairSpec ==
  /\ Spec
  /\ WF_vars(MainStep)
  /\ \A c \in Connections : WF_vars(Handle(c))
  /\ \A t \in Threads : WF_vars(ThreadStep(t)) /\ WF_vars(ProcessEnds(t))

-----------------------------------------------------------------------------
(* Properties *)

StreamTypeOK ==
  /\ queue \in [Connections -> Seq({"START", "STOP"})]
  /\ main \in MainRecords
  /\ slot \in [Connections -> Threads \cup {"absent", "stopped"}]
  /\ thread \in [Threads -> ThreadRecords]
  /\ alive \subseteq Threads
  /\ sends \in 0..MaxSends /\ faults \in 0..MaxFaults

(* START is ignored only for a connection some thread looks after: the slot *)
(* never keeps the process of a thread that has ended, unless that thread   *)
(* died because its process could not be started.                           *)
SlotIsServed ==
  \A c \in Connections : slot[c] \in Threads =>
    thread[slot[c]].c = c /\ thread[slot[c]].pc # "none"

(* Being in _processes means having a worker, again and again; only a       *)
(* failed start breaks it for good.                                         *)
ServedRuns ==
  \A c \in Connections :
    slot[c] \in Threads ~>
      \/ \E t \in alive : Serves(t, c)
      \/ slot[c] \notin Threads
      \/ \E t \in Threads : thread[t].c = c /\ thread[t].pc = "failed"

(* Creating: a thread will store a process without looking at the slot.     *)
Creating(c) ==
  \E t \in Threads : thread[t].c = c /\ thread[t].pc \in {"new", "again"}

(* A mark that no thread is about to overwrite ends all threads of the      *)
(* connection, unless a new one is started.                                 *)
MarkEndsThreads ==
  \A c \in Connections :
    slot[c] = "stopped" /\ ~Creating(c) ~>
      \/ \A t \in Threads : ~Serves(t, c)
      \/ \E t \in Threads : thread[t] = [pc |-> "new", c |-> c]

(* Once main has left its loop with every slot marked or empty, and no      *)
(* thread about to overwrite one, the program ends and is started again.    *)
MarkedMeansExit ==
  (/\ main.pc = "exiting"
   /\ \A c \in Connections : slot[c] \notin Threads /\ ~Creating(c))
  ~> main.pc = "boot"

(* bot_create: "Starting user_data_stream if needed...": a connection never *)
(* has two processes.                                                       *)
AtMostOneStream ==
  \A t, u \in alive : thread[t].c = thread[u].c => t = u
=============================================================================
