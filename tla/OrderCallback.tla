--------------------------- MODULE OrderCallback ---------------------------
(***************************************************************************)
(* One user-data-stream process: it opens its socket, compares the         *)
(* exchange's history with the table (_sync_symbol_history), then handles  *)
(* execution reports.  Both end in Exchange._callback_order, which writes  *)
(* the status and runs the order's callback (services.py, algorithm.py,    *)
(* DCA1.py).  Synchronisation and reports share one thread, so a worker    *)
(* handles one order at a time; each step below is one ORM statement or    *)
(* one call to the exchange.                                               *)
(***************************************************************************)
EXTENDS OrderCancel

VARIABLES
  wk,     \* wk[w]: where worker w is and the objects it holds
  todo,   \* todo[w]: entries of get_all_orders still to compare
  runs,   \* history: runs[o], how often the callback of o was started
  lost    \* history: orders whose dispatch ended before the callback

callbackVars == <<wk, todo, runs, lost>>

(* o, s: the order and the status being written; guarded: updated_at was    *)
(* given (synchronisation); mem: the object of o; act, actmem: the order    *)
(* whose callback is executed, and its object.                              *)
WorkerPcs == {"down", "opened", "list", "ready", "save", "bot", "oco", "pass",
              "start", "run", "stop", "loop", "place", "done", "error"}

WorkerRecords ==
  [pc      : WorkerPcs,
   o       : Orders \cup {None},
   s       : {"NONE", "ACTIVE"} \cup Terminal,
   guarded : BOOLEAN,
   mem     : Rows,
   act     : Orders \cup {None},
   actmem  : Rows]

AtPc(pc) ==
  [pc |-> pc, o |-> None, s |-> "NONE", guarded |-> FALSE, mem |-> NoRow,
   act |-> None, actmem |-> NoRow]

Goto(w, pc) == wk' = [wk EXCEPT ![w].pc = pc]

(* The handler returns.                                                     *)
Return(w) == wk' = [wk EXCEPT ![w] = AtPc("ready")]

Holds(w, pc) == wk[w].pc = pc

(* Faulty variant of Execute: callback_status is not looked at.             *)
ExecuteAlways(w, act, r) ==
  wk' = [wk EXCEPT ![w] =
           IF act \in HasCallback
           THEN [@ EXCEPT !.pc = "start", !.act = act, !.actmem = r]
           ELSE AtPc("ready")]

(* The callback of act (object r) is executed if it is still WAITING in     *)
(* memory; an order without one is left as it is.                           *)
Execute(w, act, r) ==
  wk' = [wk EXCEPT ![w] =
           IF r.cb = "WAITING" /\ act \in HasCallback
           THEN [@ EXCEPT !.pc = "start", !.act = act, !.actmem = r]
           ELSE AtPc("ready")]

others == <<placementVars, cancel>>

-----------------------------------------------------------------------------
(* Start and synchronisation *)

(* A new process, up to `async with user_socket'.                           *)
Connect(w) ==
  /\ Holds(w, "down")
  /\ OpenSocket(w)
  /\ Goto(w, "opened")
  /\ UNCHANGED <<storeVars, others, todo, runs, lost>>

(* time_start = now, before the exchange is asked.                          *)
TakeTimeStart(w) ==
  /\ Holds(w, "opened")
  /\ fresh' = [fresh EXCEPT ![w] = Orders]
  /\ Goto(w, "list")
  /\ UNCHANGED <<row, bot, exchangeVars, others, todo, runs, lost>>

(* Faulty variant of Compared: the loop has no case for EXPIRED.            *)
ComparedNotExpired ==
  {o \in Orders \ old : ex[o] \notin {"none", "part", "EXPIRED"}}

(* get_all_orders: what the exchange says now of the last 500 orders of the *)
(* symbol; the loop has no case for PARTIALLY_FILLED.                       *)
Compared == {o \in Orders \ old : ex[o] \notin {"none", "part"}}

(* Faulty variant of History: the exchange's own status names are kept.     *)
HistoryRaw == {Report(o, ex[o]) : o \in Compared}

History ==
  {Report(o, IF ex[o] = "live" THEN "ACTIVE" ELSE ex[o]) : o \in Compared}

GetAllOrders(w) ==
  /\ Holds(w, "list")
  /\ todo' = [todo EXCEPT ![w] = History]
  /\ fresh' = [fresh EXCEPT ![w] = @ \cap Compared]
  /\ Goto(w, "ready")
  /\ UNCHANGED <<row, bot, exchangeVars, others, runs, lost>>

(* One entry: nothing to do if the row has that status, else                *)
(* _callback_order with updated_at = time_start.                            *)
CompareEntry(w) ==
  /\ Holds(w, "ready")
  /\ \E r \in todo[w] :
       /\ todo' = [todo EXCEPT ![w] = @ \ {r}]
       /\ IF row[r.o].status = r.s
          THEN /\ fresh' = [fresh EXCEPT ![w] = @ \ {r.o}]
               /\ UNCHANGED wk
          ELSE /\ wk' = [wk EXCEPT ![w] =
                    [AtPc("save") EXCEPT !.o = r.o, !.s = r.s, !.guarded = TRUE,
                                         !.mem = WithResult(row[r.o], r.s)]]
               /\ UNCHANGED fresh
  /\ UNCHANGED <<row, bot, exchangeVars, others, runs, lost>>

-----------------------------------------------------------------------------
(* Execution reports *)

(* Faulty variant of HandleReport: the EXPIRED case calls                   *)
(* callback_order_canceled.                                                 *)
HandleExpiredAsCanceled(w) ==
  /\ Holds(w, "ready") /\ todo[w] = {}
  /\ Recv(w)
  /\ LET o == Head(feed[w]).o
         s == IF Head(feed[w]).s = "EXPIRED" THEN "CANCELED" ELSE Head(feed[w]).s
     IN wk' = [wk EXCEPT ![w] =
          [AtPc("save") EXCEPT !.o = o, !.s = s, !.mem = WithResult(row[o], s)]]
  /\ UNCHANGED <<storeVars, others, todo, runs, lost>>

(* The report is taken from the queue and its order read.                   *)
HandleReport(w) ==
  /\ Holds(w, "ready") /\ todo[w] = {}
  /\ Recv(w)
  /\ LET r == Head(feed[w]) IN
       wk' = [wk EXCEPT ![w] =
         [AtPc("save") EXCEPT !.o = r.o, !.s = r.s,
                              !.mem = WithResult(row[r.o], r.s)]]
  /\ UNCHANGED <<storeVars, others, todo, runs, lost>>

(* 'C' of an EXPIRED report is not an id of ours (the TODO in the handler): *)
(* the report is dropped.                                                   *)
DropExpired(w) ==
  /\ Holds(w, "ready") /\ todo[w] = {}
  /\ Recv(w)
  /\ Head(feed[w]).s = "EXPIRED"
  /\ UNCHANGED <<storeVars, others, callbackVars>>

-----------------------------------------------------------------------------
(* Exchange._callback_order *)

(* After the write: an EXPIRED leg is not dispatched, and neither is a      *)
(* status that is not an end.                                               *)
IgnoredWhenExpired(o, s) == s = "EXPIRED"   \* faulty: plain orders too

IgnoredCallback(o, s) == s = "EXPIRED" /\ HasOco(o)

Saved(w) ==
  wk' = [wk EXCEPT ![w] = IF IgnoredCallback(wk[w].o, wk[w].s)
                          THEN AtPc("ready") ELSE [@ EXCEPT !.pc = "bot"]]

SaveStatus(w) ==
  /\ Holds(w, "save") /\ ~wk[w].guarded
  /\ SaveResult(wk[w].o, wk[w].s)
  /\ Saved(w)
  /\ UNCHANGED <<bot, exchangeVars, others, todo, runs, lost>>

(* Faulty variant of GuardedUpdate: synchronisation does not dispatch.      *)
GuardedUpdateOnly(w) ==
  /\ Holds(w, "save") /\ wk[w].guarded
  /\ wk[w].o \in fresh[w]
  /\ SaveResult(wk[w].o, wk[w].s)
  /\ Return(w)
  /\ UNCHANGED <<bot, exchangeVars, others, todo, runs, lost>>

(* filter(id, updated_at__lt = time_start).update(...) changes one row.     *)
GuardedUpdate(w) ==
  /\ Holds(w, "save") /\ wk[w].guarded
  /\ wk[w].o \in fresh[w]
  /\ SaveResult(wk[w].o, wk[w].s)
  /\ Saved(w)
  /\ UNCHANGED <<bot, exchangeVars, others, todo, runs, lost>>

(* It changes no row: somebody wrote it since time_start.                   *)
GuardedUpdateMisses(w) ==
  /\ Holds(w, "save") /\ wk[w].guarded
  /\ wk[w].o \notin fresh[w]
  /\ Return(w)
  /\ UNCHANGED <<storeVars, exchangeVars, others, todo, runs, lost>>

(* The connection breaks after the UPDATE; check_mysql_gone_away runs it    *)
(* again, and the second one changes no row.                                *)
GuardedUpdateRerun(w) ==
  /\ Holds(w, "save") /\ wk[w].guarded
  /\ wk[w].o \in fresh[w]
  /\ SaveResult(wk[w].o, wk[w].s)
  /\ lost' = lost \cup {wk[w].o}
  /\ Return(w)
  /\ UNCHANGED <<bot, exchangeVars, others, todo, runs>>

(* Faulty variant of ReadBot: a status that is not an end is dispatched.    *)
ReadBotAnyStatus(w) ==
  /\ Holds(w, "bot")
  /\ IF bot # "ON" THEN Return(w) /\ lost' = lost \cup {wk[w].o}
     ELSE /\ IF HasOco(wk[w].o) THEN Goto(w, "oco")
             ELSE Execute(w, wk[w].o, wk[w].mem)
          /\ UNCHANGED lost
  /\ UNCHANGED <<storeVars, exchangeVars, others, todo, runs>>

(* order.position.round.bot is read; only a bot that is ON gets callbacks.  *)
ReadBot(w) ==
  /\ Holds(w, "bot")
  /\ LET o == wk[w].o IN
       CASE wk[w].s = "ACTIVE" -> Return(w) /\ UNCHANGED lost
         [] wk[w].s # "ACTIVE" /\ bot # "ON" ->
              Return(w) /\ lost' = lost \cup {o}
         [] wk[w].s # "ACTIVE" /\ bot = "ON" /\ HasOco(o) ->
              Goto(w, "oco") /\ UNCHANGED lost
         [] OTHER -> Execute(w, o, wk[w].mem) /\ UNCHANGED lost
  /\ UNCHANGED <<storeVars, exchangeVars, others, todo, runs>>

-----------------------------------------------------------------------------
(* services.execute_order_callback *)

(* order.oco_order is fetched: while it is ACTIVE neither leg is called.    *)
ReadPeer(w) ==
  /\ Holds(w, "oco")
  /\ LET peer == Oco[wk[w].o] IN
       wk' = [wk EXCEPT ![w] =
         IF row[peer].status = "ACTIVE" THEN AtPc("ready")
         ELSE [@ EXCEPT !.pc = "pass", !.act = peer, !.actmem = row[peer]]]
  /\ UNCHANGED <<storeVars, exchangeVars, others, todo, runs, lost>>

(* Faulty variant of PassLeg: the reported leg is not saved.                *)
PassLegUnsaved(w) ==
  /\ Holds(w, "pass")
  /\ Execute(w, wk[w].act, wk[w].actmem)
  /\ UNCHANGED <<storeVars, exchangeVars, others, todo, runs, lost>>

(* order_pass.save(): the reported leg is saved whole; the peer is called.  *)
PassLeg(w) ==
  /\ Holds(w, "pass")
  /\ SaveAll(wk[w].o, [wk[w].mem EXCEPT !.cb = "OCO_CANCELED"])
  /\ Execute(w, wk[w].act, wk[w].actmem)
  /\ UNCHANGED <<bot, exchangeVars, others, todo, runs, lost>>

SaveStarted(w) ==
  /\ Holds(w, "start")
  /\ SaveCallback(wk[w].act, "STARTED")
  /\ runs' = [runs EXCEPT ![wk[w].act] = @ + 1]
  /\ Goto(w, "run")
  /\ UNCHANGED <<bot, exchangeVars, others, todo, lost>>

(* DCA1.disable_on_cancel around every callback: a cancelled order (and, of *)
(* an OCO, a cancelled peer) stops the bot instead.                         *)
StopsBot(w) ==
  /\ wk[w].actmem.status = "CANCELED"
  /\ HasOco(wk[w].act) => row[Oco[wk[w].act]].status = "CANCELED"

RunStop(w) ==
  /\ Holds(w, "run") /\ StopsBot(w)
  /\ SaveBot("CANCELED")
  /\ Goto(w, "stop")
  /\ UNCHANGED <<row, fresh, exchangeVars, others, todo, runs, lost>>

(* cancel_open_orders evaluates its queryset.                               *)
ListOpenOrders(w) ==
  /\ Holds(w, "stop")
  /\ cancel' = [cancel EXCEPT ![w] = LoopWith(Snapshot(ActiveOrders))]
  /\ Goto(w, "loop")
  /\ UNCHANGED <<storeVars, exchangeVars, placementVars, todo, runs, lost>>

CancelOpenOrder(w) ==
  /\ Holds(w, "loop")
  /\ CancelStep(w) \/ CancelRaises(w, Advance(w, cancel[w].o))
  /\ UNCHANGED <<placementVars, callbackVars>>

OpenOrdersDone(w) ==
  /\ Holds(w, "loop") /\ LoopDone(w)
  /\ cancel' = [cancel EXCEPT ![w] = NotCancelling]
  /\ Goto(w, "done")
  /\ UNCHANGED <<storeVars, exchangeVars, placementVars, todo, runs, lost>>

(* The algorithm's own method: it places orders, does nothing, or raises.   *)
RunMethod(w) ==
  /\ Holds(w, "run") /\ ~StopsBot(w)
  /\ \/ /\ \E legs \in Placements : CreateRows(w, legs)
        /\ Goto(w, "place")
        /\ UNCHANGED <<bot, late>>
     \/ /\ Goto(w, "done") \/ Goto(w, "error")
        /\ UNCHANGED <<storeVars, placementVars>>
  /\ UNCHANGED <<exchangeVars, cancel, todo, runs, lost>>

PlaceInCallback(w) ==
  /\ Holds(w, "place")
  /\ \/ CallAccepted(w) /\ Goto(w, "done") /\ UNCHANGED storeVars
     \/ /\ CallRejected(w) \/ CallAnswerLost(w)
        /\ UNCHANGED <<storeVars, wk>>
     \/ OnErrorOrder(w) /\ UNCHANGED <<bot, exchangeVars, late, wk>>
     \/ /\ PlacementRaised(w)
        /\ place' = [place EXCEPT ![w] = NotPlacing]
        /\ Goto(w, "error")
        /\ UNCHANGED <<storeVars, exchangeVars, late>>
  /\ UNCHANGED <<cancel, todo, runs, lost>>

(* The outcome is saved and the handler returns.                            *)
SaveOutcome(w) ==
  /\ wk[w].pc \in {"done", "error"}
  /\ SaveCallback(wk[w].act, IF Holds(w, "done") THEN "DONE" ELSE "ERROR")
  /\ Return(w)
  /\ UNCHANGED <<bot, exchangeVars, others, todo, runs, lost>>

-----------------------------------------------------------------------------
(* The end of the process *)

(* Dispatching: the status is written, the callback not yet started.        *)
Dispatching(w) == wk[w].pc \in {"bot", "oco", "pass", "start"}

Dispatched(w) == IF wk[w].act = None THEN wk[w].o ELSE wk[w].act

(* Everything the process had in memory is gone.                            *)
Gone(w) ==
  /\ CloseSocket(w)
  /\ wk' = [wk EXCEPT ![w] = AtPc("down")]
  /\ todo' = [todo EXCEPT ![w] = {}]
  /\ place' = [place EXCEPT ![w] = NotPlacing]
  /\ cancel' = [cancel EXCEPT ![w] = NotCancelling]
  /\ fresh' = [fresh EXCEPT ![w] = {}]
  /\ UNCHANGED <<row, bot, late, runs>>

(* task_wait_and_stop, 23 hours after the start.                            *)
TimerStop(w) ==
  /\ Holds(w, "ready") /\ todo[w] = {}
  /\ Gone(w)
  /\ UNCHANGED lost

(* SIGTERM, an exception that stops the loop, a restart of the container.   *)
Kill(w) ==
  /\ ~Holds(w, "down")
  /\ Gone(w)
  /\ lost' = IF Dispatching(w) /\ wk[w].s \in Terminal
             THEN lost \cup {wk[w].o, Dispatched(w)} ELSE lost

(* The oldest report never arrives: python-binance reconnects silently.     *)
LoseReport(w) ==
  /\ w \in open
  /\ Recv(w)
  /\ UNCHANGED <<storeVars, others, callbackVars>>

WorkerStep(w) ==
  \/ Connect(w) \/ TakeTimeStart(w) \/ GetAllOrders(w) \/ CompareEntry(w)
  \/ HandleReport(w) \/ DropExpired(w)
  \/ SaveStatus(w) \/ GuardedUpdate(w) \/ GuardedUpdateMisses(w)
  \/ ReadBot(w) \/ ReadPeer(w) \/ PassLeg(w) \/ SaveStarted(w)
  \/ RunStop(w) \/ ListOpenOrders(w) \/ CancelOpenOrder(w) \/ OpenOrdersDone(w)
  \/ RunMethod(w) \/ PlaceInCallback(w) \/ SaveOutcome(w) \/ TimerStop(w)

WorkerFault(w) == GuardedUpdateRerun(w) \/ Kill(w) \/ LoseReport(w)

CallbackInit ==
  /\ wk = [w \in Workers |-> AtPc("down")]
  /\ todo = [w \in Workers |-> {}]
  /\ runs = [o \in Orders |-> 0]
  /\ lost = {}

CallbackTypeOK ==
  /\ wk \in [Workers -> WorkerRecords]
  /\ todo \in [Workers -> SUBSET Reports]
  /\ runs \in [Orders -> Nat]
  /\ lost \subseteq Orders
=============================================================================
