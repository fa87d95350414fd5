---------------------------- MODULE OrderCancel ----------------------------
(***************************************************************************)
(* Exchange.cancel_order (tbot/exchanges/exchanges.py) and the loops that  *)
(* call it for a list of orders: the cancel loop of bot_stop and           *)
(* Algorithm.cancel_open_orders.  The loop works on objects read when the  *)
(* list was evaluated; cancel_order saves those objects whole, which       *)
(* writes the columns of that moment back over whatever the table has now. *)
(***************************************************************************)
EXTENDS OrderPlacement

VARIABLE cancel   \* cancel[p]: where process p is in its cancel loop

(* snap: the objects still to do (NoRow: none); o, peer: those in hand.     *)
CancelRecords ==
  [pc   : {"idle", "next", "peer", "savepeer", "own", "call"},
   o    : Orders \cup {None},
   snap : [Orders -> Rows],
   peer : Rows]

NoSnapshot == [o \in Orders |-> NoRow]

NotCancelling ==
  [pc |-> "idle", o |-> None, snap |-> NoSnapshot, peer |-> NoRow]

(* The queryset is evaluated: one object per row of S, as it is now.        *)
Snapshot(S) == [o \in Orders |-> IF o \in S THEN row[o] ELSE NoRow]

Listed(p) == {o \in Orders : cancel[p].snap[o] # NoRow}

LoopWith(snap) == [NotCancelling EXCEPT !.pc = "next", !.snap = snap]

(* Order o is finished with: on to the next object.                         *)
Advance(p, o) == LoopWith([cancel[p].snap EXCEPT ![o] = NoRow])

(* Faulty variant of Reload: an order that is no longer ACTIVE ends the loop. *)
ReloadOrStop(p) ==
  /\ cancel[p].pc = "next"
  /\ \E o \in Listed(p) :
       cancel' = [cancel EXCEPT ![p] =
         IF row[o].status # "ACTIVE" THEN LoopWith(NoSnapshot)
         ELSE [cancel[p] EXCEPT !.pc = "own", !.o = o]]
  /\ UNCHANGED <<storeVars, exchangeVars>>

(* reloaded_order = Order.objects.get(id): leave it unless ACTIVE.          *)
Reload(p) ==
  /\ cancel[p].pc = "next"
  /\ \E o \in Listed(p) :
       cancel' = [cancel EXCEPT ![p] =
         IF row[o].status # "ACTIVE"
         THEN Advance(p, o)
         ELSE [cancel[p] EXCEPT !.pc = IF HasOco(o) THEN "peer" ELSE "own",
                                !.o = o]]
  /\ UNCHANGED <<storeVars, exchangeVars>>

(* order.oco_order is fetched when it is first touched ...                  *)
FetchPeer(p) ==
  /\ cancel[p].pc = "peer"
  /\ cancel' = [cancel EXCEPT ![p].pc = "savepeer",
                              ![p].peer = row[Oco[cancel[p].o]]]
  /\ UNCHANGED <<storeVars, exchangeVars>>

(* ... and saved whole with its callback cancelled.                         *)
SavePeer(p) ==
  /\ cancel[p].pc = "savepeer"
  /\ SaveAll(Oco[cancel[p].o], [cancel[p].peer EXCEPT !.cb = "CANCELED"])
  /\ cancel' = [cancel EXCEPT ![p].pc = "own", ![p].peer = NoRow]
  /\ UNCHANGED <<bot, exchangeVars>>

(* Faulty variants of SaveOwn: the row is CANCELED before the exchange has  *)
(* said so; the callback is not cancelled.                                  *)
SaveOwnCanceled(p) ==
  /\ cancel[p].pc = "own"
  /\ SaveAll(cancel[p].o, [cancel[p].snap[cancel[p].o] EXCEPT
                             !.cb = "CANCELED", !.status = "CANCELED"])
  /\ cancel' = [cancel EXCEPT ![p].pc = "call"]
  /\ UNCHANGED <<bot, exchangeVars>>

SaveOwnWaiting(p) ==
  /\ cancel[p].pc = "own"
  /\ SaveAll(cancel[p].o, cancel[p].snap[cancel[p].o])
  /\ cancel' = [cancel EXCEPT ![p].pc = "call"]
  /\ UNCHANGED <<bot, exchangeVars>>

(* The object given to cancel_order is saved whole: it was read before the  *)
(* reload, and before the prompt of bot_stop.                               *)
SaveOwn(p) ==
  /\ cancel[p].pc = "own"
  /\ SaveAll(cancel[p].o, [cancel[p].snap[cancel[p].o] EXCEPT !.cb = "CANCELED"])
  /\ cancel' = [cancel EXCEPT ![p].pc = "call"]
  /\ UNCHANGED <<bot, exchangeVars>>

(* _cancel_order: the exchange cancels, or answers -2011 (not open), which  *)
(* is ignored.                                                              *)
CancelCall(p) ==
  /\ cancel[p].pc = "call"
  /\ \/ CancelAtExchange(cancel[p].o)
     \/ ex[cancel[p].o] \notin OnBook /\ UNCHANGED exchangeVars
  /\ cancel' = [cancel EXCEPT ![p] = Advance(p, cancel[p].o)]
  /\ UNCHANGED storeVars

(* _cancel_order raises, with or without the order being cancelled.         *)
(* Algorithm.cancel_order swallows the exception and goes on (next is the   *)
(* rest of the loop); a command ends with it.                               *)
CancelRaises(p, next) ==
  /\ cancel[p].pc = "call"
  /\ CancelAtExchange(cancel[p].o) \/ UNCHANGED exchangeVars
  /\ cancel' = [cancel EXCEPT ![p] = next]
  /\ UNCHANGED storeVars

LoopDone(p) == cancel[p].pc = "next" /\ Listed(p) = {}

CancelStep(p) ==
  Reload(p) \/ FetchPeer(p) \/ SavePeer(p) \/ SaveOwn(p) \/ CancelCall(p)

CancelInit == cancel = [p \in Procs |-> NotCancelling]

CancelTypeOK == cancel \in [Procs -> CancelRecords]
=============================================================================
