------------------------------ MODULE Binance ------------------------------
(***************************************************************************)
(* The exchange as the adapter tbot/exchanges/binance.py uses it.  The     *)
(* exchange is not part of the repository: it is modelled from the calls   *)
(* the adapter makes and from the reports the adapter reads.  Each worker  *)
(* that has its socket open gets every execution report once, in order,    *)
(* in a queue of its own; a report nobody listens to is gone.              *)
(***************************************************************************)
EXTENDS OrderStore

VARIABLES
  ex,     \* ex[o]: "none" before it is accepted, "live", maybe "part" when
          \* it is partially executed, then a Terminal
  feed,   \* feed[w]: reports delivered to worker w and not yet handled
  open,   \* the workers whose socket is open
  old     \* accepted orders that are not among the last 500 of the symbol

exchangeVars == <<ex, feed, open, old>>

OnBook == {"live", "part"}

ExchangeStatuses == {"none"} \cup OnBook \cup Terminal

(* X = 'NEW' is handled as ACTIVE (callback_order_new).                     *)
Reports == [o : Orders, s : {"ACTIVE"} \cup Terminal]

Report(o, s) == [o |-> o, s |-> s]

(* Reports rs reach every open socket.                                      *)
Publish(rs) ==
  feed' = [w \in Workers |-> IF w \in open THEN feed[w] \o rs ELSE <<>>]

LivePeer(o) == HasOco(o) /\ ex[Oco[o]] \in OnBook

(* create_order or create_oco_order is accepted: the legs go live together. *)
Accept(legs) ==
  /\ \A i \in DOMAIN legs : ex[legs[i]] = "none"
  /\ ex' = [o \in Orders |->
              IF \E i \in DOMAIN legs : legs[i] = o THEN "live" ELSE ex[o]]
  /\ Publish([i \in DOMAIN legs |-> Report(legs[i], "ACTIVE")])
  /\ UNCHANGED <<open, old>>

(* An order on the book ends with status s and its peer, if it is there too,*)
(* as t; nothing in the program may rely on which one is reported first.    *)
Finish(o, s, t) ==
  /\ ex[o] \in OnBook
  /\ IF LivePeer(o)
     THEN /\ ex' = [ex EXCEPT ![o] = s, ![Oco[o]] = t]
          /\ \/ Publish(<<Report(Oco[o], t), Report(o, s)>>)
             \/ Publish(<<Report(o, s), Report(Oco[o], t)>>)
     ELSE /\ ex' = [ex EXCEPT ![o] = s]
          /\ Publish(<<Report(o, s)>>)
  /\ UNCHANGED <<open, old>>

(* The order is executed completely; the other leg of an OCO expires.       *)
Fill(o) == Finish(o, "FILLED", "EXPIRED")

(* Cancelled through the API or the web page: an OCO goes as a whole.       *)
CancelAtExchange(o) == Finish(o, "CANCELED", "CANCELED")

(* The exchange ends one order by its own rules: the limit leg of an OCO    *)
(* expires alone when the stop leg is triggered.                            *)
Expire(o) ==
  /\ ex[o] \in OnBook
  /\ ex' = [ex EXCEPT ![o] = "EXPIRED"]
  /\ Publish(<<Report(o, "EXPIRED")>>)
  /\ UNCHANGED <<open, old>>

(* A part is executed, after the peer leg is gone; the handler has no case  *)
(* for the report X = 'PARTIALLY_FILLED', so none is queued.                *)
PartFill(o) ==
  /\ ex[o] = "live" /\ ~LivePeer(o)
  /\ ex' = [ex EXCEPT ![o] = "part"]
  /\ UNCHANGED <<feed, open, old>>

(* By now 500 newer orders of the symbol have been placed on the account,    *)
(* by anybody: get_all_orders without a limit leaves o out from here on.    *)
(* When that is, and in which order ours leave, is up to the others.        *)
PushOut(o) ==
  /\ ex[o] # "none" /\ o \notin old
  /\ old' = old \cup {o}
  /\ UNCHANGED <<ex, feed, open>>

(* user_socket(): from now on reports are queued for w.                      *)
OpenSocket(w) ==
  /\ open' = open \cup {w}
  /\ feed' = [feed EXCEPT ![w] = <<>>]
  /\ UNCHANGED <<ex, old>>

CloseSocket(w) ==
  /\ open' = open \ {w}
  /\ feed' = [feed EXCEPT ![w] = <<>>]
  /\ UNCHANGED <<ex, old>>

(* recv() returns the oldest report.                                         *)
Recv(w) ==
  /\ feed[w] # <<>>
  /\ feed' = [feed EXCEPT ![w] = Tail(@)]
  /\ UNCHANGED <<ex, open, old>>

ExchangeInit ==
  /\ ex = [o \in Orders |-> "none"]
  /\ feed = [w \in Workers |-> <<>>]
  /\ open = {}
  /\ old = {}

ExchangeTypeOK ==
  /\ ex \in [Orders -> ExchangeStatuses]
  /\ feed \in [Workers -> Seq(Reports)]
  /\ open \subseteq Workers
  /\ old \subseteq Orders
=============================================================================
