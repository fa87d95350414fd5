-------------------------- MODULE OrderFlowProofs --------------------------
(***************************************************************************)
(* Proofs about OrderFlow for every number of orders, workers and          *)
(* commands and every pairing of legs.  Truthful is inductive; its parts   *)
(* speak of one component's variables and of ex, so a step is treated in   *)
(* two halves: the part it writes, and the parts that only see ex grow.    *)
(***************************************************************************)
EXTENDS OrderFlow, TLAPS

(* What the exchange has once decided it never takes back.                  *)
ExGrows ==
  \A o \in Orders : /\ ex[o] \in Terminal => ex'[o] = ex[o]
                    /\ ex[o] # "none" => ex'[o] # "none"

-----------------------------------------------------------------------------
(* Parts that a step does not write *)

(* The table is not written and ex only grows.                              *)
LEMMA StoreKeeps ==
  ASSUME StoreInv, ExGrows, UNCHANGED storeVars
  PROVE  StoreInv'
<1>1. StoreTypeOK'
  BY DEF StoreInv, StoreTypeOK, storeVars
<1>2. ASSUME NEW o \in Orders PROVE Honest(o, row[o])'
  <2>1. Honest(o, row[o])
    BY DEF StoreInv
  <2> QED BY <2>1 DEF ExGrows, Honest, Confirmed, Terminal, storeVars
<1> QED BY <1>1, <1>2 DEF StoreInv

(* new_order_* is not under way in this step.                               *)
LEMMA PlacementKeeps ==
  ASSUME PlacementInv, UNCHANGED placementVars
  PROVE  PlacementInv'
BY DEF PlacementInv, PlacementTypeOK, placementVars

(* No cancel loop moves and ex only grows.                                  *)
LEMMA CancelOKGrows ==
  ASSUME ExGrows, NEW c \in CancelRecords, CancelOK(c)
  PROVE  CancelOK(c)'
<1>1. c.pc = "savepeer" => Oco[c.o] \in Orders
  BY OcoAssumption DEF CancelOK, HasOco
<1> QED BY <1>1 DEF CancelOK, ExGrows, Honest, Confirmed, Terminal

LEMMA CancelKeeps ==
  ASSUME CancelInv, ExGrows, UNCHANGED cancel
  PROVE  CancelInv'
<1>1. \A p \in Procs : cancel[p] \in CancelRecords /\ CancelOK(cancel[p])
  BY DEF CancelInv, CancelTypeOK
<1>2. ASSUME NEW p \in Procs PROVE CancelOK(cancel[p])'
  BY <1>1, <1>2, CancelOKGrows DEF CancelOK, Honest, Confirmed
<1> QED BY <1>1, <1>2 DEF CancelInv, CancelTypeOK

(* No worker moves and ex only grows.                                       *)
LEMMA WorkerKeeps ==
  ASSUME WorkerInv, ExGrows, UNCHANGED callbackVars
  PROVE  WorkerInv'
<1>1. CallbackTypeOK'
  BY DEF WorkerInv, CallbackTypeOK, callbackVars
<1>2. ASSUME NEW w \in Workers PROVE WorkerOK(wk[w])'
  <2>1. WorkerOK(wk[w])
    BY DEF WorkerInv
  <2> QED
    BY <2>1 DEF WorkerOK, ExGrows, Honest, Confirmed, Terminal, Calling,
                Handling, callbackVars
<1>3. ASSUME NEW w \in Workers, NEW r \in todo'[w]
      PROVE  Confirmed(r.o, r.s)'
  <2>1. r \in todo[w] /\ r \in Reports
    BY <1>3 DEF WorkerInv, CallbackTypeOK, callbackVars
  <2> QED BY <2>1 DEF WorkerInv, ExGrows, Confirmed, Terminal, Reports
<1>4. \A o \in Orders : (runs[o] > 0 => ex[o] \in Terminal)'
  BY DEF WorkerInv, ExGrows, callbackVars
<1> QED BY <1>1, <1>2, <1>3, <1>4 DEF WorkerInv

-----------------------------------------------------------------------------
(* Statements on the tables *)

(* An honest row written over any row leaves the table honest.              *)
LEMMA WriteHonest ==
  ASSUME StoreInv, NEW o, NEW r \in Rows, Honest(o, r), Write(o, r),
         UNCHANGED <<bot, ex>>
  PROVE  StoreInv'
<1>1. StoreTypeOK'
  BY DEF StoreInv, StoreTypeOK, Write
<1>2. ASSUME NEW q \in Orders PROVE Honest(q, row[q])'
  <2>1. Honest(q, row[q]) /\ row \in [Orders -> Rows]
    BY DEF StoreInv, StoreTypeOK
  <2> QED BY <2>1 DEF Write, Honest, Confirmed
<1> QED BY <1>1, <1>2 DEF StoreInv

(* A status the exchange has given an order may be put on an honest row of  *)
(* that order; with FILLED the executed quantities come along.              *)
LEMMA ResultHonest ==
  ASSUME NEW o, NEW r \in Rows, Honest(o, r),
         NEW s \in {"ACTIVE"} \cup Terminal, Confirmed(o, s)
  PROVE  WithResult(r, s) \in Rows /\ Honest(o, WithResult(r, s))
BY DEF WithResult, Rows, Statuses, Terminal, Honest, Confirmed

(* Another callback_status changes nothing about honesty.                   *)
LEMMA CallbackHonest ==
  ASSUME NEW o, NEW r \in Rows, Honest(o, r), NEW c \in CallbackStatuses
  PROVE  [r EXCEPT !.cb = c] \in Rows /\ Honest(o, [r EXCEPT !.cb = c])
BY DEF Rows, Honest, Confirmed

LEMMA NoRowHonest ==
  NoRow \in Rows /\ \A o : Honest(o, NoRow)
BY DEF NoRow, Rows, CallbackStatuses, Honest, Confirmed, Terminal

-----------------------------------------------------------------------------
(* The exchange *)

(* What an element of Placements looks like to the rest of the proof.       *)
LEMMA LegsOfPlacement ==
  ASSUME NEW legs \in Placements
  PROVE  /\ legs \in Seq(Orders)
         /\ DOMAIN legs = 1..Len(legs)
         /\ \A o \in DOMAIN Oco :
              (\E i \in DOMAIN legs : legs[i] = o)
                <=> (\E i \in DOMAIN legs : legs[i] = Oco[o])
<1>1. CASE \E o \in Orders \ DOMAIN Oco : legs = <<o>>
  BY <1>1, OcoAssumption
<1>2. CASE \E o \in DOMAIN Oco : legs = <<o, Oco[o]>>
  <2>1. PICK o \in DOMAIN Oco : legs = <<o, Oco[o]>>
    BY <1>2
  <2>2. /\ DOMAIN legs = {1, 2} /\ legs[1] = o /\ legs[2] = Oco[o]
        /\ Len(legs) = 2
    BY <2>1
  <2>3. legs \in Seq(Orders) /\ DOMAIN legs = 1..Len(legs)
    BY <2>1, OcoAssumption
  <2>4. Oco[o] \in DOMAIN Oco /\ Oco[Oco[o]] = o
    BY OcoAssumption
  <2>5. ASSUME NEW q \in DOMAIN Oco
        PROVE  (\E i \in DOMAIN legs : legs[i] = q)
                 <=> (\E i \in DOMAIN legs : legs[i] = Oco[q])
    <3>1. Oco[Oco[q]] = q
      BY OcoAssumption
    <3> QED BY <2>2, <2>4, <3>1
  <2> QED BY <2>3, <2>5
<1> QED BY <1>1, <1>2 DEF Placements

(* Reports that are true when they are sent keep every queue true.          *)
LEMMA PublishTrue ==
  ASSUME ExchangeInv, ExGrows, NEW rs \in Seq(Reports), Publish(rs),
         UNCHANGED open,
         \A i \in DOMAIN rs : Confirmed(rs[i].o, rs[i].s)'
  PROVE  /\ feed' \in [Workers -> Seq(Reports)]
         /\ \A w \in Workers : \A i \in DOMAIN feed'[w] :
              Confirmed(feed[w][i].o, feed[w][i].s)'
<1>1. feed \in [Workers -> Seq(Reports)]
  BY DEF ExchangeInv, ExchangeTypeOK
<1>2. ASSUME NEW w \in Workers
      PROVE  /\ feed'[w] \in Seq(Reports)
             /\ \A i \in DOMAIN feed'[w] :
                  Confirmed(feed[w][i].o, feed[w][i].s)'
  <2>1. CASE w \notin open
    BY <2>1 DEF Publish
  <2>2. CASE w \in open
    <3>1. feed'[w] = feed[w] \o rs /\ feed[w] \in Seq(Reports)
      BY <2>2, <1>1 DEF Publish
    <3>2. feed'[w] \in Seq(Reports)
      BY <3>1
    <3>3. ASSUME NEW i \in DOMAIN feed'[w]
          PROVE  Confirmed(feed[w][i].o, feed[w][i].s)'
      <4>1. CASE i \in 1..Len(feed[w])
        <5>1. feed'[w][i] = feed[w][i] /\ feed[w][i] \in Reports
          BY <3>1, <4>1
        <5>2. Confirmed(feed[w][i].o, feed[w][i].s)
          BY <3>1, <4>1 DEF ExchangeInv
        <5> QED BY <5>1, <5>2 DEF Confirmed, ExGrows, Terminal, Reports
      <4>2. CASE i \notin 1..Len(feed[w])
        <5>1. /\ i - Len(feed[w]) \in DOMAIN rs
              /\ feed'[w][i] = rs[i - Len(feed[w])]
          BY <3>1, <4>2
        <5> QED BY <5>1 DEF Confirmed
      <4> QED BY <4>1, <4>2
    <3> QED BY <3>2, <3>3
  <2> QED BY <2>1, <2>2
<1> QED BY <1>1, <1>2 DEF Publish
LEMMA ReportsTrue ==
  ASSUME NEW a \in Reports, NEW b \in Reports,
         Confirmed(a.o, a.s)', Confirmed(b.o, b.s)'
  PROVE  /\ <<a>> \in Seq(Reports) /\ <<a, b>> \in Seq(Reports)
         /\ \A i \in DOMAIN <<a>> : Confirmed(<<a>>[i].o, <<a>>[i].s)'
         /\ \A i \in DOMAIN <<a, b>> :
              Confirmed(<<a, b>>[i].o, <<a, b>>[i].s)'
<1>1. /\ DOMAIN <<a>> = {1} /\ DOMAIN <<a, b>> = {1, 2}
      /\ <<a>>[1] = a /\ <<a, b>>[1] = a /\ <<a, b>>[2] = b
  OBVIOUS
<1>2. <<a>> \in Seq(Reports) /\ <<a, b>> \in Seq(Reports)
  OBVIOUS
<1> QED BY <1>1, <1>2 DEF Confirmed

(* Legs accepted together keep the exchange's part of the invariant.        *)
LEMMA AcceptTrue ==
  ASSUME ExchangeInv, NEW legs \in Placements, Accept(legs)
  PROVE  ExchangeInv' /\ ExGrows
<1> DEFINE rs == [i \in DOMAIN legs |-> Report(legs[i], "ACTIVE")]
<1>1. /\ legs \in Seq(Orders)
      /\ DOMAIN legs = 1..Len(legs)
      /\ ex \in [Orders -> ExchangeStatuses]
  BY LegsOfPlacement DEF ExchangeInv, ExchangeTypeOK
<1>2. ExGrows
  BY <1>1 DEF Accept, ExGrows, Terminal
<1>3. rs \in Seq(Reports)
  <2>1. \A i \in 1..Len(legs) : rs[i] \in Reports
    BY <1>1 DEF Report, Reports
  <2> QED BY <1>1, <2>1
<1>4. \A i \in DOMAIN rs : Confirmed(rs[i].o, rs[i].s)'
  <2>1. \A i \in DOMAIN legs : ex'[legs[i]] = "live"
    BY <1>1 DEF Accept
  <2> QED BY <2>1 DEF Confirmed, Report, Terminal
<1>5. Publish(rs) /\ UNCHANGED <<open, old>>
  BY DEF Accept
<1> HIDE DEF rs
<1>6. /\ feed' \in [Workers -> Seq(Reports)]
      /\ \A w \in Workers : \A i \in DOMAIN feed'[w] :
           Confirmed(feed[w][i].o, feed[w][i].s)'
  BY <1>2, <1>3, <1>4, <1>5, PublishTrue
<1>7. ex' \in [Orders -> ExchangeStatuses]
  BY <1>1 DEF Accept, ExchangeStatuses, OnBook
<1>8. LegsEndTogether'
  <2> SUFFICES ASSUME NEW o \in DOMAIN Oco
               PROVE  /\ ex'[o] = "none" => ex'[Oco[o]] = "none"
                      /\ ex'[o] \in {"FILLED", "CANCELED"} =>
                           ex'[Oco[o]] \in Terminal
    BY DEF LegsEndTogether
  <2>1. o \in Orders /\ Oco[o] \in Orders
    BY OcoAssumption
  <2>2. /\ ex[o] = "none" => ex[Oco[o]] = "none"
        /\ ex[o] \in {"FILLED", "CANCELED"} => ex[Oco[o]] \in Terminal
    BY DEF ExchangeInv, LegsEndTogether
  <2>3. (\E i \in DOMAIN legs : legs[i] = o)
          <=> (\E i \in DOMAIN legs : legs[i] = Oco[o])
    BY LegsOfPlacement
  <2> QED BY <2>1, <2>2, <2>3 DEF Accept, Terminal
<1>9. old' \subseteq Orders
  BY <1>5 DEF ExchangeInv, ExchangeTypeOK
<1> QED BY <1>2, <1>5, <1>6, <1>7, <1>8, <1>9 DEF ExchangeInv, ExchangeTypeOK

(* An end of an order, with or without its peer's, keeps it too.            *)
LEMMA FinishTrue ==
  ASSUME ExchangeInv, NEW o \in Orders,
         NEW s \in {"FILLED", "CANCELED"}, NEW t \in Terminal,
         Finish(o, s, t)
  PROVE  ExchangeInv' /\ ExGrows
<1>1. ex \in [Orders -> ExchangeStatuses] /\ s \in Terminal
  BY DEF ExchangeInv, ExchangeTypeOK, Terminal
<1>2. ExGrows
  BY <1>1, OcoAssumption
  DEF Finish, LivePeer, OnBook, HasOco, ExGrows, Terminal
<1>3. ex' \in [Orders -> ExchangeStatuses] /\ ex'[o] = s
  BY <1>1, OcoAssumption DEF Finish, LivePeer, HasOco, ExchangeStatuses
<1>4. LegsEndTogether'
  <2> SUFFICES ASSUME NEW q \in DOMAIN Oco
               PROVE  /\ ex'[q] = "none" => ex'[Oco[q]] = "none"
                      /\ ex'[q] \in {"FILLED", "CANCELED"} =>
                           ex'[Oco[q]] \in Terminal
    BY DEF LegsEndTogether
  <2>1. /\ q \in Orders /\ Oco[q] \in Orders /\ Oco[q] \in DOMAIN Oco
        /\ Oco[Oco[q]] = q /\ Oco[q] # q
    BY OcoAssumption
  <2>2. /\ ex[q] = "none" => ex[Oco[q]] = "none"
        /\ ex[Oco[q]] = "none" => ex[q] = "none"
        /\ ex[q] \in {"FILLED", "CANCELED"} => ex[Oco[q]] \in Terminal
    BY <2>1 DEF ExchangeInv, LegsEndTogether
  <2>3. CASE LivePeer(o)
    BY <2>1, <2>2, <2>3, <1>1, OcoAssumption
    DEF Finish, LivePeer, HasOco, OnBook, Terminal
  <2>4. CASE ~LivePeer(o)
    BY <2>1, <2>2, <2>4, <1>1
    DEF Finish, LivePeer, HasOco, OnBook, Terminal, ExchangeStatuses
  <2> QED BY <2>3, <2>4
<1>5. PICK rs \in Seq(Reports) :
        Publish(rs) /\ \A i \in DOMAIN rs : Confirmed(rs[i].o, rs[i].s)'
  <2>1. CASE LivePeer(o)
    <3>1. Oco[o] \in Orders /\ Oco[o] # o
      BY <2>1, OcoAssumption DEF LivePeer, HasOco
    <3>2. ex'[Oco[o]] = t
      BY <1>1, <2>1, <3>1 DEF Finish
    <3>3. /\ Report(Oco[o], t) \in Reports /\ Report(o, s) \in Reports
          /\ Report(Oco[o], t).o = Oco[o] /\ Report(Oco[o], t).s = t
          /\ Report(o, s).o = o /\ Report(o, s).s = s
      BY <3>1, <1>1 DEF Report, Reports
    <3>4. /\ Confirmed(Report(Oco[o], t).o, Report(Oco[o], t).s)'
          /\ Confirmed(Report(o, s).o, Report(o, s).s)'
      BY <1>3, <3>2, <3>3 DEF Confirmed
    <3>5. CASE Publish(<<Report(Oco[o], t), Report(o, s)>>)
      BY <3>3, <3>4, <3>5, ReportsTrue
    <3>6. CASE Publish(<<Report(o, s), Report(Oco[o], t)>>)
      BY <3>3, <3>4, <3>6, ReportsTrue
    <3> QED BY <2>1, <3>5, <3>6 DEF Finish
  <2>2. CASE ~LivePeer(o)
    <3>1. Publish(<<Report(o, s)>>)
      BY <2>2 DEF Finish
    <3>2. Report(o, s) \in Reports /\ Report(o, s).o = o /\ Report(o, s).s = s
      BY <1>1 DEF Report, Reports
    <3>3. Confirmed(Report(o, s).o, Report(o, s).s)'
      BY <1>3, <3>2 DEF Confirmed
    <3> QED BY <3>1, <3>2, <3>3, ReportsTrue
  <2> QED BY <2>1, <2>2
<1>6. UNCHANGED <<open, old>>
  BY DEF Finish
<1>7. /\ feed' \in [Workers -> Seq(Reports)]
      /\ \A w \in Workers : \A i \in DOMAIN feed'[w] :
           Confirmed(feed[w][i].o, feed[w][i].s)'
  BY <1>2, <1>5, <1>6, PublishTrue
<1> QED BY <1>2, <1>3, <1>4, <1>6, <1>7 DEF ExchangeInv, ExchangeTypeOK

LEMMA CancelAtExchangeTrue ==
  ASSUME ExchangeInv, NEW o \in Orders, CancelAtExchange(o)
  PROVE  ExchangeInv' /\ ExGrows
<1>1. Finish(o, "CANCELED", "CANCELED")
  BY DEF CancelAtExchange
<1>2. "CANCELED" \in Terminal
  BY DEF Terminal
<1> QED BY <1>1, <1>2, FinishTrue

(* Everything the exchange does by itself.                                  *)
LEMMA ExchangeMoves ==
  ASSUME ExchangeInv, NEW o \in Orders,
         Fill(o) \/ CancelAtExchange(o) \/ Expire(o) \/ PartFill(o) \/ PushOut(o)
  PROVE  ExchangeInv' /\ ExGrows
<1>1. CASE Fill(o)
  <2>1. Finish(o, "FILLED", "EXPIRED")
    BY <1>1 DEF Fill
  <2>2. "EXPIRED" \in Terminal
    BY DEF Terminal
  <2> QED BY <2>1, <2>2, FinishTrue
<1>2. CASE CancelAtExchange(o)
  BY <1>2, CancelAtExchangeTrue
<1>3. ex \in [Orders -> ExchangeStatuses] /\ feed \in [Workers -> Seq(Reports)]
  BY DEF ExchangeInv, ExchangeTypeOK
<1>4. CASE Expire(o)
  <2>1. ExGrows
    BY <1>3, <1>4 DEF Expire, OnBook, ExGrows, Terminal
  <2>2. ex' \in [Orders -> ExchangeStatuses] /\ ex'[o] = "EXPIRED"
    BY <1>3, <1>4 DEF Expire, ExchangeStatuses, Terminal
  <2>3. /\ Report(o, "EXPIRED") \in Reports /\ Report(o, "EXPIRED").o = o
        /\ Report(o, "EXPIRED").s = "EXPIRED"
    BY DEF Report, Reports, Terminal
  <2>4. Publish(<<Report(o, "EXPIRED")>>) /\ UNCHANGED <<open, old>>
    BY <1>4 DEF Expire
  <2>5. Confirmed(Report(o, "EXPIRED").o, Report(o, "EXPIRED").s)'
    BY <2>2, <2>3 DEF Confirmed
  <2>6. /\ <<Report(o, "EXPIRED")>> \in Seq(Reports)
        /\ \A i \in DOMAIN <<Report(o, "EXPIRED")>> :
             Confirmed(<<Report(o, "EXPIRED")>>[i].o,
                       <<Report(o, "EXPIRED")>>[i].s)'
    BY <2>3, <2>5, ReportsTrue
  <2>7. /\ feed' \in [Workers -> Seq(Reports)]
        /\ \A w \in Workers : \A i \in DOMAIN feed'[w] :
             Confirmed(feed[w][i].o, feed[w][i].s)'
    BY <2>1, <2>4, <2>6, PublishTrue
  <2>8. LegsEndTogether'
    BY <1>3, <1>4, OcoAssumption
    DEF Expire, OnBook, Terminal, ExchangeInv, LegsEndTogether
  <2> QED BY <2>1, <2>2, <2>4, <2>7, <2>8 DEF ExchangeInv, ExchangeTypeOK
<1>5. CASE PartFill(o)
  <2>1. ExGrows
    BY <1>3, <1>5 DEF PartFill, ExGrows, Terminal
  <2>2. ex' \in [Orders -> ExchangeStatuses]
    BY <1>3, <1>5 DEF PartFill, ExchangeStatuses, OnBook
  <2>3. LegsEndTogether'
    <3> SUFFICES ASSUME NEW q \in DOMAIN Oco
                 PROVE  /\ ex'[q] = "none" => ex'[Oco[q]] = "none"
                        /\ ex'[q] \in {"FILLED", "CANCELED"} =>
                             ex'[Oco[q]] \in Terminal
      BY DEF LegsEndTogether
    <3>1. /\ q \in Orders /\ Oco[q] \in Orders /\ Oco[q] \in DOMAIN Oco
          /\ Oco[Oco[q]] = q
      BY OcoAssumption
    <3>2. /\ ex[q] = "none" => ex[Oco[q]] = "none"
          /\ ex[Oco[q]] = "none" => ex[q] = "none"
          /\ ex[q] \in {"FILLED", "CANCELED"} => ex[Oco[q]] \in Terminal
      BY <3>1 DEF ExchangeInv, LegsEndTogether
    <3> QED BY <1>3, <1>5, <3>1, <3>2 DEF PartFill, Terminal
  <2>4. \A w \in Workers : \A i \in DOMAIN feed[w] :
          Confirmed(feed[w][i].o, feed[w][i].s)'
    <3> SUFFICES ASSUME NEW w \in Workers, NEW i \in DOMAIN feed[w]
                 PROVE  Confirmed(feed[w][i].o, feed[w][i].s)'
      OBVIOUS
    <3>1. feed[w][i] \in Reports
      BY <1>3
    <3>2. Confirmed(feed[w][i].o, feed[w][i].s)
      BY DEF ExchangeInv
    <3> QED BY <1>5, <2>1, <3>1, <3>2
            DEF PartFill, Confirmed, ExGrows, Terminal, Reports
  <2> QED BY <1>5, <2>1, <2>2, <2>3, <2>4
          DEF PartFill, ExchangeInv, ExchangeTypeOK
<1>6. CASE PushOut(o)
  <2>1. UNCHANGED <<ex, feed, open>> /\ old' \subseteq Orders
    BY <1>6 DEF PushOut, ExchangeInv, ExchangeTypeOK
  <2> QED BY <2>1 DEF ExchangeInv, ExchangeTypeOK, LegsEndTogether, Confirmed,
                      ExGrows
<1> QED BY <1>1, <1>2, <1>4, <1>5, <1>6

(* Sockets: a queue is emptied, or loses its oldest report.                 *)
LEMMA SocketMoves ==
  ASSUME ExchangeInv, NEW w \in Workers,
         OpenSocket(w) \/ CloseSocket(w) \/ Recv(w)
  PROVE  ExchangeInv' /\ ExGrows
<1>1. ex \in [Orders -> ExchangeStatuses] /\ feed \in [Workers -> Seq(Reports)]
      /\ open \subseteq Workers /\ LegsEndTogether
  BY DEF ExchangeInv, ExchangeTypeOK
<1>2. UNCHANGED ex /\ open' \subseteq Workers
  BY <1>1 DEF OpenSocket, CloseSocket, Recv
<1>3. ASSUME NEW v \in Workers
      PROVE  /\ feed'[v] \in Seq(Reports)
             /\ \A i \in DOMAIN feed'[v] : Confirmed(feed[v][i].o, feed[v][i].s)'
  <2>0. \A i \in DOMAIN feed[v] : Confirmed(feed[v][i].o, feed[v][i].s)
    BY DEF ExchangeInv
  <2>1. CASE feed'[v] = <<>>
    BY <2>1
  <2>2. CASE feed'[v] = feed[v]
    BY <1>1, <1>2, <2>0, <2>2 DEF Confirmed
  <2>3. CASE feed[v] # <<>> /\ feed'[v] = Tail(feed[v])
    <3>1. \A i \in DOMAIN feed'[v] :
            i + 1 \in DOMAIN feed[v] /\ feed'[v][i] = feed[v][i + 1]
      BY <1>1, <2>3
    <3>2. feed'[v] \in Seq(Reports)
      BY <1>1, <2>3
    <3> QED BY <1>2, <2>0, <3>1, <3>2 DEF Confirmed
  <2> QED BY <1>1, <2>1, <2>2, <2>3 DEF OpenSocket, CloseSocket, Recv
<1>4. feed' \in [Workers -> Seq(Reports)]
  BY <1>1, <1>3 DEF OpenSocket, CloseSocket, Recv
<1>5. old' \subseteq Orders
  BY DEF OpenSocket, CloseSocket, Recv, ExchangeInv, ExchangeTypeOK
<1> QED BY <1>1, <1>2, <1>3, <1>4, <1>5
        DEF ExchangeInv, ExchangeTypeOK, LegsEndTogether, ExGrows

LEMMA ExchangeKeeps ==
  ASSUME ExchangeInv, UNCHANGED exchangeVars
  PROVE  ExchangeInv' /\ ExGrows
BY DEF ExchangeInv, ExchangeTypeOK, LegsEndTogether, Confirmed, ExGrows,
       exchangeVars

-----------------------------------------------------------------------------
(* new_order_* *)

LEMMA CreateRowsHonest ==
  ASSUME StoreInv, PlacementInv, NEW p \in Procs, NEW legs \in Placements,
         CreateRows(p, legs), UNCHANGED <<bot, late, ex>>
  PROVE  StoreInv' /\ PlacementInv'
<1>1. StoreTypeOK'
  BY DEF StoreInv, StoreTypeOK, CreateRows, InsertRows, NewRow, Rows,
         Statuses, CallbackStatuses
<1>2. ASSUME NEW o \in Orders PROVE Honest(o, row[o])'
  <2>1. Honest(o, row[o])
    BY DEF StoreInv
  <2> QED BY <2>1 DEF CreateRows, InsertRows, NewRow, Honest, Confirmed, Terminal
<1>3. legs \in Seq(Orders)
  BY LegsOfPlacement
<1>4. PlacementInv'
  BY <1>3 DEF PlacementInv, PlacementTypeOK, PlaceRecords, CreateRows
<1> QED BY <1>1, <1>2, <1>4 DEF StoreInv

(* The process leaves new_order_*, normally, by an exception or by dying.   *)
LEMMA PlacementEnds ==
  ASSUME PlacementInv, NEW p \in Procs, UNCHANGED late,
         place' = [place EXCEPT ![p] = NotPlacing]
  PROVE  PlacementInv'
BY DEF PlacementInv, PlacementTypeOK, PlaceRecords, NotPlacing

(* The call to the exchange and its three outcomes.                         *)
LEMMA PlacementCalls ==
  ASSUME ExchangeInv, PlacementInv, NEW p \in Procs,
         CallAccepted(p) \/ CallRejected(p) \/ CallAnswerLost(p)
  PROVE  ExchangeInv' /\ PlacementInv' /\ ExGrows
<1>1. place[p].pc = "call" /\ place[p].legs \in Placements
  BY DEF PlacementInv, CallAccepted, CallRejected, CallAnswerLost
<1>2. /\ place[p].legs \in Seq(Orders)
      /\ \A i \in DOMAIN place[p].legs : place[p].legs[i] \in Orders
  BY <1>1, LegsOfPlacement
<1>3. CASE CallAccepted(p)
  BY <1>1, <1>3, AcceptTrue, PlacementEnds DEF CallAccepted
<1>4. place' = [place EXCEPT ![p].pc = "error"] /\ late' \subseteq Orders
        => PlacementInv'
  BY DEF PlacementInv, PlacementTypeOK, PlaceRecords
<1>5. CASE CallRejected(p)
  <2>1. late' \subseteq Orders
    BY <1>5 DEF PlacementInv, PlacementTypeOK, CallRejected
  <2> QED BY <1>4, <1>5, <2>1, ExchangeKeeps DEF CallRejected
<1>6. CASE CallAnswerLost(p)
  <2>1. late' \subseteq Orders
    BY <1>2, <1>6 DEF PlacementInv, PlacementTypeOK, CallAnswerLost
  <2> QED BY <1>1, <1>4, <1>6, <2>1, AcceptTrue DEF CallAnswerLost
<1> QED BY <1>3, <1>5, <1>6

(* on_error_order writes ERROR, which is not a final status.                *)
LEMMA OnErrorHonest ==
  ASSUME StoreInv, PlacementInv, NEW p \in Procs, OnErrorOrder(p),
         UNCHANGED <<bot, ex, late>>
  PROVE  StoreInv' /\ PlacementInv'
<1> DEFINE r == [NewRow EXCEPT !.status = "ERROR"]
<1>1. /\ place[p].legs \in Seq(Orders) /\ place[p].legs # <<>>
      /\ place[p].pc = "error"
  BY DEF PlacementInv, PlacementTypeOK, PlaceRecords, OnErrorOrder
<1>2. r \in Rows /\ \A o : Honest(o, r)
  BY DEF NewRow, Rows, Statuses, CallbackStatuses, Honest, Confirmed, Terminal
<1>3. Write(Head(place[p].legs), r)
  BY DEF OnErrorOrder, SaveAll
<1> HIDE DEF r
<1>4. StoreInv'
  BY <1>2, <1>3, WriteHonest
<1>5. Tail(place[p].legs) \in Seq(Orders)
  BY <1>1
<1>6. PlacementInv'
  BY <1>1, <1>5 DEF PlacementInv, PlacementTypeOK, PlaceRecords, OnErrorOrder
<1> QED BY <1>4, <1>6

-----------------------------------------------------------------------------
(* cancel_order and its loops *)

(* Objects read now are honest copies of their rows.                        *)
LEMMA SnapshotHonest ==
  ASSUME StoreInv, NEW S
  PROVE  /\ Snapshot(S) \in [Orders -> Rows]
         /\ \A o \in Orders : Honest(o, Snapshot(S)[o])
<1>1. row \in [Orders -> Rows] /\ \A o \in Orders : Honest(o, row[o])
  BY DEF StoreInv, StoreTypeOK
<1> QED BY <1>1, NoRowHonest DEF Snapshot

(* One process gets a new, sound record; the others only see ex grow.       *)
LEMMA CancelMoves ==
  ASSUME CancelInv, ExGrows, NEW p \in Procs, NEW c \in CancelRecords,
         CancelOK(c)', cancel' = [cancel EXCEPT ![p] = c]
  PROVE  CancelInv'
<1>1. \A q \in Procs : cancel[q] \in CancelRecords /\ CancelOK(cancel[q])
  BY DEF CancelInv, CancelTypeOK
<1>2. CancelTypeOK'
  BY DEF CancelInv, CancelTypeOK
<1>3. ASSUME NEW q \in Procs PROVE CancelOK(cancel[q])'
  <2>1. CASE q = p
    BY <2>1 DEF CancelInv, CancelTypeOK, CancelOK, Honest, Confirmed
  <2>2. CASE q # p
    <3>1. cancel'[q] = cancel[q]
      BY <2>2 DEF CancelInv, CancelTypeOK
    <3> QED BY <1>1, <3>1, CancelOKGrows DEF CancelOK, Honest, Confirmed
  <2> QED BY <2>1, <2>2
<1> QED BY <1>2, <1>3 DEF CancelInv

(* A loop about to take its next object.                                    *)
LEMMA LoopSound ==
  ASSUME NEW snap \in [Orders -> Rows],
         \A o \in Orders : Honest(o, snap[o])
  PROVE  LoopWith(snap) \in CancelRecords /\ CancelOK(LoopWith(snap))
BY NoRowHonest, OrdersAssumption
DEF LoopWith, NotCancelling, NoSnapshot, CancelRecords, CancelOK

LEMMA AdvanceSound ==
  ASSUME CancelInv, NEW p \in Procs, NEW o
  PROVE  Advance(p, o) \in CancelRecords /\ CancelOK(Advance(p, o))
<1>1. /\ cancel[p].snap \in [Orders -> Rows]
      /\ \A q \in Orders : Honest(q, cancel[p].snap[q])
  BY DEF CancelInv, CancelTypeOK, CancelRecords, CancelOK
<1>2. /\ [cancel[p].snap EXCEPT ![o] = NoRow] \in [Orders -> Rows]
      /\ \A q \in Orders :
           Honest(q, [cancel[p].snap EXCEPT ![o] = NoRow][q])
  BY <1>1, NoRowHonest
<1> QED BY <1>2, LoopSound DEF Advance

LEMMA NotCancellingSound ==
  NotCancelling \in CancelRecords /\ CancelOK(NotCancelling)
BY NoRowHonest DEF NotCancelling, NoSnapshot, CancelRecords, CancelOK

(* The loop starts, or the record is cleared.                               *)
LEMMA LoopStarts ==
  ASSUME CancelInv, NEW p \in Procs, NEW c \in CancelRecords, CancelOK(c),
         cancel' = [cancel EXCEPT ![p] = c], ExGrows
  PROVE  CancelInv'
BY CancelOKGrows, CancelMoves

LEMMA CancelClears ==
  ASSUME CancelInv, NEW p \in Procs, ExGrows,
         cancel' = [cancel EXCEPT ![p] = NotCancelling]
  PROVE  CancelInv'
BY NotCancellingSound, LoopStarts

(* A step of cancel_order: what it saves is an honest, perhaps old, object. *)
LEMMA CancelSteps ==
  ASSUME StoreInv, ExchangeInv, CancelInv, NEW p \in Procs, CancelStep(p)
  PROVE  StoreInv' /\ ExchangeInv' /\ CancelInv' /\ ExGrows
<1> DEFINE c == cancel[p]
<1>1. c \in CancelRecords /\ CancelOK(c)
  BY DEF CancelInv, CancelTypeOK
<1>2. row \in [Orders -> Rows] /\ \A o \in Orders : Honest(o, row[o])
  BY DEF StoreInv, StoreTypeOK
<1>3. CASE Reload(p)
  <2>1. /\ UNCHANGED <<storeVars, exchangeVars>> /\ ExGrows
        /\ StoreInv' /\ ExchangeInv'
    BY <1>3, ExchangeKeeps, StoreKeeps DEF Reload
  <2>2. PICK o \in Listed(p) :
          cancel' = [cancel EXCEPT ![p] =
            IF row[o].status # "ACTIVE" THEN Advance(p, o)
            ELSE [c EXCEPT !.pc = IF HasOco(o) THEN "peer" ELSE "own",
                           !.o = o]]
    BY <1>3 DEF Reload
  <2>3. CASE row[o].status # "ACTIVE"
    BY <2>1, <2>2, <2>3, AdvanceSound, LoopStarts
  <2>4. CASE row[o].status = "ACTIVE"
    <3> DEFINE d == [c EXCEPT !.pc = IF HasOco(o) THEN "peer" ELSE "own",
                              !.o = o]
    <3>1. d \in CancelRecords /\ CancelOK(d)
      <4>1. o \in Orders /\ ex[o] # "none"
        BY <1>2, <2>4 DEF Honest, Confirmed, Listed
      <4> QED BY <1>1, <4>1 DEF CancelRecords, CancelOK
    <3>2. cancel' = [cancel EXCEPT ![p] = d]
      BY <2>2, <2>4
    <3> HIDE DEF d
    <3> QED BY <2>1, <3>1, <3>2, LoopStarts
  <2> QED BY <2>1, <2>3, <2>4
<1>4. CASE FetchPeer(p)
  <2>1. /\ UNCHANGED <<storeVars, exchangeVars>> /\ ExGrows
        /\ StoreInv' /\ ExchangeInv'
    BY <1>4, ExchangeKeeps, StoreKeeps DEF FetchPeer
  <2> DEFINE d == [c EXCEPT !.pc = "savepeer", !.peer = row[Oco[c.o]]]
  <2>2. cancel' = [cancel EXCEPT ![p] = d]
    BY <1>4 DEF FetchPeer, CancelInv, CancelTypeOK
  <2>3. /\ HasOco(c.o) /\ c.o \in Orders /\ Oco[c.o] \in Orders
        /\ ex[c.o] # "none"
    BY <1>1, <1>4, OcoAssumption DEF FetchPeer, CancelOK, HasOco
  <2>4. d \in CancelRecords /\ CancelOK(d)
    BY <1>1, <1>2, <2>3 DEF CancelRecords, CancelOK
  <2> HIDE DEF d
  <2> QED BY <2>1, <2>2, <2>4, LoopStarts
<1>5. CASE SavePeer(p)
  <2>1. /\ UNCHANGED <<bot, exchangeVars>> /\ UNCHANGED ex
        /\ ExGrows /\ ExchangeInv'
    BY <1>5, ExchangeKeeps DEF SavePeer, exchangeVars
  <2>2. HasOco(c.o) /\ c.peer \in Rows /\ Honest(Oco[c.o], c.peer)
        /\ c.o \in Orders /\ ex[c.o] # "none"
    BY <1>1, <1>5 DEF SavePeer, CancelOK, CancelRecords
  <2>3. StoreInv'
    <3>1. /\ [c.peer EXCEPT !.cb = "CANCELED"] \in Rows
          /\ Honest(Oco[c.o], [c.peer EXCEPT !.cb = "CANCELED"])
      BY <2>2, CallbackHonest DEF CallbackStatuses
    <3> QED BY <1>5, <2>1, <3>1, WriteHonest DEF SavePeer, SaveAll
  <2> DEFINE d == [c EXCEPT !.pc = "own", !.peer = NoRow]
  <2>4. cancel' = [cancel EXCEPT ![p] = d]
    BY <1>5 DEF SavePeer, CancelInv, CancelTypeOK
  <2>5. d \in CancelRecords /\ CancelOK(d)
    BY <1>1, <2>2, NoRowHonest DEF CancelRecords, CancelOK
  <2> HIDE DEF d
  <2> QED BY <2>1, <2>3, <2>4, <2>5, LoopStarts
<1>6. CASE SaveOwn(p)
  <2>1. /\ UNCHANGED <<bot, exchangeVars>> /\ UNCHANGED ex
        /\ ExGrows /\ ExchangeInv'
    BY <1>6, ExchangeKeeps DEF SaveOwn, exchangeVars
  <2>2. /\ c.o \in Orders /\ c.snap[c.o] \in Rows /\ Honest(c.o, c.snap[c.o])
        /\ ex[c.o] # "none"
    BY <1>1, <1>6 DEF SaveOwn, CancelOK, CancelRecords
  <2>3. StoreInv'
    <3>1. /\ [c.snap[c.o] EXCEPT !.cb = "CANCELED"] \in Rows
          /\ Honest(c.o, [c.snap[c.o] EXCEPT !.cb = "CANCELED"])
      BY <2>2, CallbackHonest DEF CallbackStatuses
    <3> QED BY <1>6, <2>1, <3>1, WriteHonest DEF SaveOwn, SaveAll
  <2> DEFINE d == [c EXCEPT !.pc = "call"]
  <2>4. cancel' = [cancel EXCEPT ![p] = d]
    BY <1>6 DEF SaveOwn, CancelInv, CancelTypeOK
  <2>5. d \in CancelRecords /\ CancelOK(d)
    BY <1>1, <2>2 DEF CancelRecords, CancelOK
  <2> HIDE DEF d
  <2> QED BY <2>1, <2>3, <2>4, <2>5, LoopStarts
<1>7. CASE CancelCall(p)
  <2>1. c.o \in Orders
    BY <1>1, <1>7 DEF CancelCall, CancelOK
  <2>2. ExchangeInv' /\ ExGrows
    BY <1>7, <2>1, CancelAtExchangeTrue, ExchangeKeeps DEF CancelCall
  <2>3. StoreInv'
    BY <1>7, <2>2, StoreKeeps DEF CancelCall
  <2>4. CancelInv'
    BY <1>7, <2>2, AdvanceSound, LoopStarts DEF CancelCall
  <2> QED BY <2>2, <2>3, <2>4
<1> QED BY <1>3, <1>4, <1>5, <1>6, <1>7 DEF CancelStep

(* The call raises; the caller goes on with a sound record or none.         *)
LEMMA CancelRaisesTrue ==
  ASSUME StoreInv, ExchangeInv, CancelInv, NEW p \in Procs,
         NEW next \in CancelRecords, CancelOK(next), CancelRaises(p, next)
  PROVE  StoreInv' /\ ExchangeInv' /\ CancelInv' /\ ExGrows
<1>1. cancel[p].o \in Orders
  BY DEF CancelRaises, CancelInv, CancelOK
<1>2. ExchangeInv' /\ ExGrows
  BY <1>1, CancelAtExchangeTrue, ExchangeKeeps DEF CancelRaises
<1>3. StoreInv'
  BY <1>2, StoreKeeps DEF CancelRaises
<1>4. CancelInv'
  BY <1>2, LoopStarts DEF CancelRaises
<1> QED BY <1>2, <1>3, <1>4

-----------------------------------------------------------------------------
(* Workers: the record of one worker *)

(* A record that is sound stays sound while ex grows.                       *)
LEMMA WorkerOKGrows ==
  ASSUME ExGrows, NEW k \in WorkerRecords, WorkerOK(k)
  PROVE  WorkerOK(k)'
BY DEF WorkerOK, ExGrows, Honest, Confirmed, Terminal, Calling, Handling

LEMMA WkOf ==
  ASSUME WorkerInv, NEW w \in Workers
  PROVE  /\ wk[w] \in WorkerRecords /\ WorkerOK(wk[w])
         /\ wk \in [Workers -> WorkerRecords]
         /\ wk[w].pc \in WorkerPcs /\ wk[w].o \in Orders \cup {None}
         /\ wk[w].s \in {"NONE", "ACTIVE"} \cup Terminal
         /\ wk[w].mem \in Rows /\ wk[w].actmem \in Rows
         /\ wk[w].act \in Orders \cup {None}
BY DEF WorkerInv, CallbackTypeOK, WorkerRecords

(* One worker gets a sound record, and the lists of reports and the counts  *)
(* are sound too.                                                           *)
LEMMA WorkerSets ==
  ASSUME WorkerInv, ExGrows, NEW w \in Workers,
         NEW k \in WorkerRecords, WorkerOK(k), wk' = [wk EXCEPT ![w] = k],
         todo' \in [Workers -> SUBSET Reports],
         \A v \in Workers : \A r \in todo'[v] : Confirmed(r.o, r.s)',
         runs' \in [Orders -> Nat],
         \A o \in Orders : runs'[o] > 0 => ex'[o] \in Terminal,
         lost' \subseteq Orders
  PROVE  WorkerInv'
<1>1. CallbackTypeOK'
  BY DEF WorkerInv, CallbackTypeOK
<1>2. ASSUME NEW v \in Workers PROVE WorkerOK(wk[v])'
  <2>1. wk[v] \in WorkerRecords /\ WorkerOK(wk[v])
    BY WkOf
  <2>2. CASE v = w
    <3>1. wk'[v] = k
      BY <2>2, WkOf
    <3>2. WorkerOK(k)'
      BY WorkerOKGrows
    <3> QED BY <3>1, <3>2 DEF WorkerOK, Honest, Confirmed
  <2>3. CASE v # w
    <3>1. wk'[v] = wk[v]
      BY <2>3, WkOf
    <3> QED BY <2>1, <3>1, WorkerOKGrows DEF WorkerOK, Honest, Confirmed
  <2> QED BY <2>2, <2>3
<1> QED BY <1>1, <1>2 DEF WorkerInv

(* The usual case: only wk[w] is written.                                   *)
LEMMA WorkerMoves ==
  ASSUME WorkerInv, ExGrows, NEW w \in Workers,
         NEW k \in WorkerRecords, WorkerOK(k), wk' = [wk EXCEPT ![w] = k],
         UNCHANGED <<todo, runs>>, lost' \subseteq Orders
  PROVE  WorkerInv'
<1>1. ASSUME NEW v \in Workers, NEW r \in todo'[v] PROVE Confirmed(r.o, r.s)'
  <2>1. r \in todo[v] /\ r \in Reports
    BY <1>1 DEF WorkerInv, CallbackTypeOK
  <2> QED BY <2>1 DEF WorkerInv, ExGrows, Confirmed, Terminal, Reports
<1>2. \A o \in Orders : runs'[o] > 0 => ex'[o] \in Terminal
  BY DEF WorkerInv, ExGrows
<1>3. todo' \in [Workers -> SUBSET Reports] /\ runs' \in [Orders -> Nat]
  BY DEF WorkerInv, CallbackTypeOK
<1> QED BY <1>1, <1>2, <1>3, WorkerSets

LEMMA AtPcSound ==
  ASSUME NEW pc \in {"down", "opened", "list", "ready"}
  PROVE  AtPc(pc) \in WorkerRecords /\ WorkerOK(AtPc(pc))
BY NoRowHonest
DEF AtPc, WorkerRecords, WorkerPcs, WorkerOK, Handling, Calling

LEMMA ReturnMoves ==
  ASSUME WorkerInv, ExGrows, NEW w \in Workers, Return(w),
         UNCHANGED <<todo, runs>>, lost' \subseteq Orders
  PROVE  WorkerInv'
<1>1. AtPc("ready") \in WorkerRecords /\ WorkerOK(AtPc("ready"))
  BY AtPcSound
<1> QED BY <1>1, WorkerMoves DEF Return

(* Going on to pc inside a callback needs nothing new.                      *)
LEMMA CallingMoves ==
  ASSUME WorkerInv, ExGrows, NEW w \in Workers, wk[w].pc \in Calling,
         NEW pc \in Calling \ {"pass"}, Goto(w, pc),
         UNCHANGED <<todo, runs, lost>>
  PROVE  WorkerInv'
<1> DEFINE k == [wk[w] EXCEPT !.pc = pc]
<1>1. k \in WorkerRecords /\ WorkerOK(k)
  BY WkOf DEF WorkerRecords, WorkerPcs, WorkerOK, Calling, Handling
<1>2. wk' = [wk EXCEPT ![w] = k]
  BY WkOf DEF Goto
<1>3. lost' \subseteq Orders
  BY DEF WorkerInv, CallbackTypeOK
<1> HIDE DEF k
<1> QED BY <1>1, <1>2, <1>3, WorkerMoves

(* A report put in hand together with the object of its order.              *)
LEMMA InHandSound ==
  ASSUME StoreInv, NEW o \in Orders, NEW s \in {"ACTIVE"} \cup Terminal,
         Confirmed(o, s)
  PROVE  LET m == WithResult(row[o], s)
             k == [AtPc("save") EXCEPT !.o = o, !.s = s, !.mem = m]
             g == [AtPc("save") EXCEPT !.o = o, !.s = s, !.guarded = TRUE,
                                       !.mem = m]
         IN  /\ k \in WorkerRecords /\ WorkerOK(k)
             /\ g \in WorkerRecords /\ WorkerOK(g)
<1>1. row[o] \in Rows /\ Honest(o, row[o])
  BY DEF StoreInv, StoreTypeOK
<1> DEFINE m == WithResult(row[o], s)
           k == [AtPc("save") EXCEPT !.o = o, !.s = s, !.mem = m]
           g == [AtPc("save") EXCEPT !.o = o, !.s = s, !.guarded = TRUE,
                                     !.mem = m]
<1>2. m \in Rows /\ Honest(o, m)
  BY <1>1, ResultHonest
<1> HIDE DEF m
<1>3. k \in WorkerRecords /\ WorkerOK(k)
  <2>1. k \in WorkerRecords
    BY <1>2, NoRowHonest DEF AtPc, WorkerRecords, WorkerPcs
  <2>2. k.pc = "save" /\ k.o = o /\ k.s = s /\ k.mem = m
    BY DEF AtPc
  <2> HIDE DEF k
  <2> QED BY <1>2, <2>1, <2>2 DEF WorkerOK, Handling, Calling, Terminal
<1>4. g \in WorkerRecords /\ WorkerOK(g)
  <2>1. g \in WorkerRecords
    BY <1>2, NoRowHonest DEF AtPc, WorkerRecords, WorkerPcs
  <2>2. g.pc = "save" /\ g.o = o /\ g.s = s /\ g.mem = m
    BY DEF AtPc
  <2> HIDE DEF g
  <2> QED BY <1>2, <2>1, <2>2 DEF WorkerOK, Handling, Calling, Terminal
<1> QED BY <1>3, <1>4 DEF m

-----------------------------------------------------------------------------
(* Workers: the steps *)

(* Everything but the tables and the workers is left alone.                 *)
LEMMA Quiet ==
  ASSUME ExchangeInv, PlacementInv, CancelInv,
         UNCHANGED <<exchangeVars, others>>
  PROVE  /\ ExchangeInv' /\ PlacementInv' /\ CancelInv'
         /\ ExGrows /\ UNCHANGED ex
<1>1. ExchangeInv' /\ ExGrows
  BY ExchangeKeeps
<1>2. UNCHANGED placementVars /\ UNCHANGED cancel
  BY DEF others
<1> QED BY <1>1, <1>2, PlacementKeeps, CancelKeeps DEF exchangeVars

(* The tables change in the bot's status or in updated_at only.             *)
LEMMA StoreBeside ==
  ASSUME StoreInv, ExGrows, UNCHANGED row, bot' \in BotStatuses,
         fresh' \in [Workers -> SUBSET Orders]
  PROVE  StoreInv'
<1>1. \A o \in Orders : Honest(o, row[o])
  BY DEF StoreInv
<1> QED BY <1>1
        DEF StoreInv, StoreTypeOK, ExGrows, Honest, Confirmed, Terminal

LEMMA StoreFacts ==
  ASSUME StoreInv
  PROVE  /\ row \in [Orders -> Rows] /\ bot \in BotStatuses
         /\ fresh \in [Workers -> SUBSET Orders]
         /\ \A o \in Orders : Honest(o, row[o])
BY DEF StoreInv, StoreTypeOK

LEMMA LostKeeps ==
  ASSUME WorkerInv, UNCHANGED lost PROVE lost' \subseteq Orders
BY DEF WorkerInv, CallbackTypeOK

(* The record changes its pc; what else it must satisfy is given.           *)
LEMMA PcMoves ==
  ASSUME WorkerInv, ExGrows, NEW w \in Workers, NEW pc \in WorkerPcs,
         Goto(w, pc), UNCHANGED <<todo, runs, lost>>,
         WorkerOK([wk[w] EXCEPT !.pc = pc])
  PROVE  WorkerInv'
<1> DEFINE k == [wk[w] EXCEPT !.pc = pc]
<1>1. k \in WorkerRecords
  BY WkOf DEF WorkerRecords
<1>2. wk' = [wk EXCEPT ![w] = k]
  BY WkOf DEF Goto
<1> HIDE DEF k
<1>3. WorkerOK(k)
  BY DEF k
<1> QED BY <1>1, <1>2, <1>3, LostKeeps, WorkerMoves

(* The callback of an order that is over is started or skipped.             *)
LEMMA ExecuteMoves ==
  ASSUME WorkerInv, ExGrows, NEW w \in Workers, wk[w].pc \in {"bot", "pass"},
         NEW act \in Orders, ex[act] \in Terminal, NEW r \in Rows,
         Execute(w, act, r), UNCHANGED <<todo, runs, lost>>
  PROVE  WorkerInv'
<1> DEFINE k == [wk[w] EXCEPT !.pc = "start", !.act = act, !.actmem = r]
<1>1. wk[w] \in WorkerRecords /\ WorkerOK(wk[w])
  BY WkOf
<1>2. k \in WorkerRecords
  BY <1>1 DEF WorkerRecords, WorkerPcs
<1>3. k.pc = "start" /\ k.act = act /\ k.o = wk[w].o /\ k.s = wk[w].s
      /\ k.mem = wk[w].mem
  BY <1>1 DEF WorkerRecords
<1>4. wk' = [wk EXCEPT ![w] = k] \/ wk' = [wk EXCEPT ![w] = AtPc("ready")]
  BY WkOf DEF Execute
<1> HIDE DEF k
<1>5. WorkerOK(k)
  BY <1>1, <1>3 DEF WorkerOK, Handling, Calling
<1> QED BY <1>2, <1>4, <1>5, LostKeeps, AtPcSound, WorkerMoves

(* Start, synchronisation and the reading of reports.                       *)
LEMMA ReadingSteps ==
  ASSUME StoreInv, ExchangeInv, PlacementInv, CancelInv, WorkerInv,
         NEW w \in Workers,
         \/ Connect(w) \/ TakeTimeStart(w) \/ GetAllOrders(w)
         \/ CompareEntry(w) \/ HandleReport(w) \/ DropExpired(w)
         \/ LoseReport(w)
  PROVE  StoreInv' /\ ExchangeInv' /\ PlacementInv' /\ CancelInv' /\ WorkerInv'
<1>1. CASE Connect(w)
  <2>1. ExchangeInv' /\ ExGrows
    BY <1>1, SocketMoves DEF Connect
  <2>2. UNCHANGED <<storeVars, placementVars, cancel, todo, runs, lost>>
    BY <1>1 DEF Connect, others
  <2>3. WorkerOK([wk[w] EXCEPT !.pc = "opened"])
    BY WkOf DEF WorkerRecords, WorkerOK, Handling, Calling
  <2>4. WorkerInv'
    BY <1>1, <2>1, <2>2, <2>3, PcMoves DEF Connect, WorkerPcs
  <2> QED BY <2>1, <2>2, <2>4, StoreKeeps, PlacementKeeps, CancelKeeps
<1>2. CASE TakeTimeStart(w)
  <2>1. /\ ExchangeInv' /\ PlacementInv' /\ CancelInv' /\ ExGrows
    BY <1>2, Quiet DEF TakeTimeStart
  <2>2. StoreInv'
    BY <1>2, <2>1, StoreFacts, StoreBeside DEF TakeTimeStart
  <2>3. WorkerOK([wk[w] EXCEPT !.pc = "list"])
    BY WkOf DEF WorkerRecords, WorkerOK, Handling, Calling
  <2>4. WorkerInv'
    BY <1>2, <2>1, <2>3, PcMoves DEF TakeTimeStart, WorkerPcs
  <2> QED BY <2>1, <2>2, <2>4
<1>3. CASE GetAllOrders(w)
  <2>1. /\ ExchangeInv' /\ PlacementInv' /\ CancelInv' /\ ExGrows
        /\ UNCHANGED ex
    BY <1>3, Quiet DEF GetAllOrders
  <2>2. StoreInv'
    BY <1>3, <2>1, StoreFacts, StoreBeside DEF GetAllOrders
  <2>3. /\ History \in SUBSET Reports
        /\ \A r \in History : Confirmed(r.o, r.s)'
    <3>1. ex \in [Orders -> ExchangeStatuses]
      BY DEF ExchangeInv, ExchangeTypeOK
    <3>2. ASSUME NEW o \in Compared
          PROVE  LET r == Report(o, IF ex[o] = "live" THEN "ACTIVE" ELSE ex[o])
                 IN  r \in Reports /\ Confirmed(r.o, r.s)'
      BY <2>1, <3>1
      DEF Compared, Report, Reports, ExchangeStatuses, OnBook, Confirmed,
          Terminal
    <3>3. ASSUME NEW r \in History PROVE r \in Reports /\ Confirmed(r.o, r.s)'
      <4>1. PICK o \in Compared :
              r = Report(o, IF ex[o] = "live" THEN "ACTIVE" ELSE ex[o])
        BY DEF History
      <4>2. LET q == Report(o, IF ex[o] = "live" THEN "ACTIVE" ELSE ex[o])
            IN  q \in Reports /\ Confirmed(q.o, q.s)'
        BY <3>2
      <4> QED BY <2>1, <4>1, <4>2 DEF Confirmed
    <3> QED BY <3>3
  <2>4. todo' = [todo EXCEPT ![w] = History]
    BY <1>3 DEF GetAllOrders
  <2>5. /\ todo' \in [Workers -> SUBSET Reports]
        /\ \A v \in Workers : \A r \in todo'[v] : Confirmed(r.o, r.s)'
    <3>1. todo \in [Workers -> SUBSET Reports]
      BY DEF WorkerInv, CallbackTypeOK
    <3>2. \A v \in Workers : \A r \in todo[v] : Confirmed(r.o, r.s)
      BY DEF WorkerInv
    <3> QED BY <2>1, <2>3, <2>4, <3>1, <3>2 DEF Confirmed
  <2> DEFINE k == [wk[w] EXCEPT !.pc = "ready"]
  <2>6. k \in WorkerRecords /\ WorkerOK(k)
    BY WkOf DEF WorkerRecords, WorkerPcs, WorkerOK, Handling, Calling
  <2>7. wk' = [wk EXCEPT ![w] = k]
    BY <1>3, WkOf DEF GetAllOrders, Goto
  <2>8. /\ runs' \in [Orders -> Nat] /\ lost' \subseteq Orders
        /\ \A o \in Orders : runs'[o] > 0 => ex'[o] \in Terminal
    BY <1>3, <2>1 DEF GetAllOrders, WorkerInv, CallbackTypeOK
  <2> HIDE DEF k
  <2> QED BY <2>1, <2>2, <2>5, <2>6, <2>7, <2>8, WorkerSets
<1>4. CASE CompareEntry(w)
  <2>1. /\ ExchangeInv' /\ PlacementInv' /\ CancelInv' /\ ExGrows
        /\ UNCHANGED ex
    BY <1>4, Quiet DEF CompareEntry
  <2>2. PICK r \in todo[w] :
          /\ todo' = [todo EXCEPT ![w] = @ \ {r}]
          /\ IF row[r.o].status = r.s
             THEN /\ fresh' = [fresh EXCEPT ![w] = @ \ {r.o}]
                  /\ UNCHANGED wk
             ELSE /\ wk' = [wk EXCEPT ![w] =
                       [AtPc("save") EXCEPT !.o = r.o, !.s = r.s,
                          !.guarded = TRUE, !.mem = WithResult(row[r.o], r.s)]]
                  /\ UNCHANGED fresh
    BY <1>4 DEF CompareEntry
  <2>3. StoreInv'
    BY <1>4, <2>1, <2>2, StoreFacts, StoreBeside DEF CompareEntry
  <2>4. todo \in [Workers -> SUBSET Reports] /\ lost \subseteq Orders
    BY DEF WorkerInv, CallbackTypeOK
  <2>5. /\ todo' \in [Workers -> SUBSET Reports]
        /\ \A v \in Workers : \A x \in todo'[v] : Confirmed(x.o, x.s)'
    <3>1. \A v \in Workers : \A x \in todo[v] : Confirmed(x.o, x.s)
      BY DEF WorkerInv
    <3> QED BY <2>1, <2>2, <2>4, <3>1 DEF Confirmed
  <2>6. /\ runs' \in [Orders -> Nat] /\ lost' \subseteq Orders
        /\ \A o \in Orders : runs'[o] > 0 => ex'[o] \in Terminal
    BY <1>4, <2>1 DEF CompareEntry, WorkerInv, CallbackTypeOK
  <2>7. r \in Reports /\ Confirmed(r.o, r.s)
    BY <2>4 DEF WorkerInv
  <2>8. PICK k \in WorkerRecords :
          WorkerOK(k) /\ wk' = [wk EXCEPT ![w] = k]
    <3>1. CASE row[r.o].status = r.s
      BY <2>2, <3>1, WkOf
    <3>2. CASE row[r.o].status # r.s
      BY <2>2, <2>7, <3>2, InHandSound DEF Reports
    <3> QED BY <3>1, <3>2
  <2> QED BY <2>1, <2>3, <2>5, <2>6, <2>8, WorkerSets
<1>5. CASE HandleReport(w)
  <2>1. ExchangeInv' /\ ExGrows
    BY <1>5, SocketMoves DEF HandleReport
  <2>2. UNCHANGED <<storeVars, placementVars, cancel, todo, runs, lost>>
    BY <1>5 DEF HandleReport, others
  <2> DEFINE r == Head(feed[w])
  <2>3. r \in Reports /\ Confirmed(r.o, r.s)
    <3>1. feed[w] \in Seq(Reports) /\ feed[w] # <<>>
      BY <1>5 DEF HandleReport, Recv, ExchangeInv, ExchangeTypeOK
    <3>2. r = feed[w][1] /\ 1 \in DOMAIN feed[w]
      BY <3>1
    <3> QED BY <3>1, <3>2 DEF ExchangeInv
  <2>4. PICK k \in WorkerRecords :
          WorkerOK(k) /\ wk' = [wk EXCEPT ![w] = k]
    BY <1>5, <2>3, InHandSound DEF HandleReport, Reports
  <2>5. WorkerInv'
    BY <2>1, <2>2, <2>4, LostKeeps, WorkerMoves
  <2> QED BY <2>1, <2>2, <2>5, StoreKeeps, PlacementKeeps, CancelKeeps
<1>6. CASE DropExpired(w) \/ LoseReport(w)
  <2>1. ExchangeInv' /\ ExGrows
    BY <1>6, SocketMoves DEF DropExpired, LoseReport
  <2>2. UNCHANGED <<storeVars, placementVars, cancel, callbackVars>>
    BY <1>6 DEF DropExpired, LoseReport, others
  <2> QED BY <2>1, <2>2, StoreKeeps, PlacementKeeps, CancelKeeps, WorkerKeeps
<1> QED BY <1>1, <1>2, <1>3, <1>4, <1>5, <1>6

(* The status in hand is written over whatever the row is now.              *)
LEMMA SaveResultHonest ==
  ASSUME StoreInv, WorkerInv, NEW w \in Workers, wk[w].pc = "save",
         SaveResult(wk[w].o, wk[w].s), UNCHANGED <<bot, ex>>
  PROVE  StoreInv'
<1> DEFINE o == wk[w].o
           r == WithResult(row[o], wk[w].s)
<1>1. /\ o \in Orders /\ wk[w].s \in {"ACTIVE"} \cup Terminal
      /\ Confirmed(o, wk[w].s)
  BY WkOf DEF WorkerOK, Handling
<1>2. row[o] \in Rows /\ Honest(o, row[o])
  BY <1>1, StoreFacts
<1>3. r \in Rows /\ Honest(o, r)
  BY <1>1, <1>2, ResultHonest
<1>4. Write(o, r)
  BY DEF SaveResult
<1> HIDE DEF r
<1> QED BY <1>3, <1>4, WriteHonest

(* Another callback_status may be written at any time.                      *)
LEMMA SaveCallbackHonest ==
  ASSUME StoreInv, NEW o \in Orders, NEW c \in CallbackStatuses,
         SaveCallback(o, c), UNCHANGED <<bot, ex>>
  PROVE  StoreInv'
<1> DEFINE r == [row[o] EXCEPT !.cb = c]
<1>1. row[o] \in Rows /\ Honest(o, row[o])
  BY StoreFacts
<1>2. r \in Rows /\ Honest(o, r)
  BY <1>1, CallbackHonest
<1>3. Write(o, r)
  BY DEF SaveCallback
<1> HIDE DEF r
<1> QED BY <1>2, <1>3, WriteHonest

(* After the write the handler ends, or goes on with a status that is to be *)
(* dispatched.                                                              *)
LEMMA SavedMoves ==
  ASSUME WorkerInv, ExGrows, NEW w \in Workers, wk[w].pc = "save", Saved(w),
         UNCHANGED <<todo, runs, lost>>
  PROVE  WorkerInv'
<1> DEFINE k == [wk[w] EXCEPT !.pc = "bot"]
<1>1. CASE IgnoredCallback(wk[w].o, wk[w].s)
  BY <1>1, LostKeeps, ReturnMoves DEF Saved, Return
<1>2. CASE ~IgnoredCallback(wk[w].o, wk[w].s)
  <2>1. wk[w] \in WorkerRecords /\ WorkerOK(wk[w])
    BY WkOf
  <2>2. k \in WorkerRecords
    BY <2>1 DEF WorkerRecords, WorkerPcs
  <2>3. k.pc = "bot" /\ k.o = wk[w].o /\ k.s = wk[w].s /\ k.mem = wk[w].mem
    BY <2>1 DEF WorkerRecords
  <2>4. wk' = [wk EXCEPT ![w] = k]
    BY <1>2, WkOf DEF Saved
  <2> HIDE DEF k
  <2>5. WorkerOK(k)
    BY <1>2, <2>1, <2>3 DEF WorkerOK, Handling, Calling
  <2> QED BY <2>2, <2>4, <2>5, LostKeeps, WorkerMoves
<1> QED BY <1>1, <1>2

(* _callback_order up to the decision which callback is executed.           *)
LEMMA DispatchSteps ==
  ASSUME StoreInv, ExchangeInv, PlacementInv, CancelInv, WorkerInv,
         NEW w \in Workers,
         \/ SaveStatus(w) \/ GuardedUpdate(w) \/ GuardedUpdateMisses(w)
         \/ GuardedUpdateRerun(w) \/ ReadBot(w) \/ ReadPeer(w) \/ PassLeg(w)
  PROVE  StoreInv' /\ ExchangeInv' /\ PlacementInv' /\ CancelInv' /\ WorkerInv'
<1>1. UNCHANGED <<exchangeVars, others, bot, todo, runs>>
  BY DEF SaveStatus, GuardedUpdate, GuardedUpdateMisses, GuardedUpdateRerun,
         ReadBot, ReadPeer, PassLeg, storeVars
<1>2. /\ ExchangeInv' /\ PlacementInv' /\ CancelInv' /\ ExGrows
      /\ UNCHANGED ex
  BY <1>1, Quiet
<1>3. /\ wk[w] \in WorkerRecords /\ WorkerOK(wk[w]) /\ lost \subseteq Orders
  BY WkOf DEF WorkerInv, CallbackTypeOK
<1>4. CASE SaveStatus(w) \/ GuardedUpdate(w)
  <2>1. /\ wk[w].pc = "save" /\ SaveResult(wk[w].o, wk[w].s) /\ Saved(w)
        /\ UNCHANGED lost
    BY <1>4 DEF SaveStatus, GuardedUpdate, Holds
  <2> QED BY <1>1, <1>2, <2>1, SaveResultHonest, SavedMoves
<1>5. CASE GuardedUpdateMisses(w)
  <2>1. Return(w) /\ UNCHANGED <<storeVars, lost>>
    BY <1>5 DEF GuardedUpdateMisses
  <2> QED BY <1>1, <1>2, <2>1, LostKeeps, ReturnMoves, StoreKeeps
<1>6. CASE GuardedUpdateRerun(w)
  <2>1. /\ wk[w].pc = "save" /\ SaveResult(wk[w].o, wk[w].s) /\ Return(w)
        /\ lost' = lost \cup {wk[w].o}
    BY <1>6 DEF GuardedUpdateRerun, Holds
  <2>2. lost' \subseteq Orders
    BY <1>3, <2>1 DEF WorkerOK, Handling
  <2> QED BY <1>1, <1>2, <2>1, <2>2, SaveResultHonest, ReturnMoves
<1>7. CASE ReadBot(w)
  <2>1. wk[w].pc = "bot" /\ UNCHANGED storeVars /\ StoreInv'
    BY <1>2, <1>7, StoreKeeps DEF ReadBot, Holds
  <2>2. /\ wk[w].o \in Orders /\ wk[w].s # "NONE" /\ wk[w].mem \in Rows
        /\ Confirmed(wk[w].o, wk[w].s)
    BY <1>3, <2>1, WkOf DEF WorkerOK, Handling
  <2>3. CASE Return(w) /\ lost' \subseteq Orders
    BY <1>1, <1>2, <2>1, <2>3, ReturnMoves
  <2>4. CASE /\ wk[w].s # "ACTIVE" /\ HasOco(wk[w].o)
             /\ Goto(w, "oco") /\ UNCHANGED lost
    <3> DEFINE k == [wk[w] EXCEPT !.pc = "oco"]
    <3>1. k.pc = "oco" /\ k.o = wk[w].o /\ k.s = wk[w].s /\ k.mem = wk[w].mem
      BY <1>3 DEF WorkerRecords
    <3> HIDE DEF k
    <3>2. WorkerOK(k)
      BY <1>3, <2>1, <2>4, <3>1 DEF WorkerOK, Handling, Calling
    <3>3. WorkerInv'
      BY <1>1, <1>2, <2>4, <3>2, PcMoves DEF k, WorkerPcs
    <3> QED BY <1>2, <2>1, <3>3
  <2>5. CASE /\ wk[w].s # "ACTIVE" /\ Execute(w, wk[w].o, wk[w].mem)
             /\ UNCHANGED lost
    <3>1. ex[wk[w].o] \in Terminal
      BY <2>2, <2>5, WkOf DEF Confirmed
    <3> QED BY <1>1, <1>2, <2>1, <2>2, <2>5, <3>1, ExecuteMoves
  <2>6. (Return(w) /\ UNCHANGED lost) => lost' \subseteq Orders
    BY <1>3
  <2> QED BY <1>3, <1>7, <2>2, <2>3, <2>4, <2>5 DEF ReadBot
<1>8. CASE ReadPeer(w)
  <2>1. /\ wk[w].pc = "oco" /\ UNCHANGED <<storeVars, lost>> /\ StoreInv'
    BY <1>2, <1>8, StoreKeeps DEF ReadPeer, Holds
  <2> DEFINE peer == Oco[wk[w].o]
             k == [wk[w] EXCEPT !.pc = "pass", !.act = peer,
                                !.actmem = row[peer]]
  <2>2. /\ wk[w].o \in Orders /\ wk[w].s \in Terminal /\ HasOco(wk[w].o)
        /\ ex[wk[w].o] = wk[w].s /\ ~IgnoredCallback(wk[w].o, wk[w].s)
    BY <1>3, <2>1, WkOf DEF WorkerOK, Handling, Confirmed
  <2>3. peer \in Orders /\ ex[peer] \in Terminal /\ row[peer] \in Rows
    BY <2>2, OcoAssumption, StoreFacts
    DEF HasOco, IgnoredCallback, Terminal, ExchangeInv, LegsEndTogether
  <2>4. CASE row[peer].status = "ACTIVE"
    <3>1. Return(w)
      BY <1>8, <2>4 DEF ReadPeer, Return
    <3> QED BY <1>1, <1>2, <2>1, <3>1, LostKeeps, ReturnMoves
  <2>5. CASE row[peer].status # "ACTIVE"
    <3>1. k \in WorkerRecords
      BY <1>3, <2>3 DEF WorkerRecords, WorkerPcs
    <3>2. /\ k.pc = "pass" /\ k.o = wk[w].o /\ k.s = wk[w].s
          /\ k.mem = wk[w].mem /\ k.act = peer
      BY <1>3 DEF WorkerRecords
    <3>3. wk' = [wk EXCEPT ![w] = k]
      BY <1>8, <2>5, WkOf DEF ReadPeer
    <3> HIDE DEF k
    <3>4. WorkerOK(k)
      BY <1>3, <2>1, <2>3, <3>2 DEF WorkerOK, Handling, Calling
    <3> QED BY <1>1, <1>2, <2>1, <3>1, <3>3, <3>4, LostKeeps, WorkerMoves
  <2> QED BY <2>4, <2>5
<1>9. CASE PassLeg(w)
  <2>1. /\ wk[w].pc = "pass" /\ UNCHANGED lost
        /\ Execute(w, wk[w].act, wk[w].actmem)
    BY <1>9 DEF PassLeg, Holds
  <2>2. /\ wk[w].act \in Orders /\ ex[wk[w].act] \in Terminal
        /\ wk[w].mem \in Rows /\ wk[w].actmem \in Rows
        /\ Honest(wk[w].o, wk[w].mem)
    BY <1>3, <2>1, WkOf DEF WorkerOK, Handling, Calling
  <2>3. StoreInv'
    <3>1. /\ [wk[w].mem EXCEPT !.cb = "OCO_CANCELED"] \in Rows
          /\ Honest(wk[w].o, [wk[w].mem EXCEPT !.cb = "OCO_CANCELED"])
      BY <2>2, CallbackHonest DEF CallbackStatuses
    <3> QED BY <1>1, <1>2, <1>9, <3>1, WriteHonest DEF PassLeg, SaveAll
  <2> QED BY <1>1, <1>2, <2>1, <2>2, <2>3, ExecuteMoves
<1> QED BY <1>4, <1>5, <1>6, <1>7, <1>8, <1>9

(* A callback, from its first save to its last.                             *)
LEMMA CallbackSteps ==
  ASSUME StoreInv, ExchangeInv, PlacementInv, CancelInv, WorkerInv,
         NEW w \in Workers,
         \/ SaveStarted(w) \/ RunStop(w) \/ ListOpenOrders(w)
         \/ CancelOpenOrder(w) \/ OpenOrdersDone(w) \/ RunMethod(w)
         \/ PlaceInCallback(w) \/ SaveOutcome(w)
  PROVE  StoreInv' /\ ExchangeInv' /\ PlacementInv' /\ CancelInv' /\ WorkerInv'
<1>1. wk[w].pc \in Calling
  BY DEF SaveStarted, RunStop, ListOpenOrders, CancelOpenOrder,
         OpenOrdersDone, RunMethod, PlaceInCallback, SaveOutcome, Holds, Calling
<1>2. /\ wk[w] \in WorkerRecords /\ WorkerOK(wk[w])
      /\ wk[w].act \in Orders /\ ex[wk[w].act] \in Terminal /\ w \in Procs
  BY <1>1, WkOf DEF WorkerOK, Procs
<1>3. CASE SaveStarted(w)
  <2>1. UNCHANGED <<exchangeVars, others, bot, todo, lost>>
    BY <1>3 DEF SaveStarted
  <2>2. ExchangeInv' /\ PlacementInv' /\ CancelInv' /\ ExGrows /\ UNCHANGED ex
    BY <2>1, Quiet
  <2>3. StoreInv'
    BY <1>2, <1>3, <2>1, <2>2, SaveCallbackHonest
    DEF SaveStarted, CallbackStatuses
  <2> DEFINE k == [wk[w] EXCEPT !.pc = "run"]
  <2>4. k \in WorkerRecords /\ WorkerOK(k)
    BY <1>1, <1>2 DEF WorkerRecords, WorkerPcs, WorkerOK, Calling, Handling
  <2>5. wk' = [wk EXCEPT ![w] = k]
    BY <1>3, WkOf DEF SaveStarted, Goto
  <2>6. /\ runs' \in [Orders -> Nat] /\ lost' \subseteq Orders
        /\ \A o \in Orders : runs'[o] > 0 => ex'[o] \in Terminal
    BY <1>2, <1>3, <2>1, <2>2 DEF SaveStarted, WorkerInv, CallbackTypeOK
  <2>7. /\ todo' \in [Workers -> SUBSET Reports]
        /\ \A v \in Workers : \A r \in todo'[v] : Confirmed(r.o, r.s)'
    BY <2>1, <2>2 DEF WorkerInv, CallbackTypeOK, Confirmed
  <2> HIDE DEF k
  <2> QED BY <2>2, <2>3, <2>4, <2>5, <2>6, <2>7, WorkerSets
<1>4. CASE RunStop(w)
  <2>1. UNCHANGED <<exchangeVars, others, row, fresh, todo, runs, lost>>
    BY <1>4 DEF RunStop
  <2>2. ExchangeInv' /\ PlacementInv' /\ CancelInv' /\ ExGrows
    BY <2>1, Quiet
  <2>3. StoreInv'
    BY <1>4, <2>1, <2>2, StoreFacts, StoreBeside
    DEF RunStop, SaveBot, BotStatuses
  <2> QED BY <1>1, <1>4, <2>1, <2>2, <2>3, CallingMoves DEF RunStop, Calling
<1>5. CASE ListOpenOrders(w)
  <2>1. /\ UNCHANGED <<storeVars, exchangeVars, placementVars, todo, runs, lost>>
        /\ Goto(w, "loop")
    BY <1>5 DEF ListOpenOrders
  <2>2. ExchangeInv' /\ ExGrows
    BY <2>1, ExchangeKeeps
  <2>3. /\ LoopWith(Snapshot(ActiveOrders)) \in CancelRecords
        /\ CancelOK(LoopWith(Snapshot(ActiveOrders)))
    BY SnapshotHonest, LoopSound
  <2>4. CancelInv'
    BY <1>2, <1>5, <2>2, <2>3, LoopStarts DEF ListOpenOrders
  <2> QED BY <1>1, <2>1, <2>2, <2>4, StoreKeeps, PlacementKeeps, CallingMoves
          DEF Calling
<1>6. CASE CancelOpenOrder(w)
  <2>1. UNCHANGED <<placementVars, callbackVars>>
    BY <1>6 DEF CancelOpenOrder
  <2>2. StoreInv' /\ ExchangeInv' /\ CancelInv' /\ ExGrows
    BY <1>2, <1>6, CancelSteps, AdvanceSound, CancelRaisesTrue
    DEF CancelOpenOrder
  <2> QED BY <2>1, <2>2, PlacementKeeps, WorkerKeeps
<1>7. CASE OpenOrdersDone(w)
  <2>1. /\ UNCHANGED <<storeVars, exchangeVars, placementVars, todo, runs, lost>>
        /\ Goto(w, "done")
    BY <1>7 DEF OpenOrdersDone
  <2>2. ExchangeInv' /\ ExGrows
    BY <2>1, ExchangeKeeps
  <2>3. CancelInv'
    BY <1>2, <1>7, <2>2, CancelClears DEF OpenOrdersDone
  <2> QED BY <1>1, <2>1, <2>2, <2>3, StoreKeeps, PlacementKeeps, CallingMoves
          DEF Calling
<1>8. CASE RunMethod(w)
  <2>1. UNCHANGED <<exchangeVars, cancel, todo, runs, lost>>
    BY <1>8 DEF RunMethod
  <2>2. ExchangeInv' /\ CancelInv' /\ ExGrows /\ UNCHANGED ex
    BY <2>1, ExchangeKeeps, CancelKeeps DEF exchangeVars
  <2>3. WorkerInv'
    BY <1>1, <1>8, <2>1, <2>2, CallingMoves DEF RunMethod, Calling
  <2>4. CASE \E legs \in Placements :
               CreateRows(w, legs) /\ UNCHANGED <<bot, late>>
    BY <1>2, <2>2, <2>3, <2>4, CreateRowsHonest
  <2>5. CASE UNCHANGED <<storeVars, placementVars>>
    BY <2>2, <2>3, <2>5, StoreKeeps, PlacementKeeps
  <2> QED BY <1>8, <2>4, <2>5 DEF RunMethod
<1>9. CASE PlaceInCallback(w)
  <2>1. UNCHANGED <<cancel, todo, runs, lost>>
    BY <1>9 DEF PlaceInCallback
  <2>2. CASE \/ CallAccepted(w) /\ Goto(w, "done") /\ UNCHANGED storeVars
             \/ /\ CallRejected(w) \/ CallAnswerLost(w)
                /\ UNCHANGED <<storeVars, wk>>
    <3>1. ExchangeInv' /\ PlacementInv' /\ ExGrows /\ UNCHANGED storeVars
      BY <1>2, <2>2, PlacementCalls
    <3>2. WorkerInv'
      BY <1>1, <2>1, <2>2, <3>1, CallingMoves, WorkerKeeps
      DEF Calling, callbackVars
    <3> QED BY <2>1, <3>1, <3>2, StoreKeeps, CancelKeeps
  <2>3. CASE OnErrorOrder(w) /\ UNCHANGED <<bot, exchangeVars, late, wk>>
    <3>1. ExchangeInv' /\ ExGrows /\ UNCHANGED ex
      BY <2>3, ExchangeKeeps DEF exchangeVars
    <3>2. StoreInv' /\ PlacementInv'
      BY <1>2, <2>3, <3>1, OnErrorHonest
    <3>3. UNCHANGED callbackVars
      BY <2>1, <2>3 DEF callbackVars
    <3> QED BY <2>1, <3>1, <3>2, <3>3, CancelKeeps, WorkerKeeps
  <2>4. CASE /\ PlacementRaised(w)
             /\ place' = [place EXCEPT ![w] = NotPlacing]
             /\ Goto(w, "error")
             /\ UNCHANGED <<storeVars, exchangeVars, late>>
    <3>1. ExchangeInv' /\ ExGrows
      BY <2>4, ExchangeKeeps
    <3>2. PlacementInv'
      BY <1>2, <2>4, PlacementEnds
    <3> QED BY <1>1, <2>1, <2>4, <3>1, <3>2, StoreKeeps, CancelKeeps,
               CallingMoves DEF Calling
  <2> QED BY <1>9, <2>2, <2>3, <2>4 DEF PlaceInCallback
<1>10. CASE SaveOutcome(w)
  <2>1. /\ UNCHANGED <<exchangeVars, others, bot, todo, runs, lost>>
        /\ Return(w)
    BY <1>10 DEF SaveOutcome
  <2>2. ExchangeInv' /\ PlacementInv' /\ CancelInv' /\ ExGrows /\ UNCHANGED ex
    BY <2>1, Quiet
  <2>3. StoreInv'
    BY <1>2, <1>10, <2>1, <2>2, SaveCallbackHonest
    DEF SaveOutcome, CallbackStatuses
  <2> QED BY <2>1, <2>2, <2>3, LostKeeps, ReturnMoves
<1> QED BY <1>3, <1>4, <1>5, <1>6, <1>7, <1>8, <1>9, <1>10

(* The process ends and forgets what it held.                               *)
LEMMA EndSteps ==
  ASSUME StoreInv, ExchangeInv, PlacementInv, CancelInv, WorkerInv,
         NEW w \in Workers, TimerStop(w) \/ Kill(w)
  PROVE  StoreInv' /\ ExchangeInv' /\ PlacementInv' /\ CancelInv' /\ WorkerInv'
<1>1. Gone(w) /\ w \in Procs
  BY DEF TimerStop, Kill, Procs
<1>2. lost \subseteq Orders /\ todo \in [Workers -> SUBSET Reports]
      /\ wk[w] \in WorkerRecords /\ WorkerOK(wk[w])
  BY WkOf DEF WorkerInv, CallbackTypeOK
<1>3. ExchangeInv' /\ ExGrows /\ UNCHANGED ex
  BY <1>1, SocketMoves DEF Gone, CloseSocket
<1>4. StoreInv'
  BY <1>1, <1>3, StoreFacts, StoreBeside DEF Gone
<1>5. PlacementInv'
  BY <1>1, PlacementEnds DEF Gone
<1>6. CancelInv'
  BY <1>1, <1>3, CancelClears DEF Gone
<1>7. lost' \subseteq Orders
  <2>1. CASE TimerStop(w)
    BY <1>2, <2>1 DEF TimerStop
  <2>2. CASE Kill(w) /\ Dispatching(w)
    <3>1. wk[w].o \in Orders
      BY <1>2, <2>2 DEF Dispatching, WorkerOK, Handling, Calling
    <3>2. Dispatched(w) \in Orders
      BY <1>2, <3>1 DEF Dispatched, WorkerRecords
    <3> QED BY <1>2, <2>2, <3>1, <3>2 DEF Kill
  <2>3. CASE Kill(w) /\ ~Dispatching(w)
    BY <1>2, <2>3 DEF Kill
  <2> QED BY <2>1, <2>2, <2>3
<1>8. /\ todo' \in [Workers -> SUBSET Reports]
      /\ \A v \in Workers : \A r \in todo'[v] : Confirmed(r.o, r.s)'
  <2>1. \A v \in Workers : \A r \in todo[v] : Confirmed(r.o, r.s)
    BY DEF WorkerInv
  <2> QED BY <1>1, <1>2, <1>3, <2>1 DEF Gone, Confirmed
<1>9. /\ runs' \in [Orders -> Nat]
      /\ \A o \in Orders : runs'[o] > 0 => ex'[o] \in Terminal
  BY <1>1, <1>3 DEF Gone, WorkerInv, CallbackTypeOK
<1>10. WorkerInv'
  BY <1>1, <1>3, <1>7, <1>8, <1>9, AtPcSound, WorkerSets DEF Gone
<1> QED BY <1>3, <1>4, <1>5, <1>6, <1>10

-----------------------------------------------------------------------------
(* Commands *)

LEMMA CommandGoes ==
  ASSUME CommandInv, NEW c \in Commands, To(c, "done") \/ To(c, "list")
           \/ To(c, "prompt") \/ To(c, "placing") \/ To(c, "cancelling")
           \/ To(c, "aborted"),
         UNCHANGED faults
  PROVE  CommandInv'
BY DEF CommandInv, CommandRecords, To

(* An operator command writes what cancel_order and new_order_* write, and  *)
(* the status of the bot.                                                   *)
LEMMA CommandSteps ==
  ASSUME StoreInv, ExchangeInv, PlacementInv, CancelInv, WorkerInv, CommandInv,
         NEW c \in Commands, CommandStep(c)
  PROVE  /\ StoreInv' /\ ExchangeInv' /\ PlacementInv' /\ CancelInv'
         /\ WorkerInv' /\ CommandInv'
<1>1. UNCHANGED <<callbackVars, faults>> /\ c \in Procs
  BY DEF CommandStep, Procs
<1>2. CASE StartPlacement(c)
  <2>1. UNCHANGED <<exchangeVars, cancel>> /\ To(c, "placing")
    BY <1>2 DEF StartPlacement
  <2>2. ExchangeInv' /\ CancelInv' /\ WorkerInv' /\ ExGrows /\ UNCHANGED ex
    BY <1>1, <2>1, ExchangeKeeps, CancelKeeps, WorkerKeeps DEF exchangeVars
  <2>3. PICK legs \in Placements :
          CreateRows(c, legs) /\ UNCHANGED <<bot, late>>
    BY <1>2 DEF StartPlacement
  <2> QED BY <1>1, <2>1, <2>2, <2>3, CreateRowsHonest, CommandGoes
<1>3. CASE PlaceInCommand(c)
  <2>1. UNCHANGED cancel
    BY <1>3 DEF PlaceInCommand
  <2>2. CASE \/ CallAccepted(c) /\ To(c, "done") /\ UNCHANGED storeVars
             \/ /\ CallRejected(c) \/ CallAnswerLost(c)
                /\ UNCHANGED <<storeVars, cmd>>
    <3>1. ExchangeInv' /\ PlacementInv' /\ ExGrows /\ UNCHANGED storeVars
      BY <1>1, <2>2, PlacementCalls
    <3>2. CommandInv'
      BY <1>1, <2>2, CommandGoes DEF CommandInv
    <3> QED BY <1>1, <2>1, <3>1, <3>2, StoreKeeps, CancelKeeps, WorkerKeeps
  <2>3. CASE OnErrorOrder(c) /\ UNCHANGED <<bot, exchangeVars, late, cmd>>
    <3>1. ExchangeInv' /\ ExGrows /\ UNCHANGED ex
      BY <2>3, ExchangeKeeps DEF exchangeVars
    <3>2. StoreInv' /\ PlacementInv'
      BY <1>1, <2>3, <3>1, OnErrorHonest
    <3>3. CommandInv'
      BY <1>1, <2>3 DEF CommandInv
    <3> QED BY <1>1, <2>1, <3>1, <3>2, <3>3, CancelKeeps, WorkerKeeps
  <2>4. CASE /\ PlacementRaised(c)
             /\ place' = [place EXCEPT ![c] = NotPlacing]
             /\ To(c, "aborted")
             /\ UNCHANGED <<storeVars, exchangeVars, late>>
    <3>1. ExchangeInv' /\ ExGrows
      BY <2>4, ExchangeKeeps
    <3>2. PlacementInv'
      BY <1>1, <2>4, PlacementEnds
    <3> QED BY <1>1, <2>1, <2>4, <3>1, <3>2, StoreKeeps, CancelKeeps,
               WorkerKeeps, CommandGoes
  <2> QED BY <1>3, <2>2, <2>3, <2>4 DEF PlaceInCommand
<1>4. CASE GetOrder(c)
  <2>1. UNCHANGED <<storeVars, exchangeVars, placementVars>>
        /\ To(c, "cancelling")
    BY <1>4 DEF GetOrder
  <2>2. ExchangeInv' /\ ExGrows
    BY <2>1, ExchangeKeeps
  <2>3. PICK o \in Orders :
          cancel' = [cancel EXCEPT ![c] = LoopWith(Snapshot({o}))]
    BY <1>4 DEF GetOrder
  <2>4. /\ LoopWith(Snapshot({o})) \in CancelRecords
        /\ CancelOK(LoopWith(Snapshot({o})))
    BY SnapshotHonest, LoopSound
  <2>5. CancelInv'
    BY <1>1, <2>2, <2>3, <2>4, LoopStarts
  <2> QED BY <1>1, <2>1, <2>2, <2>5, StoreKeeps, PlacementKeeps, WorkerKeeps,
             CommandGoes
<1>5. CASE CancelInCommand(c)
  <2>1. UNCHANGED placementVars
    BY <1>5 DEF CancelInCommand
  <2>2. CASE CancelStep(c) /\ UNCHANGED cmd
    <3>1. StoreInv' /\ ExchangeInv' /\ CancelInv' /\ ExGrows
      BY <1>1, <2>2, CancelSteps
    <3>2. CommandInv'
      BY <1>1, <2>2 DEF CommandInv
    <3> QED BY <1>1, <2>1, <3>1, <3>2, PlacementKeeps, WorkerKeeps
  <2>3. CASE CancelRaises(c, NotCancelling) /\ To(c, "aborted")
    <3>1. StoreInv' /\ ExchangeInv' /\ CancelInv' /\ ExGrows
      BY <1>1, <2>3, NotCancellingSound, CancelRaisesTrue
    <3> QED BY <1>1, <2>1, <2>3, <3>1, PlacementKeeps, WorkerKeeps, CommandGoes
  <2>4. CASE /\ cancel' = [cancel EXCEPT ![c] = NotCancelling]
             /\ To(c, "done")
             /\ UNCHANGED <<storeVars, exchangeVars>>
    <3>1. ExchangeInv' /\ ExGrows
      BY <2>4, ExchangeKeeps
    <3>2. CancelInv'
      BY <1>1, <2>4, <3>1, CancelClears
    <3> QED BY <1>1, <2>1, <2>4, <3>1, <3>2, StoreKeeps, PlacementKeeps,
               WorkerKeeps, CommandGoes
  <2> QED BY <1>5, <2>2, <2>3, <2>4 DEF CancelInCommand
<1>6. CASE GetBot(c)
  <2>1. UNCHANGED <<storeVars, exchangeVars, placementVars, cancel>>
    BY <1>6 DEF GetBot
  <2>2. ExchangeInv' /\ ExGrows
    BY <2>1, ExchangeKeeps
  <2>3. CommandInv'
    BY <1>1, <1>6, CommandGoes DEF GetBot
  <2> QED BY <1>1, <2>1, <2>2, <2>3, StoreKeeps, PlacementKeeps, CancelKeeps,
             WorkerKeeps
<1>7. CASE ListActive(c)
  <2>1. UNCHANGED <<storeVars, exchangeVars, placementVars>>
    BY <1>7 DEF ListActive
  <2>2. ExchangeInv' /\ ExGrows
    BY <2>1, ExchangeKeeps
  <2>3. CASE /\ cancel' = [cancel EXCEPT ![c].snap = Snapshot(ActiveOrders)]
             /\ cmd' = [cmd EXCEPT ![c] =
                          [pc |-> "prompt", listed |-> ActiveOrders]]
    <3> DEFINE d == [cancel[c] EXCEPT !.snap = Snapshot(ActiveOrders)]
    <3>1. d \in CancelRecords /\ CancelOK(d)
      BY <1>1, SnapshotHonest
      DEF CancelInv, CancelTypeOK, CancelRecords, CancelOK
    <3>2. cancel' = [cancel EXCEPT ![c] = d]
      BY <1>1, <2>3 DEF CancelInv, CancelTypeOK
    <3> HIDE DEF d
    <3>3. CancelInv'
      BY <1>1, <2>2, <3>1, <3>2, LoopStarts
    <3>4. CommandInv'
      BY <1>1, <2>3 DEF CommandInv, CommandRecords, ActiveOrders
    <3> QED BY <1>1, <2>1, <2>2, <3>3, <3>4, StoreKeeps, PlacementKeeps,
               WorkerKeeps
  <2>4. CASE UNCHANGED cancel /\ To(c, "prompt")
    BY <1>1, <2>1, <2>2, <2>4, StoreKeeps, PlacementKeeps, CancelKeeps,
       WorkerKeeps, CommandGoes
  <2>5. CASE UNCHANGED cancel /\ To(c, "aborted")
    BY <1>1, <2>1, <2>2, <2>5, StoreKeeps, PlacementKeeps, CancelKeeps,
       WorkerKeeps, CommandGoes
  <2> QED BY <1>7, <2>3, <2>4, <2>5 DEF ListActive
<1>8. CASE Decline(c)
  <2>1. UNCHANGED <<storeVars, exchangeVars, placementVars>>
    BY <1>8 DEF Decline
  <2>2. ExchangeInv' /\ ExGrows
    BY <2>1, ExchangeKeeps
  <2>3. CancelInv'
    BY <1>1, <1>8, <2>2, CancelClears DEF Decline
  <2>4. CommandInv'
    BY <1>1, <1>8 DEF Decline, CommandInv, CommandRecords, CommandAt
  <2> QED BY <1>1, <2>1, <2>2, <2>3, <2>4, StoreKeeps, PlacementKeeps,
             WorkerKeeps
<1>9. CASE Confirm(c)
  <2>1. UNCHANGED <<row, fresh, exchangeVars, placementVars>>
    BY <1>9 DEF Confirm
  <2>2. ExchangeInv' /\ ExGrows
    BY <2>1, ExchangeKeeps
  <2>3. StoreInv'
    BY <1>9, <2>1, <2>2, StoreFacts, StoreBeside
    DEF Confirm, SaveBot, BotStatuses
  <2> DEFINE d == [cancel[c] EXCEPT !.pc = "next"]
  <2>4. d \in CancelRecords /\ CancelOK(d)
    BY <1>1 DEF CancelInv, CancelTypeOK, CancelRecords, CancelOK
  <2>5. cancel' = [cancel EXCEPT ![c] = d]
    BY <1>1, <1>9 DEF Confirm, CancelInv, CancelTypeOK
  <2> HIDE DEF d
  <2>6. CancelInv'
    BY <1>1, <2>2, <2>4, <2>5, LoopStarts
  <2>7. CommandInv'
    BY <1>1, <1>9, CommandGoes DEF Confirm
  <2> QED BY <1>1, <2>1, <2>2, <2>3, <2>6, <2>7, PlacementKeeps, WorkerKeeps
<1> QED BY <1>2, <1>3, <1>4, <1>5, <1>6, <1>7, <1>8, <1>9 DEF CommandStep

(* The operator interrupts a command.                                       *)
LEMMA KillCommandStep ==
  ASSUME StoreInv, ExchangeInv, PlacementInv, CancelInv, WorkerInv, CommandInv,
         NEW c \in Commands, KillCommand(c), faults' \in 0..MaxFaults
  PROVE  /\ StoreInv' /\ ExchangeInv' /\ PlacementInv' /\ CancelInv'
         /\ WorkerInv' /\ CommandInv'
<1>1. UNCHANGED <<storeVars, exchangeVars, callbackVars>> /\ c \in Procs
  BY DEF KillCommand, Procs
<1>2. ExchangeInv' /\ ExGrows
  BY <1>1, ExchangeKeeps
<1>3. PlacementInv'
  BY <1>1, PlacementEnds DEF KillCommand
<1>4. CancelInv'
  BY <1>1, <1>2, CancelClears DEF KillCommand
<1>5. CommandInv'
  BY DEF KillCommand, CommandInv, CommandRecords, To
<1> QED BY <1>1, <1>2, <1>3, <1>4, <1>5, StoreKeeps, WorkerKeeps

-----------------------------------------------------------------------------
(* The invariant *)

LEMMA TruthfulInit == Init => Truthful
<1> SUFFICES ASSUME Init PROVE Truthful
  OBVIOUS
<1>1. StoreInv
  BY NoRowHonest DEF Init, StoreInit, StoreInv, StoreTypeOK, BotStatuses
<1>2. ExchangeInv
  <2>1. ExchangeTypeOK
    BY DEF Init, ExchangeInit, ExchangeTypeOK, ExchangeStatuses
  <2>2. LegsEndTogether
    BY OcoAssumption DEF Init, ExchangeInit, LegsEndTogether
  <2> QED BY <2>1, <2>2 DEF Init, ExchangeInit, ExchangeInv
<1>3. PlacementInv
  BY DEF Init, PlacementInit, PlacementInv, PlacementTypeOK, PlaceRecords,
         NotPlacing
<1>4. CancelInv
  BY NotCancellingSound DEF Init, CancelInit, CancelInv, CancelTypeOK
<1>5. WorkerInv
  BY AtPcSound DEF Init, CallbackInit, WorkerInv, CallbackTypeOK
<1>6. CommandInv
  BY CommandsAssumption
  DEF Init, CommandInv, CommandRecords, CommandAt
<1> QED BY <1>1, <1>2, <1>3, <1>4, <1>5, <1>6 DEF Truthful

LEMMA TruthfulStep == Truthful /\ [Next]_vars => Truthful'
<1> SUFFICES ASSUME Truthful, [Next]_vars PROVE Truthful'
  OBVIOUS
<1>1. /\ StoreInv /\ ExchangeInv /\ PlacementInv /\ CancelInv /\ WorkerInv
      /\ CommandInv
  BY DEF Truthful
<1>2. CASE \E c \in Commands : CommandStep(c)
  BY <1>1, <1>2, CommandSteps DEF Truthful
<1>3. CASE \E w \in Workers : WorkerRuns(w)
  <2>1. PICK w \in Workers : WorkerStep(w) /\ UNCHANGED <<cmd, faults>>
    BY <1>3 DEF WorkerRuns
  <2>2. StoreInv' /\ ExchangeInv' /\ PlacementInv' /\ CancelInv' /\ WorkerInv'
    BY <1>1, <2>1, ReadingSteps, DispatchSteps, CallbackSteps, EndSteps
    DEF WorkerStep
  <2>3. CommandInv'
    BY <1>1, <2>1 DEF CommandInv
  <2> QED BY <2>2, <2>3 DEF Truthful
<1>4. CASE ExchangeStep
  <2>1. UNCHANGED <<storeVars, placementVars, cancel, callbackVars, cmd, faults>>
    BY <1>4 DEF ExchangeStep
  <2>2. ExchangeInv' /\ ExGrows
    BY <1>1, <1>4, ExchangeMoves DEF ExchangeStep
  <2>3. CommandInv'
    BY <1>1, <2>1 DEF CommandInv
  <2> QED BY <1>1, <2>1, <2>2, <2>3, StoreKeeps, PlacementKeeps, CancelKeeps,
             WorkerKeeps DEF Truthful
<1>5. CASE Fault
  <2>1. faults' \in 0..MaxFaults
    BY <1>1, <1>5, CommandsAssumption DEF Fault, CommandInv
  <2>2. CASE \E w \in Workers : WorkerFault(w) /\ UNCHANGED cmd
    <3>1. PICK w \in Workers : WorkerFault(w) /\ UNCHANGED cmd
      BY <2>2
    <3>2. StoreInv' /\ ExchangeInv' /\ PlacementInv' /\ CancelInv' /\ WorkerInv'
      BY <1>1, <3>1, ReadingSteps, DispatchSteps, EndSteps DEF WorkerFault
    <3>3. CommandInv'
      BY <1>1, <2>1, <3>1 DEF CommandInv
    <3> QED BY <3>2, <3>3 DEF Truthful
  <2>3. CASE \E c \in Commands : KillCommand(c)
    BY <1>1, <2>1, <2>3, KillCommandStep DEF Truthful
  <2> QED BY <1>5, <2>2, <2>3 DEF Fault
<1>6. CASE UNCHANGED vars
  <2>1. UNCHANGED <<storeVars, exchangeVars, placementVars, cancel,
                    callbackVars, cmd, faults>>
    BY <1>6 DEF vars
  <2>2. ExchangeInv' /\ ExGrows
    BY <1>1, <2>1, ExchangeKeeps
  <2>3. CommandInv'
    BY <1>1, <2>1 DEF CommandInv
  <2> QED BY <1>1, <2>1, <2>2, <2>3, StoreKeeps, PlacementKeeps, CancelKeeps,
             WorkerKeeps DEF Truthful
<1> QED BY <1>2, <1>3, <1>4, <1>5, <1>6 DEF Next

(* Every copy of a final status - in the table, in a queue, in a list of a  *)
(* synchronisation, in an object of a worker, a callback or a command - is  *)
(* the status the exchange gave the order.                                  *)
THEOREM EveryCopyIsTruthful == Spec => []Truthful
BY TruthfulInit, TruthfulStep, PTL DEF Spec

(* Types of all variables.                                                  *)
THEOREM TypeIsCorrect == Spec => []TypeOK
<1>1. Truthful => TypeOK
  BY DEF Truthful, StoreInv, ExchangeInv, PlacementInv, CancelInv, WorkerInv,
         CommandInv, TypeOK
<1> QED BY <1>1, EveryCopyIsTruthful, PTL

(* Whatever old object was saved over a row, a final status in the table is *)
(* the exchange's.                                                          *)
THEOREM TheTableNeverLies == Spec => []DbTerminalIsTrue
<1>1. Truthful => DbTerminalIsTrue
  BY DEF Truthful, StoreInv, Honest, Confirmed, DbTerminalIsTrue
<1> QED BY <1>1, EveryCopyIsTruthful, PTL

(* FILLED goes with executed quantities, and these with an execution.       *)
THEOREM FilledHasResults == Spec => []ResultsRecorded
<1>1. Truthful => ResultsRecorded
  BY DEF Truthful, StoreInv, Honest, ResultsRecorded
<1> QED BY <1>1, EveryCopyIsTruthful, PTL

(* A callback is started only for an order that can trade no more.          *)
THEOREM CallbacksComeAfterTheEnd == Spec => []CallbackAfterTheEnd
<1>1. Truthful => CallbackAfterTheEnd
  BY DEF Truthful, WorkerInv, CallbackAfterTheEnd
<1> QED BY <1>1, EveryCopyIsTruthful, PTL
=============================================================================
