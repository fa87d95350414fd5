--------------------------- MODULE OrderPlacement ---------------------------
(***************************************************************************)
(* The new_order_* methods of Exchange (tbot/exchanges/exchanges.py): rows *)
(* first, then the call to the exchange, and on any exception an ERROR     *)
(* mark on every row.  They run inside a command or inside a callback; one *)
(* process runs at most one of them at a time.                             *)
(***************************************************************************)
EXTENDS Binance

CONSTANT Commands    \* operator commands, each runs once

Procs == Workers \cup Commands

VARIABLES
  place,  \* place[p]: where process p is in new_order_*
  late    \* history: orders accepted although the call raised

placementVars == <<place, late>>

(* One order without a peer, or the two legs of an OCO, limit leg first.    *)
Placements ==
  {<<o>> : o \in Orders \ DOMAIN Oco} \cup {<<o, Oco[o]>> : o \in DOMAIN Oco}

NotPlacing == [pc |-> "idle", legs |-> <<>>]

PlaceRecords ==
  [pc : {"idle", "call", "error"}, legs : Seq(Orders)]

(* _create_order, or the two saves and the link of an OCO.  Nobody looks up *)
(* a NEW row by its id before the exchange knows it, so the three           *)
(* statements of an OCO are one step.                                       *)
CreateRows(p, legs) ==
  /\ place[p].pc = "idle"
  /\ InsertRows({legs[i] : i \in DOMAIN legs})
  /\ place' = [place EXCEPT ![p] = [pc |-> "call", legs |-> legs]]

(* self._new_order_*(...) returns.                                          *)
CallAccepted(p) ==
  /\ place[p].pc = "call"
  /\ Accept(place[p].legs)
  /\ place' = [place EXCEPT ![p] = NotPlacing]
  /\ UNCHANGED late

(* It raises and the exchange has nothing.                                  *)
CallRejected(p) ==
  /\ place[p].pc = "call"
  /\ place' = [place EXCEPT ![p].pc = "error"]
  /\ UNCHANGED <<exchangeVars, late>>

(* It raises although the exchange has the order: the answer was lost.      *)
CallAnswerLost(p) ==
  /\ place[p].pc = "call"
  /\ Accept(place[p].legs)
  /\ place' = [place EXCEPT ![p].pc = "error"]
  /\ late' = late \cup {place[p].legs[i] : i \in DOMAIN place[p].legs}

(* on_error_order: the object that was inserted is saved whole, as ERROR.   *)
OnErrorOrder(p) ==
  /\ place[p].pc = "error"
  /\ place[p].legs # <<>>
  /\ SaveAll(Head(place[p].legs), [NewRow EXCEPT !.status = "ERROR"])
  /\ place' = [place EXCEPT ![p].legs = Tail(@)]

(* Every leg is marked and the exception leaves new_order_*.                *)
PlacementRaised(p) == place[p].pc = "error" /\ place[p].legs = <<>>

PlacementInit ==
  /\ place = [p \in Procs |-> NotPlacing]
  /\ late = {}

PlacementTypeOK ==
  /\ place \in [Procs -> PlaceRecords]
  /\ late \subseteq Orders
=============================================================================
