-------------------------- MODULE CallbackContract --------------------------
(***************************************************************************)
(* What an algorithm may rely on when its callbacks are started, whichever *)
(* exchange the orders are on: a callback is started after its order has   *)
(* ended, once, and of an OCO for one leg only.  An order is void when its *)
(* callback is outside the promise: the placement raised although the      *)
(* exchange has the order, or an operator called the callback by hand.     *)
(***************************************************************************)
EXTENDS Naturals

CONSTANTS
  Orders,
  Oco      \* a leg to its peer

VARIABLES
  over,    \* the orders that can trade no more
  calls,   \* calls[o]: how often the callback of o was started
  void

vars == <<over, calls, void>>

Init ==
  /\ over = {}
  /\ calls = [o \in Orders |-> 0]
  /\ void = {}

(* The callback of o may be started, together with those of S.              *)
MayCall(o, S) ==
  /\ calls[o] = 0
  /\ o \in DOMAIN Oco => calls[Oco[o]] = 0 /\ Oco[o] \notin S

Call(S) ==
  /\ S \subseteq over'
  /\ \A o \in S \ void' : MayCall(o, S)
  /\ calls' = [o \in Orders |-> IF o \in S THEN calls[o] + 1 ELSE calls[o]]

Next ==
  /\ over \subseteq over' /\ over' \subseteq Orders
  /\ void \subseteq void' /\ void' \subseteq Orders
  /\ \E S \in SUBSET Orders : Call(S)

Spec == Init /\ [][Next]_vars
=============================================================================
