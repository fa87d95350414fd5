---------------------------- MODULE MCOrderFlow ----------------------------
(* Small instances of OrderFlow for TLC. *)
EXTENDS OrderFlow, TLC

CONSTANTS o1, o2, o3

NoPairs == <<>>
OnePair == (o1 :> o2) @@ (o2 :> o1)
Legs == Permutations({o1, o2})

(* Bound: no placement raises after the exchange has taken its orders.      *)
Answered == late = {}
=============================================================================
