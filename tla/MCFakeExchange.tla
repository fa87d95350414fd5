--------------------------- MODULE MCFakeExchange ---------------------------
(* Small instances of FakeExchange for TLC. *)
EXTENDS FakeExchange, TLC

CONSTANTS o1, o2, o3, s1

OnePair == (o1 :> o2) @@ (o2 :> o1)
Legs == Permutations({o1, o2})
=============================================================================
