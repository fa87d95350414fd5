---------------------------- MODULE MCBotCreate ----------------------------
(* A small instance of BotCreate for TLC. *)
EXTENDS BotCreate

(* 0.009, 0.1, 4.5, 9.0, 50.0, 100.0: of prices 9 and 4.5, percentages and  *)
(* amounts that come to the same price, and the bounds themselves.          *)
SomeTexts ==
  {[int |-> <<0>>, frac |-> <<0, 0, 9>>], [int |-> <<0>>, frac |-> <<1>>],
   [int |-> <<4>>, frac |-> <<5>>], [int |-> <<9>>, frac |-> <<0>>],
   [int |-> <<5, 0>>, frac |-> <<0>>], [int |-> <<1, 0, 0>>, frac |-> <<0>>]}

(* Profile.min_step, 0.001 by default.                                      *)
DefaultMinStep == [int |-> <<0>>, frac |-> <<0, 0, 1>>]

(* What doubles do with these numbers, at five decimals, at both prices:    *)
(* 0.00009 and 0.001 times the price are rounded up, 0.045 and 0.09 times   *)
(* the price down, 0.5 and 1.0 times the price are exact.                   *)
DoubleRounding(x, p) ==
  IF x \in {9, 100} THEN 1 ELSE IF x \in {4500, 9000} THEN -1 ELSE 0
=============================================================================
