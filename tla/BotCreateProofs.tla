-------------------------- MODULE BotCreateProofs --------------------------
(***************************************************************************)
(* What bot_create's percent arithmetic computes, and what it does to the  *)
(* bounds of a bot, proved for every set of option texts with any number   *)
(* of decimals, all prices, lots, every min_step and rounding.             *)
(***************************************************************************)
EXTENDS BotCreate, SequenceTheorems, NaturalsInduction, WellFoundedInduction,
        TLAPS

LEMMA PlacesIsPositive == Places \in Nat /\ Places >= 1
BY TextsAssumption

USE PlacesIsPositive

-----------------------------------------------------------------------------
(* Reading digits *)

(* Induction over the numbers, with a set in place of a predicate.          *)
LEMMA SetInduction ==
  ASSUME NEW S, 0 \in S, \A n \in Nat : n \in S => n + 1 \in S
  PROVE  Nat \subseteq S
<1> SUFFICES ASSUME Nat \ S # {} PROVE FALSE
  OBVIOUS
<1> DEFINE R == OpToRel(<, Nat)
<1>1. IsWellFoundedOn(R, Nat)
  BY NatLessThanWellFounded
<1>2. \A x, y \in Nat : <<x, y>> \in R <=> x < y
  BY DEF OpToRel
<1> HIDE DEF R
<1>3. PICK x \in Nat \ S : \A y \in Nat \ S : ~ (<<y, x>> \in R)
  BY <1>1, WFMin, Zenon
<1>4. x - 1 \in Nat /\ x - 1 < x
  BY <1>3
<1>5. x - 1 \in S
  BY <1>2, <1>3, <1>4
<1>6. (x - 1) + 1 = x
  BY <1>3
<1> QED BY <1>3, <1>4, <1>5, <1>6

(* The reading of the first n digits exists, which a recursive definition   *)
(* does not say by itself.                                                  *)
ReadsFirst(n, f, s) ==
  /\ f \in [0..n -> Nat] /\ f[0] = 0
  /\ \A i \in 1..n : f[i] = 10 * f[i - 1] + s[i]

LEMMA ReadingExists ==
  ASSUME NEW s \in Seq(Digits)
  PROVE  \E f : ReadsFirst(Len(s), f, s)
<1> DEFINE S == {n \in Nat : n <= Len(s) => \E f : ReadsFirst(n, f, s)}
<1>1. 0 \in S
  <2>1. ReadsFirst(0, [i \in 0..0 |-> 0], s)
    BY DEF ReadsFirst
  <2> QED BY <2>1
<1>2. ASSUME NEW n \in Nat, n \in S PROVE n + 1 \in S
  <2>1. ASSUME n + 1 <= Len(s) PROVE \E f : ReadsFirst(n + 1, f, s)
    <3>1. PICK f : ReadsFirst(n, f, s)
      BY <1>2, <2>1
    <3> DEFINE g == [i \in 0..(n + 1) |->
                       IF i <= n THEN f[i] ELSE 10 * f[n] + s[n + 1]]
    <3>2. s[n + 1] \in Nat
      BY <2>1 DEF Digits
    <3>3. g \in [0..(n + 1) -> Nat] /\ g[0] = 0
      BY <3>1, <3>2 DEF ReadsFirst
    <3>4. \A i \in 1..(n + 1) : g[i] = 10 * g[i - 1] + s[i]
      BY <3>1 DEF ReadsFirst
    <3> HIDE DEF g
    <3>5. ReadsFirst(n + 1, g, s)
      BY <3>3, <3>4 DEF ReadsFirst
    <3> QED BY <3>5
  <2> QED BY <2>1
<1>3. Nat \subseteq S
  <2> HIDE DEF S
  <2> QED BY <1>1, <1>2, SetInduction
<1>4. Len(s) \in Nat /\ Len(s) <= Len(s)
  OBVIOUS
<1> QED BY <1>3, <1>4

LEMMA ReadingFacts ==
  ASSUME NEW s \in Seq(Digits)
  PROVE  ReadsFirst(Len(s), Reading(s), s)
<1>1. PICK f : ReadsFirst(Len(s), f, s)
  BY ReadingExists
<1> DEFINE Eq(g) == g = [i \in 0..Len(s) |->
                           IF i = 0 THEN 0 ELSE 10 * g[i - 1] + s[i]]
           h == CHOOSE g : Eq(g)
<1>2. Eq(f)
  BY <1>1 DEF ReadsFirst
<1>3. Eq(h)
  <2> HIDE DEF Eq
  <2> QED BY <1>2
<1>4. Reading(s) = h
  BY DEF Reading
<1>5. \A i \in 0..Len(s) : f[i] = h[i]
  <2> DEFINE S == {n \in Nat : n <= Len(s) => f[n] = h[n]}
  <2> HIDE DEF h
  <2>1. 0 \in S
    BY <1>1, <1>3 DEF ReadsFirst
  <2>2. ASSUME NEW n \in Nat, n \in S PROVE n + 1 \in S
    BY <1>1, <1>3, <2>2 DEF ReadsFirst
  <2>3. Nat \subseteq S
    <3> HIDE DEF S
    <3> QED BY <2>1, <2>2, SetInduction
  <2> QED BY <2>3
<1> HIDE DEF h
<1>6. f = h
  BY <1>1, <1>3, <1>5 DEF ReadsFirst
<1> QED BY <1>1, <1>4, <1>6

(* The same digits at another place, after a reading of 0, read the same.   *)
LEMMA SameDigitsReadTheSame ==
  ASSUME NEW s \in Seq(Digits), NEW z \in Seq(Digits), NEW k \in Nat,
         NEW n \in Nat, n <= Len(s), k + n <= Len(z),
         Reading(z)[k] = 0, \A i \in 1..n : z[k + i] = s[i]
  PROVE  Reading(z)[k + n] = Reading(s)[n]
<1> DEFINE S == {i \in Nat : i <= n => Reading(z)[k + i] = Reading(s)[i]}
<1>1. 0 \in S
  BY ReadingFacts DEF ReadsFirst
<1>2. ASSUME NEW i \in Nat, i \in S PROVE i + 1 \in S
  <2>1. ASSUME i + 1 <= n
        PROVE  Reading(z)[k + (i + 1)] = Reading(s)[i + 1]
    <3>1. Reading(z)[k + i] = Reading(s)[i]
      BY <1>2, <2>1
    <3>2. /\ i + 1 \in 1..Len(s) /\ (i + 1) - 1 = i
          /\ k + (i + 1) \in 1..Len(z) /\ (k + (i + 1)) - 1 = k + i
          /\ z[k + (i + 1)] = s[i + 1]
      BY <2>1
    <3>3. Reading(s)[i + 1] = 10 * Reading(s)[i] + s[i + 1]
      BY <3>2, ReadingFacts DEF ReadsFirst
    <3>4. Reading(z)[k + (i + 1)] = 10 * Reading(z)[k + i] + z[k + (i + 1)]
      BY <3>2, ReadingFacts DEF ReadsFirst
    <3> QED BY <3>1, <3>2, <3>3, <3>4
  <2> QED BY <2>1
<1>3. Nat \subseteq S
  <2> HIDE DEF S
  <2> QED BY <1>1, <1>2, SetInduction
<1> QED BY <1>3

-----------------------------------------------------------------------------
(* Runs of digits one after the other *)

LEMMA ZerosFacts ==
  ASSUME NEW n \in Nat
  PROVE  /\ Zeros(n) \in Seq(Digits) /\ Len(Zeros(n)) = n
         /\ \A i \in 1..n : Zeros(n)[i] = 0
<1>1. Zeros(n) \in [1..n -> Digits]
  BY DEF Zeros, Digits
<1> QED BY <1>1 DEF Zeros

(* The digits of y are those of a, b and c, in this order.                  *)
Joined(y, a, b, c) ==
  /\ y \in Seq(Digits) /\ Len(y) = Len(a) + Len(b) + Len(c)
  /\ \A i \in 1..Len(a) : y[i] = a[i]
  /\ \A i \in 1..Len(b) : y[Len(a) + i] = b[i]
  /\ \A i \in 1..Len(c) : y[Len(a) + Len(b) + i] = c[i]

LEMMA TwoJoined ==
  ASSUME NEW a \in Seq(Digits), NEW b \in Seq(Digits)
  PROVE  /\ a \o b \in Seq(Digits) /\ Len(a \o b) = Len(a) + Len(b)
         /\ \A i \in 1..Len(a) : (a \o b)[i] = a[i]
         /\ \A i \in 1..Len(b) : (a \o b)[Len(a) + i] = b[i]
<1> DEFINE d == a \o b
<1>1. /\ d \in Seq(Digits) /\ Len(d) = Len(a) + Len(b)
      /\ \A i \in 1..(Len(a) + Len(b)) :
           d[i] = IF i <= Len(a) THEN a[i] ELSE b[i - Len(a)]
  BY ConcatProperties
<1> HIDE DEF d
<1>2. Len(a) \in Nat /\ Len(b) \in Nat
  OBVIOUS
<1>3. ASSUME NEW i \in 1..Len(b) PROVE d[Len(a) + i] = b[i]
  <2>1. /\ Len(a) + i \in 1..(Len(a) + Len(b))
        /\ ~(Len(a) + i <= Len(a)) /\ (Len(a) + i) - Len(a) = i
    BY <1>2
  <2> QED BY <1>1, <2>1
<1>4. ASSUME NEW i \in 1..Len(a) PROVE d[i] = a[i]
  BY <1>1, <1>2
<1> QED BY <1>1, <1>3, <1>4 DEF d

LEMMA JoinedFacts ==
  ASSUME NEW a \in Seq(Digits), NEW b \in Seq(Digits), NEW c \in Seq(Digits)
  PROVE  Joined(a \o b \o c, a, b, c)
<1>1. PICK d \in Seq(Digits) :
        /\ d = a \o b /\ Len(d) = Len(a) + Len(b)
        /\ \A i \in 1..Len(a) : d[i] = a[i]
        /\ \A i \in 1..Len(b) : d[Len(a) + i] = b[i]
  BY TwoJoined
<1>2. PICK y \in Seq(Digits) :
        /\ y = d \o c /\ Len(y) = Len(d) + Len(c)
        /\ \A i \in 1..Len(d) : y[i] = d[i]
        /\ \A i \in 1..Len(c) : y[Len(d) + i] = c[i]
  BY TwoJoined
<1>3. Len(a) \in Nat /\ Len(b) \in Nat /\ Len(c) \in Nat
  OBVIOUS
<1>4. \A i \in 1..Len(a) : i \in 1..Len(d)
  BY <1>1, <1>3
<1>5. \A i \in 1..Len(b) : Len(a) + i \in 1..Len(d)
  BY <1>1, <1>3
<1>6. Joined(y, a, b, c)
  BY <1>1, <1>2, <1>4, <1>5 DEF Joined
<1> QED BY <1>1, <1>2, <1>6

(* A number with the digits a before the point and b after it, at Places + 2 *)
(* decimals: those that b does not give are 0.                              *)
Decimals(a, b) == a \o b \o Zeros(Places + 2 - Len(b))

Spread(x, a, b) ==
  /\ x \in Seq(Digits) /\ Len(x) = Len(a) + (Places + 2)
  /\ \A i \in 1..Len(a) : x[i] = a[i]
  /\ \A i \in 1..Len(b) : x[Len(a) + i] = b[i]
  /\ \A i \in (Len(b) + 1)..(Places + 2) : x[Len(a) + i] = 0

LEMMA DecimalsFacts ==
  ASSUME NEW a \in Seq(Digits), NEW b \in Seq(Digits), Len(b) <= Places + 2
  PROVE  Spread(Decimals(a, b), a, b)
<1>0. Len(a) \in Nat /\ Len(b) \in Nat
  OBVIOUS
<1>1. PICK n \in Nat : n = Places + 2 - Len(b)
  BY <1>0
<1>2. Zeros(n) \in Seq(Digits) /\ Len(Zeros(n)) = n /\ \A i \in 1..n : Zeros(n)[i] = 0
  BY ZerosFacts
<1>3. Joined(Decimals(a, b), a, b, Zeros(n))
  BY <1>1, <1>2, JoinedFacts DEF Decimals
<1>4. ASSUME NEW i \in (Len(b) + 1)..(Places + 2) PROVE Decimals(a, b)[Len(a) + i] = 0
  <2>1. /\ i - Len(b) \in 1..n
        /\ Len(a) + Len(b) + (i - Len(b)) = Len(a) + i
    BY <1>0, <1>1
  <2> QED BY <1>2, <1>3, <2>1 DEF Joined
<1>5. Len(Decimals(a, b)) = Len(a) + (Places + 2)
  BY <1>0, <1>1, <1>2, <1>3 DEF Joined
<1> QED BY <1>3, <1>4, <1>5 DEF Joined, Spread

LEMMA ValueIsRead ==
  ASSUME NEW t
  PROVE  Value(t) = Reading(Decimals(t.int, t.frac))[Len(Decimals(t.int, t.frac))]
BY DEF Value, Decimals

LEMMA ValueIsNat ==
  ASSUME NEW t, t.int \in Seq(Digits), t.frac \in Seq(Digits),
         Len(t.frac) <= Places + 2
  PROVE  Value(t) \in Nat
<1>1. PICK x \in Seq(Digits) : x = Decimals(t.int, t.frac)
  BY DecimalsFacts DEF Spread
<1>2. Reading(x)[Len(x)] \in Nat
  <2>1. Reading(x) \in [0..Len(x) -> Nat] /\ Len(x) \in 0..Len(x)
    BY ReadingFacts DEF ReadsFirst
  <2> QED BY <2>1
<1> QED BY <1>1, <1>2, ValueIsRead

(* Two decimals that are 0.                                                 *)
LEMMA TwoZeros ==
  ASSUME NEW x \in Seq(Digits), NEW n \in Nat, Len(x) = n + 2,
         x[n + 1] = 0, x[n + 2] = 0
  PROVE  /\ Reading(x)[n] \in Nat
         /\ Reading(x)[Len(x)] = 100 * Reading(x)[n]
<1>1. /\ Reading(x) \in [0..Len(x) -> Nat]
      /\ \A i \in 1..Len(x) : Reading(x)[i] = 10 * Reading(x)[i - 1] + x[i]
  BY ReadingFacts DEF ReadsFirst
<1>2. /\ n \in 0..Len(x) /\ n + 1 \in 1..Len(x) /\ n + 2 \in 1..Len(x)
      /\ (n + 1) - 1 = n /\ (n + 2) - 1 = n + 1
  OBVIOUS
<1>3. /\ Reading(x)[n] \in Nat
      /\ Reading(x)[n + 1] = 10 * Reading(x)[n] + 0
      /\ Reading(x)[n + 2] = 10 * Reading(x)[n + 1] + 0
  BY <1>1, <1>2
<1>4. Reading(x)[n + 2] = 100 * Reading(x)[n]
  BY <1>3
<1> QED BY <1>3, <1>4

(* The point has moved two digits to the left: the digits of x up to its    *)
(* second decimal are those of y, after a leading zero if k is 1.           *)
Moved(x, y, n, k) ==
  /\ Len(x) = n + Places + 2 /\ Len(y) = k + n + Places
  /\ x[n + Places + 1] = 0 /\ x[n + Places + 2] = 0
  /\ k = 1 => y[1] = 0
  /\ \A i \in 1..(n + Places) : y[k + i] = x[i]

LEMMA MovedIsHundredth ==
  ASSUME NEW x \in Seq(Digits), NEW y \in Seq(Digits), NEW n \in Nat,
         NEW k \in {0, 1}, Moved(x, y, n, k)
  PROVE  /\ Reading(y)[Len(y)] \in Nat
         /\ Reading(x)[Len(x)] = 100 * Reading(y)[Len(y)]
<1>1. Reading(y)[k] = 0
  <2>1. CASE k = 0
    BY <2>1, ReadingFacts DEF ReadsFirst
  <2>2. CASE k = 1
    <3>1. 1 \in 1..Len(y) /\ 1 - 1 = 0 /\ y[1] = 0
      BY <2>2 DEF Moved
    <3>2. Reading(y)[0] = 0 /\ Reading(y)[1] = 10 * Reading(y)[0] + y[1]
      BY <3>1, ReadingFacts DEF ReadsFirst
    <3> QED BY <2>2, <3>1, <3>2
  <2> QED BY <2>1, <2>2
<1>2. Reading(y)[k + (n + Places)] = Reading(x)[n + Places]
  <2>1. /\ k \in Nat
        /\ n + Places \in Nat /\ n + Places <= Len(x) /\ k + (n + Places) <= Len(y)
        /\ \A i \in 1..(n + Places) : y[k + i] = x[i]
    BY DEF Moved
  <2> QED BY <1>1, <2>1, SameDigitsReadTheSame
<1>3. /\ Reading(x)[n + Places] \in Nat
      /\ Reading(x)[Len(x)] = 100 * Reading(x)[n + Places]
  <2>1. /\ n + Places \in Nat /\ Len(x) = (n + Places) + 2
        /\ x[(n + Places) + 1] = 0 /\ x[(n + Places) + 2] = 0
    BY DEF Moved
  <2> QED BY <2>1, TwoZeros
<1>4. k + (n + Places) = Len(y)
  BY DEF Moved
<1> QED BY <1>2, <1>3, <1>4

(* The digits a and b one after the other, after k zeros and followed by    *)
(* zeros, are the digits of the number with the point moved.                *)
LEMMA SameDigitsMoved ==
  ASSUME NEW a, NEW b, NEW x, NEW y, NEW n \in Nat, NEW m \in 1..Places,
         NEW k \in {0, 1}, n = Len(a), m = Len(b), Spread(x, a, b),
         Len(y) = k + n + Places, k = 1 => y[1] = 0,
         \A i \in 1..n : y[k + i] = a[i],
         \A i \in 1..m : y[k + n + i] = b[i],
         \A i \in 1..(Places - m) : y[k + n + m + i] = 0
  PROVE  Moved(x, y, n, k)
<1>1. /\ Len(x) = n + Places + 2
      /\ \A i \in 1..n : x[i] = a[i]
      /\ \A i \in 1..m : x[n + i] = b[i]
      /\ \A i \in (m + 1)..(Places + 2) : x[n + i] = 0
  BY DEF Spread
<1>2. ASSUME NEW i \in 1..(n + Places) PROVE y[k + i] = x[i]
  <2>1. CASE i <= n
    <3>1. i \in 1..n
      BY <2>1
    <3> QED BY <1>1, <3>1
  <2>2. CASE i > n /\ i <= n + m
    <3>1. PICK j \in 1..m : n + j = i
      <4>1. i - n \in 1..m /\ n + (i - n) = i
        BY <2>2
      <4> QED BY <4>1
    <3>2. k + n + j = k + i
      <4>1. k \in Nat /\ m \in Nat /\ j \in Nat
        BY <3>1
      <4> QED BY ONLY <4>1, <3>1, n \in Nat
    <3>3. y[k + n + j] = b[j] /\ x[n + j] = b[j]
      BY <1>1, <3>1
    <3> QED BY <3>1, <3>2, <3>3
  <2>3. CASE i > n + m
    <3>1. PICK j \in 1..(Places - m) : n + m + j = i
      <4>1. i - (n + m) \in 1..(Places - m) /\ n + m + (i - (n + m)) = i
        BY <2>3
      <4> QED BY <4>1
    <3>2. /\ k + n + m + j = k + i /\ m + j \in (m + 1)..(Places + 2) /\ n + (m + j) = i
      BY <3>1
    <3>3. x[i] = 0
      BY <1>1, <3>2
    <3>4. y[k + i] = 0
      BY <3>1, <3>2
    <3> QED BY <3>3, <3>4
  <2> QED BY <2>1, <2>2, <2>3
<1>3. Places + 1 \in (m + 1)..(Places + 2) /\ Places + 2 \in (m + 1)..(Places + 2)
  OBVIOUS
<1>4. x[n + (Places + 1)] = 0 /\ x[n + (Places + 2)] = 0
  BY <1>1, <1>3
<1>5. n + (Places + 1) = n + Places + 1 /\ n + (Places + 2) = n + Places + 2
  OBVIOUS
<1> QED BY <1>1, <1>2, <1>4, <1>5 DEF Moved

LEMMA Shorter ==
  ASSUME NEW a \in Seq(Digits), NEW b \in Seq(Digits), NEW z \in Seq(Digits),
         NEW n \in Nat, NEW m \in 1..Places, n = Len(a), m = Len(b), Len(z) = Places - m,
         \A i \in 1..(Places - m) : z[i] = 0
  PROVE  Moved(Decimals(a, b), a \o b \o z, n, 0)
<1> DEFINE x == Decimals(a, b)
           y == a \o b \o z
<1>1. Spread(x, a, b)
  BY DecimalsFacts
<1>2. Joined(y, a, b, z)
  BY JoinedFacts
<1> HIDE DEF x, y
<1>3. /\ Len(y) = 0 + n + Places
      /\ \A i \in 1..n : y[0 + i] = a[i]
      /\ \A i \in 1..m : y[0 + n + i] = b[i]
      /\ \A i \in 1..(Places - m) : y[0 + n + m + i] = 0
  <2>1. Len(y) = n + m + (Places - m) /\ n + m + (Places - m) = 0 + n + Places
    BY <1>2 DEF Joined
  <2>2. \A i \in 1..n : y[i] = a[i] /\ 0 + i = i
    BY <1>2 DEF Joined
  <2>3. \A i \in 1..m : y[n + i] = b[i] /\ 0 + n + i = n + i
    BY <1>2 DEF Joined
  <2>4. \A i \in 1..(Places - m) : y[n + m + i] = z[i] /\ 0 + n + m + i = n + m + i
    BY <1>2 DEF Joined
  <2>5. \A i \in 1..(Places - m) : y[0 + n + m + i] = 0
    BY <2>4
  <2> QED BY <2>1, <2>2, <2>3, <2>5
<1>4. 0 \in {0, 1} /\ (0 = 1 => y[1] = 0)
  OBVIOUS
<1>5. Moved(x, y, n, 0)
  BY ONLY PlacesIsPositive, <1>1, <1>3, <1>4, n \in Nat, m \in 1..Places, n = Len(a), m = Len(b),
          SameDigitsMoved
<1> QED BY <1>5 DEF x, y

LEMMA OneZero == Zeros(1) \in Seq(Digits) /\ Len(Zeros(1)) = 1 /\ Zeros(1)[1] = 0
<1>1. 1 \in Nat /\ 1 \in 1..1
  OBVIOUS
<1> QED BY <1>1, ZerosFacts

LEMMA ShorterWithZero ==
  ASSUME NEW a \in Seq(Digits), NEW b \in Seq(Digits), NEW z \in Seq(Digits),
         NEW n \in Nat, NEW m \in 1..Places, n = Len(a), m = Len(b), Len(z) = Places - m,
         \A i \in 1..(Places - m) : z[i] = 0
  PROVE  Moved(Decimals(a, b), Zeros(1) \o (a \o b) \o z, n, 1)
<1> DEFINE u == Zeros(1)
           s == a \o b
           x == Decimals(a, b)
           y == u \o s \o z
<1>1. Spread(x, a, b)
  BY DecimalsFacts
<1>2. u \in Seq(Digits) /\ Len(u) = 1 /\ u[1] = 0
  BY OneZero
<1>3. /\ s \in Seq(Digits) /\ Len(s) = Len(a) + Len(b)
      /\ \A i \in 1..Len(a) : s[i] = a[i]
      /\ \A i \in 1..Len(b) : s[Len(a) + i] = b[i]
  BY TwoJoined
<1> HIDE DEF u, s
<1>4. Joined(y, u, s, z)
  BY <1>2, <1>3, JoinedFacts
<1> HIDE DEF x, y
<1>5. /\ Len(y) = 1 + n + Places /\ y[1] = 0
      /\ \A i \in 1..(n + m) : y[1 + i] = s[i]
      /\ \A i \in 1..(Places - m) : y[1 + (n + m) + i] = 0
  <2>1. Len(s) = n + m /\ 1 \in 1..Len(u)
    BY <1>2, <1>3
  <2>2. Len(y) = 1 + (n + m) + (Places - m) /\ y[1] = 0
    BY <1>2, <1>4, <2>1 DEF Joined
  <2>3. \A i \in 1..(n + m) : y[1 + i] = s[i]
    BY <1>2, <1>4, <2>1 DEF Joined
  <2>4. \A i \in 1..(Places - m) : y[1 + (n + m) + i] = z[i]
    BY <1>2, <1>4, <2>1 DEF Joined
  <2>5. 1 + (n + m) + (Places - m) = 1 + n + Places
    OBVIOUS
  <2>6. \A i \in 1..(Places - m) : y[1 + (n + m) + i] = 0
    BY <2>4
  <2> QED BY <2>2, <2>3, <2>5, <2>6
<1>6. \A i \in 1..n : i \in 1..(n + m) /\ s[i] = a[i]
  BY <1>3
<1>7. \A i \in 1..m : n + i \in 1..(n + m) /\ s[n + i] = b[i] /\ 1 + (n + i) = 1 + n + i
  BY <1>3
<1>8. \A i \in 1..(Places - m) : 1 + (n + m) + i = 1 + n + m + i
  OBVIOUS
<1>9. /\ \A i \in 1..n : y[1 + i] = a[i]
      /\ \A i \in 1..m : y[1 + n + i] = b[i]
      /\ \A i \in 1..(Places - m) : y[1 + n + m + i] = 0
  <2>1. \A i \in 1..n : y[1 + i] = a[i]
    BY <1>5, <1>6
  <2>2. ASSUME NEW i \in 1..m PROVE y[1 + n + i] = b[i]
    <3>1. n + i \in 1..(n + m) /\ s[n + i] = b[i] /\ 1 + (n + i) = 1 + n + i
      BY <1>7
    <3>2. y[1 + (n + i)] = s[n + i]
      BY <1>5, <3>1
    <3> QED BY <3>1, <3>2
  <2>3. \A i \in 1..(Places - m) : y[1 + n + m + i] = 0
    BY <1>5, <1>8
  <2> QED BY <2>1, <2>2, <2>3
<1>10. Moved(x, y, n, 1)
  BY <1>1, <1>5, <1>9, SameDigitsMoved
<1> QED BY <1>10 DEF x, y, u, s
LEMMA SplitIsWhole ==
  ASSUME NEW s \in Seq(Digits), NEW l \in Nat, l = Len(s), NEW i \in 0..l
  PROVE  LET c == SubSeq(s, 1, i)
             d == SubSeq(s, i + 1, l)
         IN  /\ c \in Seq(Digits) /\ d \in Seq(Digits)
             /\ Len(c) = i /\ Len(d) = l - i /\ c \o d = s
<1> DEFINE c == SubSeq(s, 1, i)
           d == SubSeq(s, i + 1, l)
<1>1. \A j \in 1..l : s[j] \in Digits
  OBVIOUS
<1>2. /\ c \in Seq(Digits) /\ Len(c) = i
      /\ \A j \in 1..i : c[j] = s[j]
  <2>1. \A j \in 1..i : s[j] \in Digits
    BY <1>1
  <2> QED BY <2>1, SubSeqProperties
<1>3. /\ d \in Seq(Digits) /\ Len(d) = l - i
      /\ \A j \in 1..(l - i) : d[j] = s[i + j]
  <2>1. \A j \in (i + 1)..l : s[j] \in Digits
    BY <1>1
  <2> QED BY <2>1, SubSeqProperties
<1> HIDE DEF c, d
<1> DEFINE w == c \o d
<1>4. /\ w \in Seq(Digits) /\ Len(w) = l
      /\ \A j \in 1..i : w[j] = c[j]
      /\ \A j \in 1..(l - i) : w[i + j] = d[j]
  BY <1>2, <1>3, TwoJoined
<1> HIDE DEF w
<1>5. ASSUME NEW j \in 1..l PROVE w[j] = s[j]
  <2>1. CASE j <= i
    BY <1>2, <1>4, <2>1
  <2>2. CASE j > i
    <3>1. PICK e \in 1..(l - i) : i + e = j
      <4>1. j - i \in 1..(l - i) /\ i + (j - i) = j
        BY <2>2
      <4> QED BY <4>1
    <3>2. w[i + e] = d[e] /\ d[e] = s[i + e]
      BY <1>3, <1>4
    <3> QED BY <3>1, <3>2
  <2> QED BY <2>1, <2>2
<1>6. w = s
  BY <1>4, <1>5, SeqEqual
<1>7. c \in Seq(Digits) /\ d \in Seq(Digits) /\ Len(c) = i /\ Len(d) = l - i
  BY <1>2, <1>3
<1> QED BY ONLY <1>6, <1>7 DEF c, d, w

-----------------------------------------------------------------------------
(* percent_to_float *)

IsText(t) ==
  /\ t.int \in Seq(Digits) /\ t.int # <<>>
  /\ t.frac \in Seq(Digits) /\ Len(t.frac) \in 1..Places

(* One digit before the point ...                                           *)
LEMMA OneDigit ==
  ASSUME NEW a \in Seq(Digits), NEW b \in Seq(Digits), NEW m \in 1..Places,
         Len(a) = 1, m = Len(b)
  PROVE  /\ Zeros(1) \o (a \o b) \in Seq(Digits)
         /\ Len(Zeros(1) \o (a \o b)) = m + 2
         /\ Moved(Decimals(a, b), Decimals(<<>>, Zeros(1) \o (a \o b)), 1, 1)
<1> DEFINE u == Zeros(1)
           s == a \o b
           d == u \o s
           z == Zeros(Places - m)
<1>1. s \in Seq(Digits) /\ Len(s) = 1 + m
  <2>1. s \in Seq(Digits) /\ Len(s) = Len(a) + Len(b)
    BY TwoJoined
  <2> HIDE DEF s
  <2> QED BY <2>1
<1>2. u \in Seq(Digits) /\ Len(u) = 1
  BY OneZero
<1> HIDE DEF u, s
<1>3. d \in Seq(Digits) /\ Len(d) = m + 2
  <2>1. d \in Seq(Digits) /\ Len(d) = 1 + (1 + m)
    <3>1. d \in Seq(Digits) /\ Len(d) = Len(u) + Len(s)
      BY <1>1, <1>2, TwoJoined
    <3> HIDE DEF d
    <3> QED BY <1>1, <1>2, <3>1
  <2>2. 1 + (1 + m) = m + 2
    OBVIOUS
  <2> HIDE DEF d
  <2> QED BY <2>1, <2>2
<1>4. z \in Seq(Digits) /\ Len(z) = Places - m /\ \A i \in 1..(Places - m) : z[i] = 0
  <2>1. Places - m \in Nat
    OBVIOUS
  <2> QED BY <2>1, ZerosFacts
<1> HIDE DEF d
<1>5. Decimals(<<>>, d) = d \o z
  <2>1. Places + 2 - Len(d) = Places - m
    BY <1>3
  <2>2. Decimals(<<>>, d) = <<>> \o d \o z
    BY <2>1 DEF Decimals
  <2>3. <<>> \o d = d
    BY <1>3, ConcatEmptySeq
  <2> QED BY <2>2, <2>3
<1> HIDE DEF z
<1>6. Moved(Decimals(a, b), d \o z, 1, 1)
  <2>1. 1 \in Nat /\ 1 = Len(a)
    OBVIOUS
  <2> QED BY <1>4, <2>1, ShorterWithZero DEF d, u, s
<1> QED BY <1>3, <1>5, <1>6 DEF d, u, s

(* ... or more, which are split at another place.                           *)
LEMMA MoreDigits ==
  ASSUME NEW a \in Seq(Digits), NEW b \in Seq(Digits), NEW m \in 1..Places,
         NEW n \in Nat, n = Len(a), m = Len(b), NEW c, NEW d,
         Len(d) = m + 2, c \o d = a \o b
  PROVE  Moved(Decimals(a, b), Decimals(c, d), n, 0)
<1> DEFINE z == Zeros(Places - m)
<1>1. z \in Seq(Digits) /\ Len(z) = Places - m /\ \A i \in 1..(Places - m) : z[i] = 0
  <2>1. Places - m \in Nat
    BY ONLY PlacesIsPositive, m \in 1..Places
  <2> QED BY <2>1, ZerosFacts
<1>2. Places + 2 - Len(d) = Places - m
  OBVIOUS
<1>3. Decimals(c, d) = a \o b \o z
  BY <1>2 DEF Decimals
<1> HIDE DEF z
<1>4. Moved(Decimals(a, b), a \o b \o z, n, 0)
  BY ONLY PlacesIsPositive, <1>1, a \in Seq(Digits), b \in Seq(Digits), m \in 1..Places, n \in Nat,
          n = Len(a), m = Len(b), Shorter
<1> QED BY <1>3, <1>4
LEMMA PercentOfOneDigit ==
  ASSUME NEW t, Len(t.int) = 1
  PROVE  PercentToFloat(t) =
           [int |-> <<>>, frac |-> Zeros(1) \o (t.int \o t.frac)]
<1>1. 1 - 2 < 0 /\ 0 - (1 - 2) = 1
  OBVIOUS
<1>2. PercentToFloat(t) =
        IF 1 - 2 < 0
        THEN [int |-> <<>>, frac |-> Zeros(0 - (1 - 2)) \o (t.int \o t.frac)]
        ELSE [int |-> SubSeq(t.int \o t.frac, 1, 1 - 2),
              frac |-> SubSeq(t.int \o t.frac, (1 - 2) + 1, Len(t.int \o t.frac))]
  BY DEF PercentToFloat
<1> QED BY <1>1, <1>2

(* The result has two decimals more, and is a hundredth of the number       *)
(* before the %, whatever digits that has.                                  *)
LEMMA Hundredth ==
  ASSUME NEW t, IsText(t)
  PROVE  /\ Value(PercentToFloat(t)) \in Nat
         /\ 100 * Value(PercentToFloat(t)) = Value(t)
<1>1. PICK a \in Seq(Digits), b \in Seq(Digits), n \in Nat, m \in 1..Places :
        a = t.int /\ b = t.frac /\ n = Len(a) /\ m = Len(b) /\ n # 0
  BY DEF IsText
<1>2. PICK p : p = PercentToFloat(t)
  OBVIOUS
<1>3. n # 0 /\ m = Len(b)
  BY <1>1, Zenon
<1>4. PICK s \in Seq(Digits) : s = a \o b /\ Len(s) = n + m
  BY <1>1, TwoJoined
<1>5. PICK k \in {0, 1} :
        /\ Moved(Decimals(a, b), Decimals(p.int, p.frac), n, k)
        /\ p.int \in Seq(Digits) /\ p.frac \in Seq(Digits) /\ Len(p.frac) = m + 2
  <2>1. CASE n = 1
    <3>1. Len(a) = 1 /\ m = Len(b)
      BY <1>1, <2>1
    <3>2. p = [int |-> <<>>, frac |-> Zeros(1) \o s]
      BY <1>1, <1>2, <1>4, <3>1, PercentOfOneDigit
    <3>3. /\ Zeros(1) \o s \in Seq(Digits) /\ Len(Zeros(1) \o s) = m + 2
          /\ Moved(Decimals(a, b), Decimals(<<>>, Zeros(1) \o s), 1, 1)
      <4>1. /\ Zeros(1) \o (a \o b) \in Seq(Digits)
            /\ Len(Zeros(1) \o (a \o b)) = m + 2
            /\ Moved(Decimals(a, b), Decimals(<<>>, Zeros(1) \o (a \o b)), 1, 1)
        BY ONLY PlacesIsPositive, <3>1, a \in Seq(Digits), b \in Seq(Digits), m \in 1..Places, OneDigit
      <4> QED BY <1>4, <4>1
    <3> QED BY <2>1, <3>2, <3>3
  <2>2. CASE n > 1
    <3>1. p = [int |-> SubSeq(s, 1, n - 2), frac |-> SubSeq(s, (n - 2) + 1, n + m)]
      BY <1>1, <1>2, <1>4, <2>2 DEF PercentToFloat
    <3>2. n - 2 \in 0..(n + m) /\ (n + m) - (n - 2) = m + 2 /\ n + m \in Nat
      BY <2>2
    <3>3. /\ p.int \in Seq(Digits) /\ p.frac \in Seq(Digits)
          /\ Len(p.frac) = m + 2 /\ p.int \o p.frac = s
      BY <1>4, <3>1, <3>2, SplitIsWhole
    <3>4. Moved(Decimals(a, b), Decimals(p.int, p.frac), n, 0)
      BY <1>1, <1>4, <3>3, MoreDigits
    <3> QED BY <3>3, <3>4
  <2>3. n = 1 \/ n > 1
    BY <1>3
  <2> QED BY <2>1, <2>2, <2>3
<1>6. PICK x \in Seq(Digits) : x = Decimals(a, b)
  <2>1. m <= Places + 2
    OBVIOUS
  <2>2. Len(b) <= Places + 2
    BY <1>3, <2>1, Zenon
  <2> QED BY <2>2, DecimalsFacts DEF Spread
<1>7. PICK y \in Seq(Digits) : y = Decimals(p.int, p.frac)
  <2>1. Len(p.frac) <= Places + 2
    BY <1>5
  <2> QED BY <1>5, <2>1, DecimalsFacts DEF Spread
<1>8. Value(t) = Reading(x)[Len(x)] /\ Value(p) = Reading(y)[Len(y)]
  BY <1>1, <1>6, <1>7, ValueIsRead
<1>9. /\ Reading(y)[Len(y)] \in Nat
      /\ Reading(x)[Len(x)] = 100 * Reading(y)[Len(y)]
  BY <1>5, <1>6, <1>7, MovedIsHundredth
<1> QED BY <1>2, <1>8, <1>9
-----------------------------------------------------------------------------
(* The command *)

LEMMA CreateInit == Init => CreateInv
BY DEF Init, CreateInv

LEMMA CreateStep == CreateInv /\ [Next]_vars => CreateInv'
<1> SUFFICES ASSUME CreateInv, [Next]_vars PROVE CreateInv'
  OBVIOUS
<1> USE DEF CreateInv
<1>1. CASE ReadPrice
  BY <1>1 DEF ReadPrice
<1>2. CASE Check
  <2>1. opts' = opts /\ seen' = seen /\ bot' = bot /\ price' = price /\ served' = served
    BY <1>2 DEF Check
  <2>2. pc' = "prompt" => Accepted(opts, seen)
    BY <1>2 DEF Check
  <2>3. pc = "check" /\ pc' \in {"prompt", "refused"}
    BY <1>2 DEF Check
  <2>4. Accepted(opts, seen)' = Accepted(opts, seen)
    BY <2>1 DEF Accepted, LimitAccepted, StepAccepted
  <2> QED BY <2>1, <2>2, <2>3, <2>4
<1>3. CASE Decline
  BY <1>3 DEF Decline, Accepted, LimitAccepted, StepAccepted
<1>4. CASE Save
  BY <1>4 DEF Save, Accepted, LimitAccepted, StepAccepted
<1>5. CASE StartStream
  BY <1>5 DEF StartStream, Accepted, LimitAccepted, StepAccepted
<1>6. CASE StartAlgorithm
  <2>1. /\ pc' = "done" /\ UNCHANGED <<opts, seen, price, served>>
        /\ served = "OFF" /\ opts \in Options /\ seen \in Prices
        /\ bot = [status |-> "OFF", opts |-> opts]
        /\ bot' = [bot EXCEPT !.status = "ON"]
    BY <1>6 DEF StartAlgorithm
  <2>2. bot' = [status |-> "ON", opts |-> opts]
    BY <2>1
  <2>3. Accepted(opts, seen)' = Accepted(opts, seen)
    BY <2>1 DEF Accepted, LimitAccepted, StepAccepted
  <2>4. Accepted(opts, seen) /\ price \in Prices
    BY <1>6 DEF StartAlgorithm
  <2> QED BY <2>1, <2>2, <2>3, <2>4
<1>7. CASE Move
  BY <1>7 DEF Move, Accepted, LimitAccepted, StepAccepted
<1>8. CASE UNCHANGED vars
  BY <1>8 DEF vars, Accepted, LimitAccepted, StepAccepted
<1> QED BY <1>1, <1>2, <1>3, <1>4, <1>5, <1>6, <1>7, <1>8 DEF Next

(* The options saved are those accepted at the price read, and the bot is   *)
(* not switched ON before START is sent: the inductive invariant holds.     *)
THEOREM CreateInvariant == Spec => []CreateInv
BY CreateInit, CreateStep, PTL DEF Spec

(* A bot is ON only when START was sent for it while it was OFF.            *)
THEOREM BotsAreServedFirst == Spec => []ServedBeforeOn
<1>1. CreateInv => ServedBeforeOn
  BY DEF CreateInv, ServedBeforeOn
<1> QED BY <1>1, CreateInvariant, PTL

-----------------------------------------------------------------------------
(* Forms *)

LEMMA FormFacts ==
  ASSUME NEW f \in Forms
  PROVE  /\ Value(f.text) \in Nat
         /\ Value(PercentToFloat(f.text)) \in Nat
         /\ 100 * Value(PercentToFloat(f.text)) = Value(f.text)
<1>1. IsText(f.text)
  BY TextsAssumption DEF Forms, IsText
<1>2. /\ Value(PercentToFloat(f.text)) \in Nat
      /\ 100 * Value(PercentToFloat(f.text)) = Value(f.text)
  BY <1>1, Hundredth
<1> QED BY <1>2

LEMMA BoundsAreNat == One \in Nat /\ Value(MinStep) \in Nat
<1>1. /\ MinStep.int \in Seq(Digits) /\ MinStep.frac \in Seq(Digits)
      /\ Len(MinStep.frac) <= Places + 2
  BY TextsAssumption
<1>2. PICK t : t = [int |-> <<1>>, frac |-> <<0>>]
  OBVIOUS
<1>3. t.int \in Seq(Digits) /\ t.frac \in Seq(Digits) /\ Len(t.frac) <= Places + 2
  BY <1>2 DEF Digits
<1>4. Value(t) \in Nat
  BY <1>3, ValueIsNat
<1>5. Value(MinStep) \in Nat
  BY <1>1, ValueIsNat
<1> QED BY <1>2, <1>4, <1>5 DEF One

(* A step at price p, before it is rounded, is a hundredth of what the form *)
(* means.                                                                   *)
LEMMA StepAbsMeans ==
  ASSUME NEW f \in Forms, NEW p \in Nat
  PROVE  StepAbs(f, p).exact \in Nat /\ 100 * StepAbs(f, p).exact = Means(f, p)
<1>1. PICK v \in Nat, u \in Nat :
        v = Value(f.text) /\ u = Value(PercentToFloat(f.text)) /\ 100 * u = v
  BY FormFacts
<1>2. Units \in Nat
  BY TextsAssumption
<1>3. CASE f.percent
  <2>1. StepAbs(f, p).exact = u * p /\ Means(f, p) = v * p
    BY <1>1, <1>3 DEF StepAbs, Product, Means
  <2>2. 100 * (u * p) = (100 * u) * p /\ u * p \in Nat
    OBVIOUS
  <2> QED BY <1>1, <2>1, <2>2
<1>4. CASE ~f.percent
  <2>1. StepAbs(f, p).exact = v * Units /\ Means(f, p) = v * 100 * Units
    BY <1>1, <1>4 DEF StepAbs, Parsed, Means
  <2>2. v * 100 * Units = 100 * (v * Units) /\ v * Units \in Nat
    BY <1>2
  <2> QED BY <2>1, <2>2
<1> QED BY <1>3, <1>4

(* A bound on a percentage is the same bound on the price it comes to.      *)
LEMMA ScaledBound ==
  ASSUME NEW p \in Nat \ {0}, NEW u \in Nat, NEW b \in Nat
  PROVE  u < b <=> u * p < b * p
OBVIOUS

LEMMA LimitIsOnStepAbs ==
  ASSUME NEW f \in Forms, NEW p \in Nat \ {0}
  PROVE  LimitAccepted(f, p) <=> StepAbs(f, p).exact < p * One
<1>1. PICK u \in Nat : u = Value(PercentToFloat(f.text))
  BY FormFacts
<1>2. PICK b \in Nat : b = One
  BY BoundsAreNat
<1>3. CASE f.percent
  <2>1. StepAbs(f, p).exact = u * p /\ (LimitAccepted(f, p) <=> u < b)
    BY <1>1, <1>2, <1>3 DEF LimitAccepted, StepAbs, Product
  <2>2. (u < b <=> u * p < b * p) /\ b * p = p * b
    BY ScaledBound
  <2> QED BY <1>2, <2>1, <2>2
<1>4. CASE ~f.percent
  BY <1>4 DEF LimitAccepted, StepAbs, Parsed
<1> QED BY <1>3, <1>4

(* Away from min_step the step is accepted by its exact value.              *)
LEMMA StepIsOnStepAbs ==
  ASSUME NEW f \in Forms, NEW p \in Nat \ {0}, Means(f, p) # LeastStep(p)
  PROVE  StepAccepted(f, p) <=> StepAbs(f, p).exact > Value(MinStep) * p
<1>1. PICK w \in Nat : w = Value(MinStep)
  BY BoundsAreNat
<1>2. PICK e \in Nat : e = StepAbs(f, p).exact /\ 100 * e = Means(f, p)
  BY StepAbsMeans
<1>3. e # w * p
  <2>1. LeastStep(p) = 100 * (w * p)
    <3>1. 100 * w * p = 100 * (w * p)
      OBVIOUS
    <3> QED BY <1>1, <3>1 DEF LeastStep
  <2> QED BY <1>2, <2>1
<1>4. Product(Value(MinStep), p).exact = w * p
  BY <1>1 DEF Product
<1> QED BY <1>1, <1>2, <1>3, <1>4 DEF StepAccepted, AtLeast

(* percent_to_float is a hundredth of the number before the %.              *)
THEOREM PercentsAreHundredths == Spec => []PercentIsHundredth
<1>1. CreateInv => PercentIsHundredth
  <2> SUFFICES ASSUME CreateInv, opts # None,
                      NEW f \in {opts.limit, opts.up, opts.down}
               PROVE  100 * Value(PercentToFloat(f.text)) = Value(f.text)
    BY DEF PercentIsHundredth
  <2>1. f \in Forms
    BY DEF CreateInv, Options
  <2> QED BY <2>1, FormFacts
<1> QED BY <1>1, CreateInvariant, PTL

(* The two branches of the command accept the same prices, but for a step   *)
(* of exactly min_step, where the rounding decides.                         *)
THEOREM BothFormsAreTreatedAlike == Spec => []FormsAgree
<1>1. CreateInv => FormsAgree
  <2> SUFFICES ASSUME CreateInv, pc = "check", NEW f \in {opts.limit, opts.up},
                      NEW g \in Forms, Means(f, seen) = Means(g, seen)
               PROVE  /\ LimitAccepted(f, seen) <=> LimitAccepted(g, seen)
                      /\ Means(f, seen) # LeastStep(seen) =>
                           (StepAccepted(f, seen) <=> StepAccepted(g, seen))
    BY DEF FormsAgree
  <2>1. f \in Forms /\ seen \in Nat \ {0}
    BY TextsAssumption DEF CreateInv, Options
  <2>2. /\ StepAbs(f, seen).exact \in Nat
        /\ 100 * StepAbs(f, seen).exact = Means(f, seen)
        /\ StepAbs(g, seen).exact \in Nat
        /\ 100 * StepAbs(g, seen).exact = Means(g, seen)
    BY <2>1, StepAbsMeans
  <2>3. StepAbs(f, seen).exact = StepAbs(g, seen).exact
    BY <2>2
  <2>4. LimitAccepted(f, seen) <=> LimitAccepted(g, seen)
    BY <2>1, <2>3, LimitIsOnStepAbs
  <2>5. Means(f, seen) # LeastStep(seen) =>
          (StepAccepted(f, seen) <=> StepAccepted(g, seen))
    BY <2>1, <2>3, StepIsOnStepAbs
  <2> QED BY <2>4, <2>5
<1> QED BY <1>1, CreateInvariant, PTL

(* What was accepted in percent at the price read keeps its bound at every  *)
(* later price.                                                             *)
LEMMA PercentLimitStays ==
  ASSUME NEW f \in Forms, f.percent, NEW q, LimitAccepted(f, q),
         NEW p \in Nat \ {0}
  PROVE  Means(f, p) < 100 * One * p
<1>1. PICK v \in Nat, u \in Nat :
        v = Value(f.text) /\ u = Value(PercentToFloat(f.text)) /\ 100 * u = v
  BY FormFacts
<1>2. PICK b \in Nat : b = One
  BY BoundsAreNat
<1>3. u < b
  BY <1>1, <1>2 DEF LimitAccepted
<1>4. v * p < (100 * b) * p
  <2>1. v < 100 * b
    BY <1>1, <1>3
  <2> QED BY <2>1, ScaledBound
<1> QED BY <1>1, <1>2, <1>4 DEF Means

LEMMA PercentStepStays ==
  ASSUME NEW f \in Forms, f.percent, NEW q \in Nat \ {0}, StepAccepted(f, q),
         NEW p \in Nat \ {0}
  PROVE  Means(f, p) >= LeastStep(p)
<1>1. PICK v \in Nat, u \in Nat :
        v = Value(f.text) /\ u = Value(PercentToFloat(f.text)) /\ 100 * u = v
  BY FormFacts
<1>2. PICK w \in Nat : w = Value(MinStep)
  BY BoundsAreNat
<1>3. u * q >= w * q
  BY <1>1, <1>2 DEF StepAccepted, StepAbs, Product, AtLeast
<1>4. ~(u < w)
  <2>1. ~(u * q < w * q)
    BY <1>3
  <2> QED BY <2>1, ScaledBound
<1>5. ~(v < 100 * w)
  BY <1>1, <1>4
<1>6. ~(v * p < (100 * w) * p)
  BY <1>5, ScaledBound
<1>7. v * p >= (100 * w) * p
  BY <1>6
<1> QED BY <1>1, <1>2, <1>7 DEF Means, LeastStep

(* A bound given in percent and accepted at the price read holds at every   *)
(* later price, whatever side the products were rounded to.                 *)
THEOREM PercentsStayTrue == Spec => []PercentsNeverGoStale
<1>1. CreateInv => PercentsNeverGoStale
  <2> SUFFICES ASSUME CreateInv, bot # None
               PROVE  PercentsNeverGoStale
    BY DEF PercentsNeverGoStale
  <2>1. /\ bot.opts = opts /\ Accepted(opts, seen)
        /\ seen \in Nat \ {0} /\ price \in Nat \ {0}
        /\ opts.limit \in Forms /\ opts.up \in Forms /\ opts.down \in Forms
    <3>1. pc # "ready"
      BY DEF CreateInv
    <3> QED BY <3>1, TextsAssumption DEF CreateInv, Options
  <2>2. /\ LimitAccepted(opts.limit, seen)
        /\ StepAccepted(opts.up, seen) /\ StepAccepted(opts.down, seen)
    BY <2>1 DEF Accepted
  <2>3. opts.limit.percent => Means(opts.limit, price) < 100 * One * price
    BY <2>1, <2>2, PercentLimitStays
  <2>4. \A f \in {opts.up, opts.down} :
          f.percent => Means(f, price) >= LeastStep(price)
    BY <2>1, <2>2, PercentStepStays
  <2> QED BY <2>1, <2>3, <2>4 DEF PercentsNeverGoStale
<1> QED BY <1>1, CreateInvariant, PTL
=============================================================================
