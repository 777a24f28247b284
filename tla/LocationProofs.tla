--------------------------- MODULE LocationProofs ---------------------------
(***************************************************************************)
(* Theorems about Location, for every value of its constants: it is Gnss   *)
(* with messages beside it, and the coordinates and the accuracy that are  *)
(* read from a message are decimals nearest to those measured.  That the   *)
(* digits are read back as the number is an induction over the digits.     *)
(***************************************************************************)
EXTENDS Location, GnssProofs, WellFoundedInduction

USE GpsAssumption, LocationAssumption
-----------------------------------------------------------------------------
(* Gnss under the messages.                                                *)

\* The messages restrict nothing that gnss_task, the receiver or the requests do.
LEMMA LocationStepIsStep == [LocationNext]_locationVars => [Next]_vars
BY DEF LocationNext, publish_gps_data, OtherStep, Next, TaskStep, Answer, locationVars

\* Location implements Gnss, so that what holds of Gnss holds here.
THEOREM ImplementsGnss == LocationSpec => Spec
<1>1. LocationInit => Init
  BY DEF LocationInit
<1> QED
  BY <1>1, LocationStepIsStep, PTL DEF LocationSpec, Spec
-----------------------------------------------------------------------------
(* Powers of ten.                                                          *)

\* Induction over the natural numbers, for a set of them.
LEMMA NatInduct ==
  ASSUME NEW S, 0 \in S, \A n \in Nat : n \in S => n + 1 \in S
  PROVE  Nat \subseteq S
<1> DEFINE R == {ss \in Nat \X Nat : ss[1] < ss[2]}
           T == Nat \ S
<1>1. IsWellFoundedOn(R, Nat)
  BY NatLessThanWellFounded DEF OpToRel
<1>2. SUFFICES ASSUME T # {} PROVE FALSE
  OBVIOUS
<1>3. PICK x \in T : \A y \in T : ~(<<y, x>> \in R)
  <2> HIDE DEF R
  <2> QED
    BY <1>1, <1>2, WFMin
<1>4. x \in Nat \ {0} /\ x - 1 \in Nat /\ x - 1 < x
  OBVIOUS
<1>5. x - 1 \in T => <<x - 1, x>> \in R
  <2>1. <<x - 1, x>>[1] = x - 1 /\ <<x - 1, x>>[2] = x
    OBVIOUS
  <2>2. <<x - 1, x>> \in Nat \X Nat
    BY <1>4
  <2> QED
    BY <1>4, <2>1, <2>2
<1>6. x - 1 \in S
  BY <1>3, <1>4, <1>5
<1> QED
  BY <1>4, <1>6

IsPower(f, n) == f = [i \in 0 .. n |-> IF i = 0 THEN 1 ELSE 10 * f[i - 1]]

\* There is a table of the powers of ten, however long.
LEMMA PowersExist == \A n \in Nat : \E f : IsPower(f, n)
<1> DEFINE S == {n \in Nat : \E f : IsPower(f, n)}
<1>1. 0 \in S
  <2> DEFINE g == [i \in 0 .. 0 |-> 1]
  <2>1. g = [i \in 0 .. 0 |-> IF i = 0 THEN 1 ELSE 10 * g[i - 1]]
    OBVIOUS
  <2> QED
    BY <2>1 DEF IsPower
<1>2. ASSUME NEW n \in Nat, n \in S PROVE n + 1 \in S
  <2>1. PICK f : f = [i \in 0 .. n |-> IF i = 0 THEN 1 ELSE 10 * f[i - 1]]
    BY <1>2 DEF IsPower
  <2> DEFINE g == [i \in 0 .. n + 1 |-> IF i = n + 1 THEN 10 * f[n] ELSE f[i]]
  <2>2. \A i \in 0 .. n + 1 : g[i] = IF i = 0 THEN 1 ELSE 10 * g[i - 1]
    BY <2>1
  <2>3. g = [i \in 0 .. n + 1 |-> IF i = 0 THEN 1 ELSE 10 * g[i - 1]]
    BY <2>2
  <2>4. IsPower(g, n + 1)
    BY <2>3 DEF IsPower
  <2> HIDE DEF g
  <2> QED
    BY <2>4
<1> QED
  <2> HIDE DEF S
  <2>1. Nat \subseteq S
    BY <1>1, <1>2, NatInduct
  <2> QED
    BY <2>1 DEF S

\* Power is that table.
LEMMA PowerDef == \A i \in 0 .. Dec : Power[i] = IF i = 0 THEN 1 ELSE 10 * Power[i - 1]
<1>1. PICK f : IsPower(f, Dec)
  BY PowersExist
<1>2. IsPower(Power, Dec)
  BY <1>1 DEF Power, IsPower
<1> QED
  BY <1>2 DEF IsPower

\* Its entries, the last of which is Scale, are positive numbers.
LEMMA PowerType == Power \in [0 .. Dec -> Nat \ {0}]
<1> DEFINE S == {i \in Nat : i \in 0 .. Dec => Power[i] \in Nat \ {0}}
<1>1. 0 \in S
  BY PowerDef
<1>2. ASSUME NEW n \in Nat, n \in S PROVE n + 1 \in S
  <2>1. SUFFICES ASSUME n + 1 \in 0 .. Dec PROVE Power[n + 1] \in Nat \ {0}
    OBVIOUS
  <2>2. Power[n] \in Nat \ {0} /\ Power[n + 1] = 10 * Power[n]
    BY <1>2, <2>1, PowerDef
  <2> QED
    BY <2>2
<1>3. Nat \subseteq S
  <2> HIDE DEF S
  <2> QED
    BY <1>1, <1>2, NatInduct
<1>4. PICK f : IsPower(f, Dec)
  BY PowersExist
<1>5. IsPower(Power, Dec)
  BY <1>4 DEF Power, IsPower
<1>6. \A i \in 0 .. Dec : Power[i] \in Nat \ {0}
  BY <1>3
<1>7. Power = [i \in 0 .. Dec |-> Power[i]]
  BY <1>5 DEF IsPower
<1> HIDE DEF S
<1> QED
  BY <1>6, <1>7
-----------------------------------------------------------------------------
(* Digits.                                                                 *)

\* The digit that the cut at p has more than the cut at ten times p.
LEMMA NextDigit ==
  ASSUME NEW x \in Nat, NEW p \in Nat \ {0}
  PROVE  x \div p = 10 * (x \div (10 * p)) + ((x \div p) % 10)
<1> DEFINE q == x \div p
           r == q \div 10
<1>1. q \in Nat /\ q * p <= x /\ x < q * p + p
  OBVIOUS
<1> HIDE DEF q
<1>2. r \in Nat /\ q = 10 * r + (q % 10) /\ q % 10 \in 0 .. 9
  BY <1>1
<1> HIDE DEF r
<1>3. r * (10 * p) <= x /\ x < r * (10 * p) + 10 * p
  <2>1. r * (10 * p) + (q % 10) * p = q * p
    BY <1>1, <1>2
  <2>2. (q % 10) * p >= 0 /\ (q % 10) * p <= 9 * p
    BY <1>2
  <2> QED
    BY <1>1, <1>2, <2>1, <2>2
<1>4. x \div (10 * p) = r
  <2> DEFINE P == 10 * p
             t == x \div P
  <2>0. P \in Nat \ {0} /\ r * P <= x /\ x < r * P + P
    BY <1>3
  <2> HIDE DEF P
  <2>1. t \in Nat /\ t * P <= x /\ x < t * P + P
    BY <2>0
  <2> HIDE DEF t
  <2>2. ~(t < r)
    <3>1. ASSUME t < r PROVE FALSE
      <4>1. PICK d \in Nat : r = t + 1 + d
        BY <1>2, <2>1, <3>1, r - t - 1 \in Nat
      <4>2. r * P = t * P + P + d * P /\ d * P >= 0
        BY <2>0, <2>1, <4>1
      <4> QED
        BY <2>0, <2>1, <4>2, <1>2
    <3> QED
      BY <3>1
  <2>3. ~(r < t)
    <3>1. ASSUME r < t PROVE FALSE
      <4>1. PICK d \in Nat : t = r + 1 + d
        BY <1>2, <2>1, <3>1, t - r - 1 \in Nat
      <4>2. t * P = r * P + P + d * P /\ d * P >= 0
        BY <2>0, <1>2, <4>1
      <4> QED
        BY <2>0, <2>1, <4>2, <1>2
    <3> QED
      BY <3>1
  <2> QED
    BY <1>2, <2>1, <2>2, <2>3 DEF t, P
<1> QED
  BY <1>2, <1>4 DEF q

\* What the digits of a number stand for is that number: after i of them, the
\* number cut at the i-th.
LEMMA ReadsBack == \A x \in 0 .. Scale - 1 : Read(Digits(x)) = x * Parts
<1> SUFFICES ASSUME NEW x \in 0 .. Scale - 1 PROVE Read(Digits(x)) = x * Parts
  OBVIOUS
<1>0. x \in Nat /\ Scale \in Nat \ {0} /\ x < Scale
  BY PowerType DEF Scale
<1> DEFINE Upto(i) == (x \div Power[Dec - i]) * Power[Dec - i] * Parts
           add(i) == Digits(x)[i] * Parts * Power[Dec - i]
           Sums(f) == f = [i \in 0 .. Dec |-> IF i = 0 THEN 0 ELSE f[i - 1] + add(i)]
           value == CHOOSE f : Sums(f)
<1>1. Upto(0) = 0
  <2>1. x \div Power[Dec] = 0
    BY <1>0 DEF Scale
  <2> QED
    BY <2>1, PowerType
<1>2. \A i \in 1 .. Dec : Upto(i) = Upto(i - 1) + add(i)
  <2> SUFFICES ASSUME NEW i \in 1 .. Dec PROVE Upto(i) = Upto(i - 1) + add(i)
    OBVIOUS
  <2> DEFINE p == Power[Dec - i]
  <2>1. p \in Nat \ {0} /\ Power[Dec - (i - 1)] = 10 * p
    <3>1. Dec - i \in 0 .. Dec /\ Dec - (i - 1) \in 0 .. Dec /\ Dec - (i - 1) # 0
          /\ (Dec - (i - 1)) - 1 = Dec - i
      OBVIOUS
    <3> QED
      BY <3>1, PowerType, PowerDef
  <2>2. Digits(x)[i] = (x \div p) % 10
    BY DEF Digits
  <2> HIDE DEF p
  <2>3. x \div p = 10 * (x \div (10 * p)) + ((x \div p) % 10)
    BY <1>0, <2>1, NextDigit
  <2> DEFINE q == x \div p
             r == x \div (10 * p)
             d == (x \div p) % 10
  <2>4. q \in Nat /\ r \in Nat /\ d \in Nat
    BY <1>0, <2>1
  <2>5. q = 10 * r + d
    BY <2>3
  <2> HIDE DEF q, r, d
  <2>6. q * p * Parts = r * (10 * p) * Parts + d * Parts * p
    <3>1. q * p = r * (10 * p) + d * p
      BY <2>1, <2>4, <2>5
    <3>2. (r * (10 * p) + d * p) * Parts = r * (10 * p) * Parts + d * p * Parts
      BY <2>1, <2>4
    <3>3. d * p * Parts = d * Parts * p
      BY <2>1, <2>4
    <3> QED
      BY <3>1, <3>2, <3>3
  <2> QED
    BY <2>1, <2>2, <2>6 DEF q, r, d, p
<1>3. \E f : Sums(f)
  <2> DEFINE w == [i \in 0 .. Dec |-> Upto(i)]
  <2> HIDE DEF Upto, add
  <2>1. \A i \in 0 .. Dec : w[i] = IF i = 0 THEN 0 ELSE w[i - 1] + add(i)
    BY <1>1, <1>2
  <2>2. Sums(w)
    BY <2>1
  <2> HIDE DEF w
  <2> QED
    BY <2>2
<1>4. Sums(value)
  BY <1>3
<1>5. \A i \in 0 .. Dec : value[i] = Upto(i)
  <2> DEFINE S == {i \in Nat : i \in 0 .. Dec => value[i] = Upto(i)}
  <2> HIDE DEF Upto, add, value
  <2>1. 0 \in S
    BY <1>1, <1>4
  <2>2. ASSUME NEW n \in Nat, n \in S PROVE n + 1 \in S
    BY <1>2, <1>4, <2>2
  <2>3. Nat \subseteq S
    <3> HIDE DEF S
    <3> QED
      BY <2>1, <2>2, NatInduct
  <2> QED
    BY <2>3
<1>6. Upto(Dec) = x * Parts
  <2>1. Power[Dec - Dec] = 1
    BY PowerDef
  <2>2. x \div 1 = x /\ x * 1 = x
    BY <1>0
  <2> QED
    BY <2>1, <2>2
<1>7. Read(Digits(x)) = value[Dec]
  BY DEF Read
<1>8. value[Dec] = Upto(Dec)
  <2> HIDE DEF Upto, value
  <2> QED
    BY <1>5
<1> QED
  BY <1>6, <1>7, <1>8
-----------------------------------------------------------------------------
(* Rounding.                                                               *)

\* A whole number of twice p, taken from a number to which p was added, is nearest.
LEMMA HalfIsAdded ==
  ASSUME NEW n \in Nat, NEW p \in Nat, p > 0
  PROVE  LET q == (2 * n + p) \div (2 * p)
         IN  q \in Nat /\ 2 * Distance(q * p, n) <= p
<1> DEFINE q == (2 * n + p) \div (2 * p)
<1>1. q \in Nat /\ q * (2 * p) <= 2 * n + p /\ 2 * n + p < q * (2 * p) + 2 * p
  BY 2 * n + p \in Nat, 2 * p \in Nat \ {0}
<1> HIDE DEF q
<1>2. q * (2 * p) = 2 * (q * p) /\ q * p \in Nat
  BY <1>1
<1> QED
  BY <1>1, <1>2 DEF Distance, q

\* Cutting and joining the digits of a number of tenths.
LEMMA TenthsJoin == \A q \in Nat : 10 * (q \div 10) + (q % 10) = q
OBVIOUS

\* The accuracy is printed to the nearest tenth.
LEMMA TenthsAreNearest ==
  ASSUME NEW a \in Nat
  PROVE  Tenths(a) \in Nat /\ 2 * Distance(Tenths(a) * Parts, a) <= Parts
<1>1. Tenths(a) = (2 * a + Parts) \div (2 * Parts)
  BY HalfIsAdded DEF Tenths, Truncated
<1> QED
  BY <1>1, HalfIsAdded

\* A coordinate is rounded to the nearest unit of the last digit, away from zero at
\* the half, on either side of zero.
LEMMA RoundedIsNearest ==
  ASSUME NEW n \in Int
  PROVE  Rounded(n) \in Int /\ 2 * Distance(Rounded(n) * Parts, n) <= Parts
<1>1. CASE n >= 0
  <2>1. Rounded(n) = (2 * n + Parts) \div (2 * Parts)
    BY <1>1 DEF Rounded, Truncated
  <2> QED
    BY <1>1, <2>1, HalfIsAdded
<1>2. CASE n < 0
  <2> DEFINE m == -n
             q == (2 * m + Parts) \div (2 * Parts)
  <2>1. m \in Nat /\ 2 * n + (-Parts) = -(2 * m + Parts)
    BY <1>2
  <2>2. Rounded(n) = -q
    BY <1>2, <2>1 DEF Rounded, Truncated
  <2>3. q \in Nat /\ 2 * Distance(q * Parts, m) <= Parts
    BY <2>1, HalfIsAdded
  <2> HIDE DEF q
  <2>4. (-q) * Parts = -(q * Parts) /\ q * Parts \in Nat
    BY <2>3
  <2> QED
    BY <1>2, <2>1, <2>2, <2>3, <2>4 DEF Distance
<1> QED
  BY <1>1, <1>2
-----------------------------------------------------------------------------
(* The message.                                                            *)

\* A message that is looked at is the one of the position that was published.
Shown ==
  message # Nothing =>
    coordinate \in Int /\ message = Printed(coordinate, AccuracyOf(coordinate))

\* Only publish_gps_data() makes one, and a request that begins takes both away.
LEMMA ShownInvariance == LocationSpec => []Shown
<1>1. LocationInit => Shown
  BY DEF LocationInit, Shown
<1>2. Shown /\ [LocationNext]_locationVars => Shown'
  <2> SUFFICES ASSUME Shown, [LocationNext]_locationVars PROVE Shown'
    OBVIOUS
  <2>1. CASE publish_gps_data
    <3>1. \A n \in Coordinates : n \in Int
      BY DEF Coordinates
    <3> QED
      BY <2>1, <3>1 DEF publish_gps_data, Shown
  <2>2. CASE OtherStep
    BY <2>2 DEF OtherStep, Shown
  <2>3. CASE UNCHANGED locationVars
    BY <2>3 DEF locationVars, Shown
  <2> QED
    BY <2>1, <2>2, <2>3 DEF LocationNext
<1> QED
  BY <1>1, <1>2, PTL DEF LocationSpec

\* The accuracy that is read from a message is a tenth nearest to the one that was
\* measured, for every position (publish_msg_factory.c:144-147).
THEOREM AccuracyIsNearest == LocationSpec => []NearestAccuracy
<1>1. Shown => NearestAccuracy
  <2> SUFFICES ASSUME Shown, message # Nothing
               PROVE  2 * Distance(ReadAccuracy(message), AccuracyOf(coordinate)) <= Parts
    BY DEF NearestAccuracy
  <2> DEFINE a == AccuracyOf(coordinate)
             t == Tenths(a)
  <2>1. a \in Nat
    BY DEF Shown, AccuracyOf, Distance
  <2>2. t \in Nat /\ 2 * Distance(t * Parts, a) <= Parts
    BY <2>1, TenthsAreNearest
  <2>3. message.accuracy[1] = t \div 10 /\ message.accuracy[2] = t % 10
    BY DEF Shown, Printed
  <2> HIDE DEF t
  <2>4. ReadAccuracy(message) = t * Parts
    BY <2>2, <2>3, TenthsJoin DEF ReadAccuracy
  <2> QED
    BY <2>2, <2>4
<1> QED
  BY <1>1, ShownInvariance, PTL

\* The parts of a coordinate, joined by a reader, are the rounded coordinate.
LEMMA SplitJoins ==
  ASSUME NEW n \in Int, NEW a
  PROVE  ReadCoordinate(Printed(n, a)) = Rounded(n) * Parts
<1> DEFINE r == Rounded(n)
           size == IF r < 0 THEN -r ELSE r
           ip == size \div Scale
           fp == size % Scale
           text == Printed(n, a)
<1>1. r \in Int /\ Scale \in Nat \ {0}
  BY RoundedIsNearest, PowerType DEF Scale
<1>2. text.neg = (r < 0) /\ text.whole = ip /\ text.fraction = Digits(fp)
  BY DEF Printed, split_fixed
<1> HIDE DEF r, text
<1>3. size \in Nat
  BY <1>1
<1> HIDE DEF size
<1>4. ip \in Nat /\ fp \in 0 .. Scale - 1 /\ ip * Scale + fp = size
  BY <1>1, <1>3
<1>5. Read(text.fraction) = fp * Parts
  BY <1>2, <1>4, ReadsBack
<1> HIDE DEF ip, fp
<1>6. ip * Parts * Scale + fp * Parts = size * Parts
  <2>1. ip * Parts * Scale = ip * Scale * Parts
    BY <1>1, <1>4
  <2>2. (ip * Scale + fp) * Parts = ip * Scale * Parts + fp * Parts
    BY <1>1, <1>4
  <2> QED
    BY <1>1, <1>4, <2>1, <2>2
<1>7. ReadCoordinate(text) = IF r < 0 THEN -(size * Parts) ELSE size * Parts
  BY <1>2, <1>5, <1>6 DEF ReadCoordinate
<1> QED
  BY <1>1, <1>7 DEF size, r, text

\* The coordinate that is read from a message is a decimal nearest to the one that
\* was measured, with its sign and the carry of the fraction, for every position
\* and every number of digits (publish_msg_factory.c:111-129, 149-152).
THEOREM CoordinateIsNearest == LocationSpec => []NearestCoordinate
<1>1. Shown => NearestCoordinate
  BY SplitJoins, RoundedIsNearest DEF Shown, NearestCoordinate
<1> QED
  BY <1>1, ShownInvariance, PTL
-----------------------------------------------------------------------------
(* What holds of Gnss, under the messages.                                 *)

\* The request, the receiver and the frames are as without messages.
THEOREM GnssHolds ==
  /\ LocationSpec => [](TypeOK /\ ReceiverIsKnown /\ StoppedUnlessFailed /\ NoPositionTwice)
  /\ LocationSpec => Service!Safety
<1>1. LocationSpec => Spec
  BY ImplementsGnss
<1> QED
  BY <1>1, TypeCorrect, ReceiverKnown, StoppedEachTime, OneRequestPerFrame,
     ImplementsLocationService, PTL
=============================================================================
