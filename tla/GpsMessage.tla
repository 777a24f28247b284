----------------------------- MODULE GpsMessage -----------------------------
(***************************************************************************)
(* The numbers in a GPS message: publish_gps_data() prints a latitude and  *)
(* a longitude through split_fixed(), as a sign, an integer part and a     *)
(* fraction of a fixed number of digits, and the accuracy in tenths.  The  *)
(* C library in use cannot print floating point.                           *)
(*                                                                         *)
(* A coordinate is an exact number of units of 1 / (Parts * Scale), with   *)
(* Scale = 10^Dec; the rounding of the double arithmetic itself is not     *)
(* modelled.  Text is the sequence of its digits.                          *)
(***************************************************************************)
EXTENDS Integers

CONSTANTS
  Dec,          \* digits of the fraction: 6 in the code
  Parts         \* how finely coordinates are told apart, per last digit

ASSUME GpsAssumption == Dec \in Nat \ {0} /\ Parts \in Nat \ {0}

Power[i \in 0 .. Dec] == IF i = 0 THEN 1 ELSE 10 * Power[i - 1]

\* int64_t scale
Scale == Power[Dec]

\* A cast of n / d to an integer type: towards zero.
Truncated(n, d) == IF n >= 0 THEN n \div d ELSE -((-n) \div d)

\* Mutated form: half is added whatever the sign.
Rounded_HalfUp(n) == Truncated(2 * n + Parts, 2 * Parts)

\* v * scale + (v >= 0.0 ? 0.5 : -0.5), cast to int64_t.
Rounded(n) == Truncated(2 * n + (IF n >= 0 THEN Parts ELSE -Parts), 2 * Parts)

\* The sign is that of the rounded number: there is no "-0.000000".
split_fixed(n) ==
  LET scaled == Rounded(n)
      size == IF scaled < 0 THEN -scaled ELSE scaled
  IN  [neg |-> scaled < 0, ip |-> size \div Scale, fp |-> size % Scale]

\* "%06u"
Digits(x) == [i \in 1 .. Dec |-> (x \div Power[Dec - i]) % 10]

\* Mutated form: the accuracy is cut instead of rounded.
Tenths_Cut(n) == Truncated(n, Parts)

\* acc10: (int)(accuracy * 10.0 + 0.5), not below 0.
Tenths(n) ==
  LET acc10 == Truncated(2 * n + Parts, 2 * Parts)
  IN  IF acc10 < 0 THEN 0 ELSE acc10

Printed(n, a) ==
  LET s == split_fixed(n)
  IN  [neg |-> s.neg, whole |-> s.ip, fraction |-> Digits(s.fp),
       accuracy |-> <<Tenths(a) \div 10, Tenths(a) % 10>>]
-----------------------------------------------------------------------------
(* What a reader of the message gets back.                                 *)

Distance(x, y) == IF x >= y THEN x - y ELSE y - x

\* The fraction that a decimal text stands for, in units.
Read(digits) ==
  LET value[i \in 0 .. Dec] ==
        IF i = 0 THEN 0 ELSE value[i - 1] + digits[i] * Parts * Power[Dec - i]
  IN  value[Dec]

ReadCoordinate(text) ==
  LET size == text.whole * Parts * Scale + Read(text.fraction)
  IN  IF text.neg THEN -size ELSE size

ReadAccuracy(text) == (10 * text.accuracy[1] + text.accuracy[2]) * Parts
=============================================================================
