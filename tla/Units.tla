------------------------------- MODULE Units -------------------------------
(***************************************************************************)
(* bot/src/lib/unit.js.  A decimal numeral is a record: whether it is      *)
(* negative, and the digits before and after the point.                    *)
(***************************************************************************)
EXTENDS Naturals, Sequences, SequencesExt

Numerals == [negative : BOOLEAN, whole : Seq(0 .. 9), fraction : Seq(0 .. 9)]

tenTo[n \in Nat] == IF n = 0 THEN 1 ELSE 10 * tenTo[n - 1]

number(digits) == FoldLeft(LAMBDA n, d : 10 * n + d, 0, digits)

orZero(digits) == IF digits = <<>> THEN <<0>> ELSE digits

\* Mutant: the digits that are too many stay.
fittedMutant(fraction, length) ==
  fraction \o [i \in 1 .. (IF Len(fraction) < length THEN length - Len(fraction) ELSE 0) |-> 0]
\* Digits beyond the smallest unit are dropped, missing ones are zeros.
fitted(fraction, length) ==
  [i \in 1 .. length |-> IF i <= Len(fraction) THEN fraction[i] ELSE 0]

\* The unit has 10^decimals wei.  One of no decimals keeps one all the same.
baseLength(decimals) == IF decimals = 0 THEN 1 ELSE decimals

\* The sign is handled by a name that is not defined, so a negative amount
\* throws; and so does a point without a digit.
isConvertible(ether) == ~ ether.negative /\ ether.whole \o ether.fraction # <<>>

toWei(ether, decimals) ==
  number(orZero(ether.whole)) * tenTo[decimals]
    + number(fitted(orZero(ether.fraction), baseLength(decimals)))

\* Reference: so many wei are what an amount has, without the fraction of one.
isFloor(wei, ether, decimals) ==
  LET scale == tenTo[Len(ether.fraction)]
      exact == number(ether.whole \o ether.fraction) * tenTo[decimals]
  IN  wei * scale <= exact /\ exact < (wei + 1) * scale
=============================================================================
