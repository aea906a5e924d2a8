--------------------------- MODULE ProcessingTime ---------------------------
(***************************************************************************)
(* ProcessingController.calculateProcessingTime: a processing time drawn   *)
(* between the two request parameters, in Java int arithmetic, that is     *)
(* modulo 2^32 with a sign.  MaxInt stands for Integer.MAX_VALUE.          *)
(***************************************************************************)
EXTENDS Integers

CONSTANT MaxInt

ASSUME MaxIntAssumption == MaxInt \in Nat \ {0}

JavaInt == -MaxInt - 1 .. MaxInt

(* The value an int keeps of the integer n.                                *)
Wrap(n) == ((n + MaxInt + 1) % (2 * MaxInt + 2)) - MaxInt - 1

(* (int) (Math.random() * d): the product is in [0, d), or in (d, 0] for a *)
(* negative d, and the cast cuts it off towards zero.                      *)
RandomBelow(d) == IF d > 0 THEN 0 .. d - 1
                  ELSE IF d < 0 THEN d + 1 .. 0 ELSE {0}

(* Mutation: the adjustment of maxMs left out.                             *)
UpperBoundUnadjusted(minMs, maxMs) == maxMs

(* if (maxMs < minMs) maxMs = minMs;                                       *)
UpperBound(minMs, maxMs) == IF maxMs < minMs THEN minMs ELSE maxMs

(* Every value calculateProcessingTime(minMs, maxMs) can return.           *)
calculateProcessingTime(minMs, maxMs) ==
    {Wrap(minMs + k) : k \in RandomBelow(Wrap(UpperBound(minMs, maxMs) - minMs))}
-----------------------------------------------------------------------------
(* The difference of the bounds does not fit an int.                       *)
Overflows(minMs, maxMs) == UpperBound(minMs, maxMs) - minMs > MaxInt

(* What a caller expects of a drawn time: it is not below the minimum and  *)
(* below the maximum, unless the two leave no choice.                      *)
Drawn(minMs, maxMs, ms) == /\ ms >= minMs
                           /\ ms < UpperBound(minMs, maxMs) \/ ms = minMs
=============================================================================
