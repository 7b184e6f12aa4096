------------------------------ MODULE Percentage ------------------------------
(***************************************************************************)
(* The verdict on a quiz, score >= passingScore, where the score is        *)
(* (correct / total) * 100 in the 64-bit floating point of the runtime.    *)
(*                                                                         *)
(* For counts below 2^40 rounding cannot carry a share across a whole      *)
(* percentage it does not equal: the neighbours are too far apart.  It can *)
(* lose a share that equals one: the quotient is rounded down, and the     *)
(* product is then nearer to the number below the percentage than to the   *)
(* percentage.                                                             *)
(***************************************************************************)
EXTENDS Integers

\* The share c of t is a whole percentage, and c / t * 100 comes out below it.
\* Scaled by powers of two, c / t is num / den, at least 1 and below 2; left[n]
\* is what is left over of num after n binary places of the quotient.  The
\* quotient keeps 52 places and is rounded down if less than half is left; a
\* hundred times what is lost must be over half the distance from the
\* percentage to the number below it.
FallsShort(c, t) ==
    /\ c > 0
    /\ (100 * c) % t = 0
    /\ LET score == (100 * c) \div t
           up == CHOOSE i \in 0..t : c * 2^i >= t /\ (i > 0 => c * 2^(i - 1) < t)
           down == CHOOSE i \in 0..c : t * 2^(i + 1) > c /\ (i > 0 => t * 2^i <= c)
           num == c * 2^up
           den == t * 2^down
           left[n \in 0..52] == IF n = 0 THEN num % den ELSE (2 * left[n - 1]) % den
           log == CHOOSE i \in 0..score : 2^i <= score /\ score < 2^(i + 1)
           below == IF score = 2^log THEN log - 1 ELSE log
       IN  /\ 2 * left[52] < den
           /\ 200 * left[52] > t * 2^(below + up)

\* The score must be above the bar.
M_PassesAbove(correct, total, bar) == total > 0 /\ 100 * correct > bar * total

\* score >= passingScore; without questions the score is 0.
Passes(correct, total, bar) ==
    IF total = 0 THEN bar = 0
    ELSE \/ 100 * correct > bar * total
         \/ 100 * correct = bar * total /\ ~FallsShort(correct, total)
=============================================================================
