------------------------------- MODULE Scores -------------------------------
(***************************************************************************)
(* What every score of the program shares.  A score is in tenths of a      *)
(* point, 0 .. 1000, since all of them are rounded to one decimal place.   *)
(***************************************************************************)
EXTENDS Integers, Functions

\* For a number that is left out.
NotGiven == -1

\* round(n / d, 1) with n / d in tenths: to the nearest, ties to the even one.
Rounded(n, d) ==
  LET low == n \div d
      twice == 2 * (n % d)
  IN  IF twice > d \/ (twice = d /\ low % 2 = 1) THEN low + 1 ELSE low

AtMost(x, y) == IF x <= y THEN x ELSE y
AtLeast(x, y) == IF x >= y THEN x ELSE y

Bounded(score) == AtLeast(0, AtMost(1000, score))

Grade(score) ==
  CASE score >= 900 -> "A"
    [] score >= 800 -> "B"
    [] score >= 700 -> "C"
    [] score >= 600 -> "D"
    [] OTHER -> "F"

\* The mean of a non-empty function into the scores.
Mean(scores, size) == Rounded(SumFunction(scores), size)
=============================================================================
