------------------------------ MODULE Matching ------------------------------
(***************************************************************************)
(* The amount arithmetic of internal/orders: when an on-chain amount       *)
(* matches an order's expected_amount, how far short of it a payment may   *)
(* fall and still be attributed as an underpayment, and which of several   *)
(* underpaid candidates is picked.                                         *)
(*                                                                         *)
(* Amounts are integers in one common unit (the code's decimals have at    *)
(* most eight places).  Percentages are compared by cross-multiplication:  *)
(* expected amounts are positive (CHECK expected_amount > 0), so the order *)
(* of two quotients is the order of the cross products.                    *)
(***************************************************************************)
EXTENDS Integers, Sequences

CONSTANTS
    Tolerance,      \* AMOUNT_TOLERANCE_USD
    MaxGapPercent   \* UNDERPAYMENT_MAX_GAP_PERCENT

ASSUME MatchingAssumption ==
    /\ Tolerance \in Int
    /\ MaxGapPercent \in Int

Mutant_WithinTolerance(expected, amount) == amount - Tolerance <= expected

\* expected_amount BETWEEN amount - tolerance AND amount + tolerance.
WithinTolerance(expected, amount) ==
    /\ amount - Tolerance <= expected
    /\ expected <= amount + Tolerance

\* gapPercent.GreaterThan(maxGapPercent): the shortfall is too ambiguous.
GapTooLarge(expected, amount) ==
    (expected - amount) * 100 > MaxGapPercent * expected

\* gapPercent(e1).LessThan(gapPercent(e2)).
SmallerGap(e1, e2, amount) ==
    (e1 - amount) * e2 < (e2 - amount) * e1

-----------------------------------------------------------------------------
(***************************************************************************)
(* The loop of ClaimUnderpaid over the candidate rows, which the query     *)
(* returns in ascending order of expected_amount.  best[i] is the index    *)
(* held in "best" after the first i rows, 0 for nil.                       *)
(***************************************************************************)
BestAfter(candidates, amount) ==
    LET best[i \in 0..Len(candidates)] ==
          IF i = 0 THEN 0
          ELSE IF GapTooLarge(candidates[i], amount) THEN best[i-1]
          ELSE IF best[i-1] = 0 \/ SmallerGap(candidates[i], candidates[best[i-1]], amount)
               THEN i
               ELSE best[i-1]
    IN  best[Len(candidates)]

\* Does expected amount e win the loop against the set S of expected amounts
\* whose gap is acceptable?  The first of the smallest gaps is kept.
WinsOver(e, S, amount) ==
    \A d \in S : /\ ~ SmallerGap(d, e, amount)
                 /\ SmallerGap(e, d, amount) \/ e <= d
=============================================================================
