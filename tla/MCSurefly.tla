----------------------------- MODULE MCSurefly -----------------------------
(* Instances of the insurance contract for TLC.                            *)
EXTENDS SureflyProperties, TLC

\* Word 1024: 100 + 600 fits and reaches a maximum, 600 + 600 wraps, and so does
\* prob times every pool but 100, whose premiums are 7 and 4.
SmallQuotes ==
  {[maxPayout |-> 700, minPayout |-> 600, initialPremium |-> 60, prob |-> 7],
   [maxPayout |-> 100, minPayout |-> 0, initialPremium |-> 40, prob |-> 4]}
SmallAmounts == {100, 600}
SmallEndowments == {160}

\* Word 2^20: no sum or product of these amounts wraps.
LargeQuotes ==
  {[maxPayout |-> 300, minPayout |-> 200, initialPremium |-> 50, prob |-> 55]}
LargeAmounts == {100, 200}
LargeEndowments == {0, 800}

\* The accounts are interchangeable: no operation and no property names one.
Swaps == Permutations(Accounts)
=============================================================================
