------------------------------ MODULE MCBaskets ------------------------------
\* A lot that wins brings a tenth of the capital, an archived one nothing; the fees of a
\* basket cost a fifth, so they decide whether it lost.
EXTENDS Baskets, TLC

MCOutcomes == {1}
MCFundingFees == {0, -2}
MCProtections == [enabled |-> TRUE, maxConsecutiveLosses |-> 2, maxDrawdownPct |-> 20,
                  capitalBaseUsdt |-> 10, lookbackBaskets |-> 2]
TaskSymmetry == Permutations(Tasks)
=============================================================================
