--------------------------- MODULE MCRateLimiter ---------------------------
\* Small instances of RateLimiter for TLC.
EXTENDS RateLimiter, TLC

\* Both limits, each alone, and the limits at and below zero.
MCQuotas == { [rpm |-> 2, daily |-> 3], [rpm |-> 2, daily |-> NoLimit],
              [rpm |-> NoLimit, daily |-> 2], [rpm |-> 1, daily |-> -1],
              [rpm |-> -1, daily |-> 0] }

MCSymmetry == Permutations(Request)

=============================================================================
