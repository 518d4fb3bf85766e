---------------------------- MODULE MCChatStream ----------------------------
\* Small instances of ChatStream for TLC.
EXTENDS ChatStream, TLC

CONSTANTS t1, t2

\* A virtual model with a fallback.
MCFailover == {<<t1, t2>>}

\* A direct model.
MCDirect == {<<t1>>}

MCSymmetry == Permutations(Request)

=============================================================================
