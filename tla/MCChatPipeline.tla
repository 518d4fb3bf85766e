--------------------------- MODULE MCChatPipeline ---------------------------
\* Small instances of ChatPipeline for TLC.
EXTENDS ChatPipeline, TLC

CONSTANTS t1, t2

\* Two virtual models that prefer different targets.
MCRoutes == {<<t1, t2>>, <<t2, t1>>}

=============================================================================
