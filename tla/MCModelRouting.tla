--------------------------- MODULE MCModelRouting ---------------------------
\* Small instances of ModelRouting for TLC.
EXTENDS ModelRouting, TLC

CONSTANTS m1, m2, p1, p2

\* Each provider has one model.
MCProviderOf == m1 :> p1 @@ m2 :> p2

\* One name at both providers: direct use is ambiguous while both are enabled.
MCKeyOf == m1 :> "k1" @@ m2 :> "k1"

\* Both models in either order or with one priority, or one named twice: the second
\* row wins.
MCLists ==
  LET row(m, n, b) == [model |-> m, prio |-> n, on |-> b]
  IN  { <<row(m1, 1, TRUE), row(m2, 2, TRUE)>>,
        <<row(m1, 2, TRUE), row(m2, 1, TRUE)>>,
        <<row(m1, 1, TRUE), row(m2, 1, TRUE)>>,
        <<row(m1, 1, TRUE), row(m1, 2, FALSE)>> }

MCSymmetry == Permutations(Admin)

=============================================================================
