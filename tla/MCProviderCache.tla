--------------------------- MODULE MCProviderCache ---------------------------
\* Small instances of ProviderCache for TLC.
EXTENDS ProviderCache, TLC

MCSymmetry == Permutations(Admin) \union Permutations(Caller)

=============================================================================
