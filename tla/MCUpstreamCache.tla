--------------------------- MODULE MCUpstreamCache ---------------------------
EXTENDS UpstreamCache, TLC

\* Callers and execution identities are interchangeable (safety runs only).
Symmetry == Permutations(Callers) \cup Permutations(Runs)

=============================================================================
