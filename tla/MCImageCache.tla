---------------------------- MODULE MCImageCache ----------------------------
EXTENDS ImageEviction, TLC

\* Hashes and mappers are interchangeable.
Symmetry == Permutations(Hashes) \cup Permutations(Mappers)

=============================================================================
