--------------------------- MODULE MCCacheWarmer ---------------------------
EXTENDS CacheWarmer, TLC

CONSTANTS Movies, Shows

Inventory == [p \in Parts |-> IF p = "movies" THEN Movies ELSE Shows]

\* Bodies are interchangeable, and so are the triggers other than the nightly one
\* (safety runs only).
Symmetry == Permutations(Workers) \cup Permutations(Triggers \ {Nightly})

=============================================================================
