---------------------------- MODULE ImageEviction ----------------------------
(***************************************************************************)
(* What one eviction of the image cache answers for when the table has     *)
(* more rows than a batch (ImageCache.cs:224 reads the 1024 oldest): a     *)
(* history of the rows that a batch left out.  It watches the steps of     *)
(* ImageCache and changes none of them.                                    *)
(***************************************************************************)
EXTENDS ImageCache

VARIABLE missed  \* rows with bytes that a batch left out when it was read

watchVars == <<vars, missed>>

Recorded(h) == fetch[h] = "filed" /\ fetch'[h] = "recorded"
Reads(h) == fetch[h] = "recorded" /\ fetch'[h] = "checking"

LeftOut == UNION {Known \ ToSet(evict'[h]) : h \in {g \in Hashes : Reads(g)}}

\* A row stays missed until it goes, loses its bytes or is stored again.
Watch == missed' = sized' \cap ({h \in missed : ~Recorded(h)} \cup LeftOut)

WatchInit == Init /\ missed = {}
WatchNext == Next /\ Watch
WatchSpec == WatchInit /\ [][WatchNext]_watchVars
WatchFairSpec == WatchSpec /\ FetchFairness

-----------------------------------------------------------------------------
\* Properties

\* A download that is the only one past its row leaves the rows within the cap, or
\* no bytes but those of rows that some batch left out: every row an eviction was
\* given is dealt with, however large the table, over any number of evictions,
\* crashes and purges (ImageCache.cs:218-231).
CapEnforcedInBatches ==
  [][\A h \in Hashes :
       /\ (EnforceTotalCap(h) /\ fetch'[h] = "idle") \/ EvictionEnds(h)
       /\ OnlyEnforcer(h)
       => SumUrlBytes <= Cap \/ sized \subseteq missed]_watchVars

=============================================================================
