----------------------------- MODULE ImageCache -----------------------------
(***************************************************************************)
(* The image cache: Metacache.Core/Cache/ImageCache.cs and ImageStore.cs,  *)
(* the `urls` rows of CacheStore.cs, and the image part of the selective   *)
(* purge in Metacache.Host/AdminEndpoints.cs.                              *)
(*                                                                         *)
(* Rows live in SQLite, bytes live in files, and nothing ties the two      *)
(* together but the order in which the code touches them.  Each row        *)
(* operation and each file operation is a step of its own; mappers that    *)
(* register artwork, downloads, evictions, resizes, a purge and a crash    *)
(* interleave between them.                                                *)
(*                                                                         *)
(* Every image counts one unit of bytes, and rows are registered at        *)
(* distinct instants, so the `urls` table ordered by fetched_at is a       *)
(* sequence.  One variant size stands for the seven.  The single flight    *)
(* (SharedFlight.tla) runs at most one download and one resize per hash.   *)
(***************************************************************************)
EXTENDS Integers, FiniteSets, SequencesExt

CONSTANTS
  Hashes,      \* content hashes of artwork URLs
  Mappers,     \* threads in MovieProviderService / TvProviderService
  Cap,         \* _maxTotalBytes, in images
  EvictBatch,  \* GetOldestUrls(1024) in EnforceTotalCap
  PurgeBatch,  \* GetOldestUrls(10) in the selective purge
  Purging,     \* whether an operator runs the selective purge
  Crashing,    \* whether the process may crash and restart
  NoHash

ASSUME CapAssumption == Cap \in Nat /\ EvictBatch \in Nat \ {0} /\ PurgeBatch \in Nat \ {0}
ASSUME SwitchAssumption == Purging \in BOOLEAN /\ Crashing \in BOOLEAN
ASSUME HashAssumption == IsFiniteSet(Hashes) /\ NoHash \notin Hashes

VARIABLES
  urls,      \* hashes with a row in `urls`, oldest fetched_at first
  sized,     \* hashes whose row has a path and a size; the others were registered only
  files,     \* hashes with an original on disk
  variants,  \* hashes with a resized variant on disk
  mapper,    \* per mapper: the hash RegisterUrl found no row for, or NoHash
  fetch,     \* per hash: where its FetchCoreAsync is
  evict,     \* per hash: the rows its EnforceTotalCap has still to visit
  resize,    \* per hash: where its GetVariantAsync is
  purge      \* the purge: its byte cap, its running total, the rows read as its batch

vars == <<urls, sized, files, variants, mapper, fetch, evict, resize, purge>>

FetchStages == {"idle", "entered", "downloading", "received", "filed", "recorded",
                "checking", "deletingRow", "deletingFile"}

NoPurge == [active |-> FALSE, cap |-> 0, current |-> 0, batch |-> <<>>]

Known == ToSet(urls)

TypeOK ==
  /\ urls \in Seq(Hashes) /\ IsInjective(urls)
  /\ sized \subseteq Known
  /\ files \subseteq Hashes /\ variants \subseteq Hashes
  /\ mapper \in [Mappers -> Hashes \cup {NoHash}]
  /\ fetch \in [Hashes -> FetchStages]
  /\ evict \in [Hashes -> Seq(Hashes)]
  /\ resize \in [Hashes -> {"idle", "asked", "decoded"}]
  /\ purge \in [active: BOOLEAN, cap: Nat, current: Int,
                batch: Seq([hash: Hashes, size: {0, 1}])]

Init ==
  /\ urls = <<>> /\ sized = {} /\ files = {} /\ variants = {}
  /\ mapper = [m \in Mappers |-> NoHash]
  /\ fetch = [h \in Hashes |-> "idle"]
  /\ evict = [h \in Hashes |-> <<>>]
  /\ resize = [h \in Hashes |-> "idle"]
  /\ purge = NoPurge

-----------------------------------------------------------------------------
\* The rows of `urls`

\* The hash is the primary key: it has one row or none.
Without(h) ==
  IF h \in Known THEN RemoveAt(urls, CHOOSE i \in DOMAIN urls : urls[i] = h) ELSE urls

SumUrlBytes == Cardinality(sized)

GetOldestUrls(limit) == SubSeq(urls, 1, IF limit < Len(urls) THEN limit ELSE Len(urls))

\* Upsert with fetched_at = now: the row becomes the newest one.
PutUrl(h, hasFile) ==
  /\ urls' = Append(Without(h), h)
  /\ sized' = IF hasFile THEN sized \cup {h} ELSE sized \ {h}

DeleteUrl(h) ==
  /\ urls' = Without(h)
  /\ sized' = sized \ {h}

-----------------------------------------------------------------------------
\* RegisterUrl: look for a row, then write an empty one

RegisterLook(m, h) ==
  /\ mapper[m] = NoHash
  /\ h \notin Known
  /\ mapper' = [mapper EXCEPT ![m] = h]
  /\ UNCHANGED <<urls, sized, files, variants, fetch, evict, resize, purge>>

RegisterPut(m) ==
  /\ mapper[m] # NoHash
  /\ PutUrl(mapper[m], FALSE)
  /\ mapper' = [mapper EXCEPT ![m] = NoHash]
  /\ UNCHANGED <<files, variants, fetch, evict, resize, purge>>

-----------------------------------------------------------------------------
\* GetOrFetchAsync and FetchCoreAsync

Go(h, stage) == fetch' = [fetch EXCEPT ![h] = stage]

\* Reached with a row from /img/{hash} and without one from the warmer.
Request(h) ==
  /\ fetch[h] = "idle"
  /\ h \notin files
  /\ Go(h, "entered")
  /\ UNCHANGED <<urls, sized, files, variants, mapper, evict, resize, purge>>

\* The file may have been stored while this call waited for the flight.
CheckAgain(h) ==
  /\ fetch[h] = "entered"
  /\ Go(h, IF h \in files THEN "idle" ELSE "downloading")
  /\ UNCHANGED <<urls, sized, files, variants, mapper, evict, resize, purge>>

\* A 2xx answer within the per-file cap, or an exception and no state.
Download(h) ==
  /\ fetch[h] = "downloading"
  /\ \/ Go(h, "received")
     \/ Go(h, "idle")
  /\ UNCHANGED <<urls, sized, files, variants, mapper, evict, resize, purge>>

StoreFile(h) ==
  /\ fetch[h] = "received"
  /\ files' = files \cup {h}
  /\ Go(h, "filed")
  /\ UNCHANGED <<urls, sized, variants, mapper, evict, resize, purge>>

\* Defect: a row that was evicted during the download is not written again.
RecordExistingRow(h) ==
  /\ fetch[h] = "filed"
  /\ IF h \in Known THEN PutUrl(h, TRUE) ELSE UNCHANGED <<urls, sized>>
  /\ Go(h, "recorded")
  /\ UNCHANGED <<files, variants, mapper, evict, resize, purge>>

RecordRow(h) ==
  /\ fetch[h] = "filed"
  /\ PutUrl(h, TRUE)
  /\ Go(h, "recorded")
  /\ UNCHANGED <<files, variants, mapper, evict, resize, purge>>

-----------------------------------------------------------------------------
\* EnforceTotalCap

\* Defect: the cap is compared with the total before this download.
EnforcePreviousTotal(h) ==
  /\ fetch[h] = "recorded"
  /\ IF SumUrlBytes - 1 <= Cap
     THEN Go(h, "idle") /\ UNCHANGED evict
     ELSE Go(h, "checking") /\ evict' = [evict EXCEPT ![h] = GetOldestUrls(EvictBatch)]
  /\ UNCHANGED <<urls, sized, files, variants, mapper, resize, purge>>

\* Nothing to do, or a snapshot of the oldest rows to walk through.
EnforceTotalCap(h) ==
  /\ fetch[h] = "recorded"
  /\ IF SumUrlBytes <= Cap
     THEN Go(h, "idle") /\ UNCHANGED evict
     ELSE Go(h, "checking") /\ evict' = [evict EXCEPT ![h] = GetOldestUrls(EvictBatch)]
  /\ UNCHANGED <<urls, sized, files, variants, mapper, resize, purge>>

\* The loop stops when the cap is met or the snapshot is used up.
EvictionEnds(h) ==
  /\ fetch[h] = "checking"
  /\ evict[h] = <<>> \/ SumUrlBytes <= Cap
  /\ Go(h, "idle")
  /\ evict' = [evict EXCEPT ![h] = <<>>]
  /\ UNCHANGED <<urls, sized, files, variants, mapper, resize, purge>>

EvictionGoesOn(h) ==
  /\ fetch[h] = "checking"
  /\ evict[h] # <<>> /\ SumUrlBytes > Cap
  /\ Go(h, "deletingRow")
  /\ UNCHANGED <<urls, sized, files, variants, mapper, evict, resize, purge>>

EvictRow(h) ==
  /\ fetch[h] = "deletingRow"
  /\ DeleteUrl(Head(evict[h]))
  /\ Go(h, "deletingFile")
  /\ UNCHANGED <<files, variants, mapper, evict, resize, purge>>

\* Defect: the loop does not move on to the next row.
EvictSameRowAgain(h) ==
  /\ fetch[h] = "deletingFile"
  /\ files' = files \ {Head(evict[h])}
  /\ variants' = variants \ {Head(evict[h])}
  /\ Go(h, "checking")
  /\ UNCHANGED <<urls, sized, mapper, evict, resize, purge>>

\* ImageStore.Delete: the original and every variant of it.
EvictFile(h) ==
  /\ fetch[h] = "deletingFile"
  /\ files' = files \ {Head(evict[h])}
  /\ variants' = variants \ {Head(evict[h])}
  /\ evict' = [evict EXCEPT ![h] = Tail(evict[h])]
  /\ Go(h, "checking")
  /\ UNCHANGED <<urls, sized, mapper, resize, purge>>

-----------------------------------------------------------------------------
\* GetVariantAsync and ResizeCore

\* A known hash without a variant: GetVariantAsync goes on to the original, whose
\* download, if it takes one, is a Request.
ResizeAsk(h) ==
  /\ resize[h] = "idle"
  /\ h \in Known /\ h \notin variants
  /\ resize' = [resize EXCEPT ![h] = "asked"]
  /\ UNCHANGED <<urls, sized, files, variants, mapper, fetch, evict, purge>>

\* ResizeCore decodes the original, if nothing has removed it meanwhile.
ResizeLoad(h) ==
  /\ resize[h] = "asked"
  /\ resize' = [resize EXCEPT ![h] =
       IF h \in files /\ h \notin variants THEN "decoded" ELSE "idle"]
  /\ UNCHANGED <<urls, sized, files, variants, mapper, fetch, evict, purge>>

\* Write the variant, or none when the original is small enough or undecodable.
ResizeStore(h) ==
  /\ resize[h] = "decoded"
  /\ variants' \in {variants, variants \cup {h}}
  /\ resize' = [resize EXCEPT ![h] = "idle"]
  /\ UNCHANGED <<urls, sized, files, mapper, fetch, evict, purge>>

-----------------------------------------------------------------------------
\* POST /admin/purge/selective with imageBytes

\* The rows as they were read, sizes included.
RowsOf(hashes) ==
  [i \in DOMAIN hashes |->
     [hash |-> hashes[i], size |-> IF hashes[i] \in sized THEN 1 ELSE 0]]

PurgeStart(bytes) ==
  /\ Purging /\ ~purge.active
  /\ bytes > 0
  /\ purge' = [active |-> TRUE, cap |-> bytes, current |-> SumUrlBytes, batch |-> <<>>]
  /\ UNCHANGED <<urls, sized, files, variants, mapper, fetch, evict, resize>>

\* The running total says the cap is not met: take the next batch, if there are rows.
PurgeNextBatch ==
  /\ purge.active /\ purge.batch = <<>>
  /\ purge' = IF purge.current > purge.cap /\ urls # <<>>
              THEN [purge EXCEPT !.batch = RowsOf(GetOldestUrls(PurgeBatch))]
              ELSE NoPurge
  /\ UNCHANGED <<urls, sized, files, variants, mapper, fetch, evict, resize>>

\* A row of the batch goes, whatever the total is by now; its file is not touched.
PurgeRow ==
  /\ purge.active /\ purge.batch # <<>>
  /\ DeleteUrl(Head(purge.batch).hash)
  /\ purge' = [purge EXCEPT !.batch = Tail(@),
                            !.current = @ - Head(purge.batch).size]
  /\ UNCHANGED <<files, variants, mapper, fetch, evict, resize>>

-----------------------------------------------------------------------------

\* The process dies: every thread is gone, rows and files stay as they are.
Crash ==
  /\ Crashing
  /\ mapper' = [m \in Mappers |-> NoHash]
  /\ fetch' = [h \in Hashes |-> "idle"]
  /\ evict' = [h \in Hashes |-> <<>>]
  /\ resize' = [h \in Hashes |-> "idle"]
  /\ purge' = NoPurge
  /\ UNCHANGED <<urls, sized, files, variants>>

FetchStep(h) ==
  \/ CheckAgain(h)
  \/ Download(h)
  \/ StoreFile(h)
  \/ RecordRow(h)
  \/ EnforceTotalCap(h)
  \/ EvictionEnds(h)
  \/ EvictionGoesOn(h)
  \/ EvictRow(h)
  \/ EvictFile(h)

Next ==
  \/ \E m \in Mappers, h \in Hashes : RegisterLook(m, h)
  \/ \E m \in Mappers : RegisterPut(m)
  \/ \E h \in Hashes : Request(h) \/ FetchStep(h)
  \/ \E h \in Hashes : ResizeAsk(h) \/ ResizeLoad(h) \/ ResizeStore(h)
  \/ \E bytes \in 0..Cap : PurgeStart(bytes)
  \/ PurgeNextBatch
  \/ PurgeRow
  \/ Crash

Spec == Init /\ [][Next]_vars

\* A started download ends within the client's timeout and its code runs on; a crash
\* may cut it short, which also ends it.
FetchFairness == \A h \in Hashes : WF_vars(FetchStep(h))

-----------------------------------------------------------------------------
\* Properties

Quiet ==
  /\ \A h \in Hashes : fetch[h] = "idle" /\ resize[h] = "idle"
  /\ \A m \in Mappers : mapper[m] = NoHash
  /\ ~purge.active

\* The download of h is the only one past its row.
OnlyEnforcer(h) ==
  \A g \in Hashes \ {h} : fetch[g] \notin {"recorded", "checking", "deletingRow", "deletingFile"}

\* No file is left without a row, so nothing on disk escapes the cap for good, while
\* downloads, evictions and registrations of the same hashes interleave
\* (ImageCache.cs:208-210, 228-229).
FilesAreKnown == TypeOK /\ (Quiet => files \subseteq Known)

\* Every download ends: eviction walks a finite snapshot even when it never gets
\* below the cap.
EveryFetchEnds == \A h \in Hashes : fetch[h] # "idle" ~> fetch[h] = "idle"

=============================================================================
