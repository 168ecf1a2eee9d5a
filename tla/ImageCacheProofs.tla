-------------------------- MODULE ImageCacheProofs --------------------------
(***************************************************************************)
(* Theorems about ImageCache for any hashes, mappers, cap and batches, and *)
(* about SingleFlight, which runs its downloads and resizes, for any       *)
(* callers, keys and tasks.  The two share no state here: the cache takes  *)
(* from the flight that a hash has one download and one resize at a time.  *)
(***************************************************************************)
EXTENDS ImageEviction, SingleFlight, FiniteSetTheorems, SequenceTheorems, TLAPS

-----------------------------------------------------------------------------
\* Sequences of rows

\* A step forward in a sequence: its head, its tail, and what the tail keeps.
LEMMA HeadAndTail ==
  ASSUME NEW S, NEW s \in Seq(S), s # <<>>
  PROVE  /\ Head(s) \in S /\ Head(s) \in ToSet(s)
         /\ Tail(s) \in Seq(S)
         /\ ToSet(s) \ {Head(s)} \subseteq ToSet(Tail(s))
         /\ ToSet(Tail(s)) \subseteq ToSet(s)
<1>1. Len(s) \in Nat /\ Len(s) > 0 /\ DOMAIN s = 1..Len(s) /\ Head(s) = s[1]
  OBVIOUS
<1>2. /\ Tail(s) \in Seq(S) /\ DOMAIN Tail(s) = 1..(Len(s) - 1)
      /\ \A i \in 1..(Len(s) - 1) : Tail(s)[i] = s[i + 1]
  BY <1>1
<1>3. ASSUME NEW x \in ToSet(s), x # Head(s) PROVE x \in ToSet(Tail(s))
  <2>1. PICK i \in 1..Len(s) : s[i] = x
    BY <1>1 DEF ToSet
  <2>2. i - 1 \in 1..(Len(s) - 1) /\ Tail(s)[i - 1] = x
    BY <1>1, <1>2, <1>3, <2>1
  <2>3. QED
    BY <1>2, <2>2 DEF ToSet
<1>4. ASSUME NEW x \in ToSet(Tail(s)) PROVE x \in ToSet(s)
  <2>1. PICK i \in 1..(Len(s) - 1) : Tail(s)[i] = x
    BY <1>2 DEF ToSet
  <2>2. i + 1 \in 1..Len(s) /\ s[i + 1] = x
    BY <1>1, <1>2, <2>1
  <2>3. QED
    BY <1>1, <2>2 DEF ToSet
<1>5. Head(s) \in S /\ Head(s) \in ToSet(s)
  BY <1>1 DEF ToSet
<1>6. QED
  BY <1>2, <1>3, <1>4, <1>5

\* What follows a place in a sequence.
LEMMA Rest ==
  ASSUME NEW S, NEW s \in Seq(S), NEW k \in 1..Len(s)
  PROVE  /\ SubSeq(s, k + 1, Len(s)) \in Seq(S)
         /\ Len(SubSeq(s, k + 1, Len(s))) = Len(s) - k
         /\ \A i \in 1..(Len(s) - k) : SubSeq(s, k + 1, Len(s))[i] = s[i + k]
<1> DEFINE m == k + 1
           n == Len(s)
<1>1. m \in Int /\ n \in Int /\ m <= n + 1 /\ 1 <= m /\ n \in Nat
  OBVIOUS
<1>2. \A i \in m..n : s[i] \in S
  <2>1. s \in [1..n -> S]
    OBVIOUS
  <2>2. QED
    BY <1>1, <2>1
<1> HIDE DEF m, n
<1>3. /\ SubSeq(s, m, n) \in Seq(S)
      /\ Len(SubSeq(s, m, n)) = IF m <= n THEN n - m + 1 ELSE 0
      /\ \A i \in 1..(n - m + 1) : SubSeq(s, m, n)[i] = s[m + i - 1]
  BY <1>1, <1>2, SubSeqProperties
<1>4. Len(SubSeq(s, m, n)) = n - k
  BY <1>1, <1>3 DEF m
<1>5. ASSUME NEW i \in 1..(n - k) PROVE SubSeq(s, m, n)[i] = s[i + k]
  <2>1. m + i - 1 = i + k /\ n - m + 1 = n - k
    BY <1>1 DEF m
  <2>2. QED
    BY <1>3, <2>1
<1>6. QED
  BY <1>3, <1>4, <1>5 DEF m, n

\* A table without one row: the other rows, each still once.
LEMMA WithoutRow ==
  ASSUME urls \in Seq(Hashes), IsInjective(urls), NEW h
  PROVE  /\ Without(h) \in Seq(Hashes) /\ IsInjective(Without(h))
         /\ ToSet(Without(h)) = Known \ {h}
<1>1. CASE h \notin Known
  BY <1>1 DEF Without, Known
<1>2. CASE h \in Known
  <2> DEFINE k == CHOOSE i \in DOMAIN urls : urls[i] = h
             r == RemoveAt(urls, k)
  <2>1. k \in 1..Len(urls) /\ urls[k] = h /\ Len(urls) \in Nat /\ DOMAIN urls = 1..Len(urls)
    BY <1>2 DEF Known, ToSet
  <2>2. Without(h) = r
    BY <1>2 DEF Without
  <2> HIDE DEF k
  <2> DEFINE a == SubSeq(urls, 1, k - 1)
             b == SubSeq(urls, k + 1, Len(urls))
  <2>a. /\ a \in Seq(Hashes) /\ Len(a) = k - 1
        /\ \A i \in 1..(k - 1) : a[i] = urls[i]
    BY <2>1
  <2>b. /\ b \in Seq(Hashes) /\ Len(b) = Len(urls) - k
        /\ \A i \in 1..(Len(urls) - k) : b[i] = urls[i + k]
    BY <2>1, Rest
  <2>c. r = a \o b
    BY DEF RemoveAt
  <2> HIDE DEF a, b, r
  <2>3. /\ r \in Seq(Hashes) /\ Len(r) = Len(urls) - 1
        /\ \A i \in 1..(Len(urls) - 1) : r[i] = IF i < k THEN urls[i] ELSE urls[i + 1]
    <3>1. /\ r \in Seq(Hashes) /\ Len(r) = Len(urls) - 1
          /\ \A i \in 1..Len(r) : r[i] = IF i <= k - 1 THEN a[i] ELSE b[i - (k - 1)]
      <4>1. Len(a) \in Nat /\ Len(b) \in Nat /\ Len(a) + Len(b) = Len(urls) - 1
        BY <2>1, <2>a, <2>b
      <4> USE <2>a, <2>b
      <4>2. /\ a \o b \in Seq(Hashes) /\ Len(a \o b) = Len(a) + Len(b)
            /\ \A i \in 1..(Len(a) + Len(b)) :
                 (a \o b)[i] = IF i <= Len(a) THEN a[i] ELSE b[i - Len(a)]
        BY ConcatProperties
      <4>3. QED
        BY <2>c, <4>1, <4>2
    <3>2. ASSUME NEW i \in 1..(Len(urls) - 1)
          PROVE r[i] = IF i < k THEN urls[i] ELSE urls[i + 1]
      <4>1. CASE i < k
        BY <2>1, <2>a, <3>1, <4>1
      <4>2. CASE ~(i < k)
        <5>1. i - (k - 1) \in 1..(Len(urls) - k) /\ r[i] = b[i - (k - 1)]
          BY <2>1, <3>1, <4>2
        <5>2. b[i - (k - 1)] = urls[(i - (k - 1)) + k]
          BY <2>b, <5>1
        <5>3. QED
          BY <2>1, <4>2, <5>1, <5>2
      <4>3. QED
        BY <4>1, <4>2
    <3>3. QED
      BY <3>1, <3>2
  <2>4. DOMAIN r = 1..(Len(urls) - 1)
    BY <2>3
  <2>5. IsInjective(r)
    <3>1. SUFFICES ASSUME NEW i \in 1..(Len(urls) - 1), NEW j \in 1..(Len(urls) - 1), r[i] = r[j]
                   PROVE i = j
      BY <2>4 DEF IsInjective
    <3> DEFINE p == IF i < k THEN i ELSE i + 1
               q == IF j < k THEN j ELSE j + 1
    <3>2. p \in 1..Len(urls) /\ q \in 1..Len(urls) /\ urls[p] = urls[q]
      BY <2>1, <2>3, <3>1
    <3>3. p = q
      BY <2>1, <3>2 DEF IsInjective
    <3>4. QED
      BY <2>1, <3>3
  <2>6. ASSUME NEW x PROVE x \in ToSet(r) <=> x \in Known \ {h}
    <3>1. ASSUME x \in ToSet(r) PROVE x \in Known \ {h}
      <4>1. PICK i \in 1..(Len(urls) - 1) : r[i] = x
        BY <2>4, <3>1 DEF ToSet
      <4> DEFINE j == IF i < k THEN i ELSE i + 1
      <4>2. j \in 1..Len(urls) /\ j # k /\ urls[j] = x
        BY <2>1, <2>3, <4>1
      <4> HIDE DEF j
      <4>3. QED
        BY <2>1, <4>2 DEF Known, ToSet, IsInjective
    <3>2. ASSUME x \in Known \ {h} PROVE x \in ToSet(r)
      <4>1. PICK j \in 1..Len(urls) : urls[j] = x
        BY <2>1, <3>2 DEF Known, ToSet
      <4> DEFINE i == IF j < k THEN j ELSE j - 1
      <4>2. i \in 1..(Len(urls) - 1) /\ r[i] = x
        BY <2>1, <2>3, <3>2, <4>1
      <4> HIDE DEF i
      <4>3. QED
        BY <2>4, <4>2 DEF ToSet
    <3>3. QED
      BY <3>1, <3>2
  <2>7. QED
    BY <2>2, <2>3, <2>5, <2>6
<1>3. QED
  BY <1>1, <1>2

\* What a written row leaves: the table, its order aside, has gained that row.
LEMMA PutKeepsTable ==
  ASSUME urls \in Seq(Hashes), IsInjective(urls), sized \subseteq Known,
         NEW h \in Hashes, NEW hasFile, PutUrl(h, hasFile)
  PROVE  /\ urls' \in Seq(Hashes) /\ IsInjective(urls')
         /\ Known' = Known \cup {h}
         /\ sized' \subseteq Known'
<1> DEFINE w == Without(h)
<1>1. w \in Seq(Hashes) /\ IsInjective(w) /\ ToSet(w) = Known \ {h}
  BY WithoutRow
<1>2. urls' = Append(w, h) /\ sized' \subseteq sized \cup {h}
  BY DEF PutUrl
<1> HIDE DEF w
<1>3. /\ urls' \in Seq(Hashes) /\ Len(urls') = Len(w) + 1 /\ Len(w) \in Nat
      /\ DOMAIN w = 1..Len(w) /\ DOMAIN urls' = 1..(Len(w) + 1)
      /\ \A i \in 1..Len(w) : urls'[i] = w[i]
      /\ urls'[Len(w) + 1] = h
  BY <1>1, <1>2
<1>4. \A i \in 1..Len(w) : w[i] # h
  BY <1>1, <1>3 DEF ToSet
<1>5. IsInjective(urls')
  BY <1>1, <1>3, <1>4 DEF IsInjective
<1>6. ASSUME NEW x PROVE x \in Known' <=> x \in Known \cup {h}
  <2>1. x \in Known' <=> \E i \in 1..(Len(w) + 1) : urls'[i] = x
    BY <1>3 DEF Known, ToSet
  <2>2. x \in ToSet(w) <=> \E i \in 1..Len(w) : w[i] = x
    BY <1>3 DEF ToSet
  <2>3. x \in Known' <=> x \in ToSet(w) \/ x = h
    BY <1>3, <2>1, <2>2
  <2>4. QED
    BY <1>1, <2>3
<1>7. Known' = Known \cup {h}
  BY <1>6
<1>8. QED
  BY <1>2, <1>3, <1>5, <1>7

\* What a deleted row leaves.
LEMMA DeleteKeepsTable ==
  ASSUME urls \in Seq(Hashes), IsInjective(urls), sized \subseteq Known,
         NEW h, DeleteUrl(h)
  PROVE  /\ urls' \in Seq(Hashes) /\ IsInjective(urls')
         /\ Known' = Known \ {h}
         /\ sized' \subseteq Known'
<1>1. urls' = Without(h) /\ sized' = sized \ {h}
  BY DEF DeleteUrl
<1>2. Known' = Known \ {h}
  BY <1>1, WithoutRow DEF Known
<1>3. QED
  BY <1>1, <1>2, WithoutRow

\* A batch of the oldest rows holds hashes.
LEMMA OldestRows ==
  ASSUME urls \in Seq(Hashes), NEW limit \in Nat
  PROVE  GetOldestUrls(limit) \in Seq(Hashes)
BY DEF GetOldestUrls

-----------------------------------------------------------------------------
\* Types

\* An eviction that is about to delete has a row to delete.
StageOK == \A h \in Hashes : fetch[h] \in {"deletingRow", "deletingFile"} => evict[h] # <<>>

Base == TypeOK /\ StageOK

\* The first state is of the right types.
LEMMA InitBase == Init => Base
<1> SUFFICES ASSUME Init PROVE Base
  OBVIOUS
<1>1. urls \in Seq(Hashes) /\ IsInjective(urls) /\ sized \subseteq Known
  BY DEF Init, IsInjective, Known
<1>2. purge \in [active: BOOLEAN, cap: Nat, current: Int, batch: Seq([hash: Hashes, size: {0, 1}])]
  BY DEF Init, NoPurge
<1>3. QED
  BY <1>1, <1>2 DEF Init, Base, TypeOK, StageOK, FetchStages

\* The rows change under three kinds of write only; each keeps the table.
LEMMA TableStep ==
  ASSUME TypeOK, [Next]_vars
  PROVE  urls' \in Seq(Hashes) /\ IsInjective(urls') /\ sized' \subseteq Known'
<1> USE DEF TypeOK
<1>1. CASE UNCHANGED <<urls, sized>>
  BY <1>1 DEF Known
<1>2. ASSUME NEW h \in Hashes, NEW hasFile, PutUrl(h, hasFile)
      PROVE urls' \in Seq(Hashes) /\ IsInjective(urls') /\ sized' \subseteq Known'
  BY <1>2, PutKeepsTable
<1>3. ASSUME NEW h, DeleteUrl(h)
      PROVE urls' \in Seq(Hashes) /\ IsInjective(urls') /\ sized' \subseteq Known'
  BY <1>3, DeleteKeepsTable
<1>4. ASSUME NEW m \in Mappers, RegisterPut(m)
      PROVE urls' \in Seq(Hashes) /\ IsInjective(urls') /\ sized' \subseteq Known'
  <2>1. mapper[m] \in Hashes /\ PutUrl(mapper[m], FALSE)
    BY <1>4 DEF RegisterPut
  <2>2. QED
    BY <1>2, <2>1
<1>5. ASSUME NEW h \in Hashes, FetchStep(h)
      PROVE urls' \in Seq(Hashes) /\ IsInjective(urls') /\ sized' \subseteq Known'
  <2>1. CASE RecordRow(h)
    BY <1>2, <2>1 DEF RecordRow
  <2>2. CASE EvictRow(h)
    BY <1>3, <2>2 DEF EvictRow
  <2>3. QED
    BY <1>1, <1>5, <2>1, <2>2 DEF FetchStep, CheckAgain, Download, StoreFile, EnforceTotalCap,
       EvictionEnds, EvictionGoesOn, EvictFile
<1>6. CASE PurgeRow
  BY <1>3, <1>6 DEF PurgeRow
<1>7. QED
  BY <1>1, <1>4, <1>5, <1>6 DEF Next, vars, RegisterLook, Request, ResizeAsk, ResizeLoad,
     ResizeStore, PurgeStart, PurgeNextBatch, Crash

\* The rows a purge reads are hashes with a size of nought or one.
LEMMA RowsTyped ==
  ASSUME TypeOK
  PROVE  RowsOf(GetOldestUrls(PurgeBatch)) \in Seq([hash: Hashes, size: {0, 1}])
<1> DEFINE s == GetOldestUrls(PurgeBatch)
<1>1. s \in Seq(Hashes)
  BY OldestRows, CapAssumption DEF TypeOK
<1> HIDE DEF s
<1>2. DOMAIN s = 1..Len(s) /\ Len(s) \in Nat /\ \A i \in 1..Len(s) : s[i] \in Hashes
  BY <1>1
<1>3. RowsOf(s) \in [1..Len(s) -> [hash: Hashes, size: {0, 1}]]
  BY <1>2 DEF RowsOf
<1>4. RowsOf(s) \in Seq([hash: Hashes, size: {0, 1}])
  BY <1>2, <1>3, SeqDef
<1>5. QED
  BY <1>4 DEF s

\* The purge keeps its types.
LEMMA PurgeStep ==
  ASSUME TypeOK, [Next]_vars
  PROVE  purge' \in [active: BOOLEAN, cap: Nat, current: Int,
                     batch: Seq([hash: Hashes, size: {0, 1}])]
<1> DEFINE Row == [hash: Hashes, size: {0, 1}]
           P == [active: BOOLEAN, cap: Nat, current: Int, batch: Seq(Row)]
<1>1. purge \in P
  BY DEF TypeOK
<1>2. /\ purge.active \in BOOLEAN /\ purge.cap \in Nat
      /\ purge.current \in Int /\ purge.batch \in Seq(Row)
      /\ purge = [active |-> purge.active, cap |-> purge.cap,
                  current |-> purge.current, batch |-> purge.batch]
  BY <1>1
<1>3. NoPurge \in P
  <2>1. <<>> \in Seq(Row)
    OBVIOUS
  <2>2. QED
    BY <2>1 DEF NoPurge
<1>4. ASSUME NEW bytes \in 0..Cap, PurgeStart(bytes) PROVE purge' \in P
  <2>1. IsFiniteSet(sized)
    BY FS_Subset, HashAssumption DEF TypeOK, Known, ToSet
  <2>2. SumUrlBytes \in Int
    BY <2>1, FS_CardinalityType DEF SumUrlBytes
  <2>3. <<>> \in Seq(Row) /\ bytes \in Nat
    BY CapAssumption
  <2>4. QED
    BY <1>4, <2>2, <2>3 DEF PurgeStart
<1>5. CASE PurgeNextBatch
  <2>1. RowsOf(GetOldestUrls(PurgeBatch)) \in Seq(Row)
    BY RowsTyped
  <2> DEFINE rows == RowsOf(GetOldestUrls(PurgeBatch))
  <2> HIDE DEF rows
  <2>2. rows \in Seq(Row)
    BY <2>1 DEF rows
  <2>3. purge' = NoPurge \/ purge' = [purge EXCEPT !.batch = rows]
    BY <1>5 DEF PurgeNextBatch, rows
  <2>4. QED
    BY <1>2, <1>3, <2>2, <2>3
<1>6. CASE PurgeRow
  <2>1. purge.batch # <<>>
    BY <1>6 DEF PurgeRow
  <2> DEFINE tail == Tail(purge.batch)
             left == purge.current - Head(purge.batch).size
  <2>2. Head(purge.batch) \in Row /\ tail \in Seq(Row)
    BY <1>2, <2>1, HeadAndTail
  <2>3. left \in Int
    BY <1>2, <2>2
  <2>4. purge' = [purge EXCEPT !.batch = tail, !.current = left]
    BY <1>6 DEF PurgeRow
  <2> HIDE DEF tail, left, Row
  <2>5. purge' \in P
    BY <1>1, <2>2, <2>3, <2>4
  <2>6. QED
    BY <2>5 DEF Row
<1>7. CASE UNCHANGED purge
  BY <1>1, <1>7
<1>8. CASE Crash
  BY <1>3, <1>8 DEF Crash
<1>9. QED
  BY <1>4, <1>5, <1>6, <1>7, <1>8 DEF Next, vars, RegisterLook, RegisterPut, Request, FetchStep,
     CheckAgain, Download, StoreFile, RecordRow, EnforceTotalCap, EvictionEnds, EvictionGoesOn,
     EvictRow, EvictFile, ResizeAsk, ResizeLoad, ResizeStore

\* The download of one hash moves its own stage and its own snapshot only, and an
\* eviction that goes on has a row to take.
LEMMA FetchMoves ==
  ASSUME Base, NEW h \in Hashes, FetchStep(h)
  PROVE  /\ fetch' \in [Hashes -> FetchStages] /\ evict' \in [Hashes -> Seq(Hashes)]
         /\ \A g \in Hashes \ {h} : fetch'[g] = fetch[g] /\ evict'[g] = evict[g]
         /\ fetch'[h] \in {"deletingRow", "deletingFile"} => evict'[h] # <<>>
<1> USE DEF Base, TypeOK, FetchStages, Go
<1>1. CASE CheckAgain(h) \/ Download(h) \/ StoreFile(h) \/ RecordRow(h)
  BY <1>1 DEF CheckAgain, Download, StoreFile, RecordRow
<1>2. CASE EnforceTotalCap(h)
  <2>1. GetOldestUrls(EvictBatch) \in Seq(Hashes)
    BY OldestRows, CapAssumption
  <2>2. QED
    BY <1>2, <2>1 DEF EnforceTotalCap
<1>3. CASE EvictionEnds(h)
  BY <1>3 DEF EvictionEnds
<1>4. CASE EvictionGoesOn(h)
  BY <1>4 DEF EvictionGoesOn
<1>5. CASE EvictRow(h)
  BY <1>5 DEF EvictRow, StageOK
<1>6. CASE EvictFile(h)
  <2>1. evict[h] \in Seq(Hashes) /\ evict[h] # <<>>
    BY <1>6 DEF EvictFile, StageOK
  <2>2. Tail(evict[h]) \in Seq(Hashes)
    BY <2>1, HeadAndTail
  <2>3. QED
    BY <1>6, <2>2 DEF EvictFile
<1>7. QED
  BY <1>1, <1>2, <1>3, <1>4, <1>5, <1>6 DEF FetchStep

\* The other variables keep their types.
LEMMA OthersStep ==
  ASSUME Base, [Next]_vars
  PROVE  /\ files' \subseteq Hashes /\ variants' \subseteq Hashes
         /\ mapper' \in [Mappers -> Hashes \cup {NoHash}]
         /\ resize' \in [Hashes -> {"idle", "asked", "decoded"}]
<1> USE DEF Base, TypeOK
<1>1. mapper' \in [Mappers -> Hashes \cup {NoHash}]
  BY DEF Next, vars, RegisterLook, RegisterPut, Request, FetchStep, CheckAgain, Download,
     StoreFile, RecordRow, EnforceTotalCap, EvictionEnds, EvictionGoesOn, EvictRow, EvictFile,
     ResizeAsk, ResizeLoad, ResizeStore, PurgeStart, PurgeNextBatch, PurgeRow, Crash
<1>2. resize' \in [Hashes -> {"idle", "asked", "decoded"}]
  BY DEF Next, vars, RegisterLook, RegisterPut, Request, FetchStep, CheckAgain, Download,
     StoreFile, RecordRow, EnforceTotalCap, EvictionEnds, EvictionGoesOn, EvictRow, EvictFile,
     ResizeAsk, ResizeLoad, ResizeStore, PurgeStart, PurgeNextBatch, PurgeRow, Crash
<1>3. files' \subseteq Hashes /\ variants' \subseteq Hashes
  BY DEF Next, vars, RegisterLook, RegisterPut, Request, FetchStep, CheckAgain, Download,
     StoreFile, RecordRow, EnforceTotalCap, EvictionEnds, EvictionGoesOn, EvictRow, EvictFile,
     ResizeAsk, ResizeLoad, ResizeStore, PurgeStart, PurgeNextBatch, PurgeRow, Crash
<1>4. QED
  BY <1>1, <1>2, <1>3

\* The downloads keep their types, and each eviction its row.
LEMMA StagesStep ==
  ASSUME Base, [Next]_vars
  PROVE  /\ fetch' \in [Hashes -> FetchStages] /\ evict' \in [Hashes -> Seq(Hashes)]
         /\ StageOK'
<1> DEFINE Goal == /\ fetch' \in [Hashes -> FetchStages] /\ evict' \in [Hashes -> Seq(Hashes)]
                   /\ StageOK'
<1> USE DEF Base, StageOK
<1>1. ASSUME NEW h \in Hashes, FetchStep(h) PROVE Goal
  BY <1>1, FetchMoves
<1>2. ASSUME NEW h \in Hashes, Request(h) PROVE Goal
  BY <1>2 DEF Request, Go, TypeOK, FetchStages
<1>3. CASE Crash
  <2>1. <<>> \in Seq(Hashes)
    OBVIOUS
  <2>2. QED
    BY <1>3, <2>1 DEF Crash, FetchStages
<1>4. CASE UNCHANGED <<fetch, evict>>
  BY <1>4 DEF TypeOK
<1>5. QED
  BY <1>1, <1>2, <1>3, <1>4 DEF Next, vars, RegisterLook, RegisterPut,
     ResizeAsk, ResizeLoad, ResizeStore, PurgeStart, PurgeNextBatch, PurgeRow

\* One step keeps every type.
LEMMA BaseStep == ASSUME Base, [Next]_vars PROVE Base'
<1>1. TypeOK
  BY DEF Base
<1>2. urls' \in Seq(Hashes) /\ IsInjective(urls') /\ sized' \subseteq Known'
  BY <1>1, TableStep
<1>3. purge' \in [active: BOOLEAN, cap: Nat, current: Int, batch: Seq([hash: Hashes, size: {0, 1}])]
  BY <1>1, PurgeStep
<1>4. QED
  BY <1>2, <1>3, OthersStep, StagesStep DEF Base, TypeOK

\* The types hold from the first state on.
LEMMA BaseInvariant == Spec => []Base
<1>1. Base /\ [Next]_vars => Base'
  BY BaseStep
<1>2. QED
  BY <1>1, InitBase, PTL DEF Spec

\* Every variable keeps its type, and no hash ever has two rows, for any hashes,
\* mappers and bounds, with purges and crashes.
THEOREM TypeCorrect == Spec => []TypeOK
  BY BaseInvariant, PTL DEF Base

-----------------------------------------------------------------------------
\* No file escapes the cap

\* A file without a row belongs to a download that is about to write the row, or to
\* an eviction that is about to delete the file.
FilesAccounted ==
  /\ ~purge.active
  /\ \A f \in files \ Known :
       fetch[f] = "filed" \/ \E h \in Hashes : fetch[h] = "deletingFile" /\ Head(evict[h]) = f

\* Purges and crashes aside, every step keeps the account.
LEMMA FilesStep ==
  ASSUME ~Purging, ~Crashing, Base, FilesAccounted, [Next]_vars
  PROVE  FilesAccounted'
<1> USE DEF FilesAccounted
<1>0. TypeOK /\ StageOK
  BY DEF Base
<1>1. ~Crash /\ ~PurgeRow /\ ~PurgeNextBatch /\ \A b \in 0..Cap : ~PurgeStart(b)
  BY DEF Crash, PurgeRow, PurgeNextBatch, PurgeStart
<1>2. CASE UNCHANGED <<urls, files, fetch, evict, purge>>
  BY <1>2 DEF Known
<1>3. ASSUME NEW m \in Mappers, RegisterPut(m) PROVE FilesAccounted'
  <2>1. mapper[m] \in Hashes /\ PutUrl(mapper[m], FALSE)
    BY <1>0, <1>3 DEF RegisterPut, TypeOK
  <2>2. Known' = Known \cup {mapper[m]}
    BY <1>0, <2>1, PutKeepsTable DEF TypeOK
  <2>3. QED
    BY <1>3, <2>2 DEF RegisterPut
<1>4. ASSUME NEW h \in Hashes, Request(h) PROVE FilesAccounted'
  <2>1. \A g \in Hashes : fetch[g] \in {"filed", "deletingFile"} => fetch'[g] = fetch[g]
    BY <1>0, <1>4 DEF Request, Go, TypeOK
  <2>2. Known' = Known /\ files \subseteq Hashes /\ UNCHANGED <<files, evict, purge>>
    BY <1>0, <1>4 DEF Request, Known, TypeOK
  <2>3. QED
    BY <2>1, <2>2
<1>5. ASSUME NEW h \in Hashes, FetchStep(h) PROVE FilesAccounted'
  <2>1. /\ \A g \in Hashes \ {h} : fetch'[g] = fetch[g] /\ evict'[g] = evict[g]
        /\ files \subseteq Hashes
    BY <1>5, FetchMoves, <1>0 DEF TypeOK
  <2>2. CASE CheckAgain(h) \/ Download(h) \/ EnforceTotalCap(h) \/ EvictionEnds(h)
             \/ EvictionGoesOn(h)
    <3>1. fetch[h] \notin {"filed", "deletingFile"} /\ UNCHANGED <<urls, files, purge>>
      BY <2>2 DEF CheckAgain, Download, EnforceTotalCap, EvictionEnds, EvictionGoesOn
    <3>2. QED
      BY <2>1, <3>1 DEF Known
  <2>3. CASE StoreFile(h)
    <3>1. fetch'[h] = "filed" /\ fetch[h] = "received" /\ files' = files \cup {h}
          /\ UNCHANGED <<urls, purge>>
      BY <1>0, <2>3 DEF StoreFile, Go, TypeOK
    <3>2. QED
      BY <2>1, <3>1 DEF Known
  <2>4. CASE RecordRow(h)
    <3>1. Known' = Known \cup {h}
      BY <1>0, <2>4, PutKeepsTable DEF RecordRow, TypeOK
    <3>2. fetch[h] = "filed" /\ UNCHANGED <<files, purge>>
      BY <2>4 DEF RecordRow
    <3>3. QED
      BY <2>1, <3>1, <3>2
  <2>5. CASE EvictRow(h)
    <3>1. Known' = Known \ {Head(evict[h])}
      BY <1>0, <2>5, DeleteKeepsTable DEF EvictRow, TypeOK
    <3>2. /\ fetch[h] = "deletingRow" /\ fetch'[h] = "deletingFile" /\ evict'[h] = evict[h]
          /\ UNCHANGED <<files, purge>>
      BY <1>0, <2>5 DEF EvictRow, Go, TypeOK
    <3>3. QED
      BY <2>1, <3>1, <3>2
  <2>6. CASE EvictFile(h)
    <3>1. fetch[h] = "deletingFile" /\ files' = files \ {Head(evict[h])}
          /\ UNCHANGED <<urls, purge>>
      BY <2>6 DEF EvictFile
    <3>2. QED
      BY <2>1, <3>1 DEF Known
  <2>7. QED
    BY <1>5, <2>2, <2>3, <2>4, <2>5, <2>6 DEF FetchStep
<1>6. QED
  BY <1>1, <1>2, <1>3, <1>4, <1>5 DEF Next, vars, RegisterLook, ResizeAsk, ResizeLoad, ResizeStore

\* While nobody purges and the process lives, no file is left without a row, for any
\* hashes, mappers and bounds: what is on disk stays within reach of the cap.
THEOREM NoFileEscapes ==
  ASSUME ~Purging, ~Crashing
  PROVE  Spec => []FilesAreKnown
<1>1. Init => FilesAccounted
  BY DEF Init, FilesAccounted, NoPurge
<1>2. Base /\ FilesAccounted /\ [Next]_vars => FilesAccounted'
  BY FilesStep
<1>3. Base /\ FilesAccounted => FilesAreKnown
  BY DEF Base, TypeOK, FilesAccounted, FilesAreKnown, Quiet
<1>4. QED
  BY <1>1, <1>2, <1>3, BaseInvariant, PTL DEF Spec

-----------------------------------------------------------------------------
\* The total cap

Enforcing(h) == fetch[h] \in {"recorded", "checking", "deletingRow", "deletingFile"}

\* The rows an eviction will still delete, unless the cap is met before.
StillToGo(h) == IF fetch[h] = "deletingFile" THEN ToSet(Tail(evict[h])) ELSE ToSet(evict[h])

\* The rows with bytes that every batch so far has named.
Named == sized \ missed

\* Some download that is past its row is yet to look at the total, or is walking
\* through every row with bytes that no batch left out.
Covered(h) == fetch[h] = "recorded" \/ (Enforcing(h) /\ Named \subseteq StillToGo(h))

\* Above the cap somebody is at work who will bring the total below it, unless nobody
\* is at work at all, as after a crash.
CapWatched ==
  \/ \A h \in Hashes : ~Enforcing(h)
  \/ SumUrlBytes <= Cap
  \/ \E h \in Hashes : Covered(h)

\* Fewer sized rows mean a smaller total.
LEMMA SumShrinks ==
  ASSUME Base, sized' \subseteq sized
  PROVE  SumUrlBytes \in Nat /\ SumUrlBytes' \in Nat /\ SumUrlBytes' <= SumUrlBytes
<1>1. IsFiniteSet(sized)
  BY FS_Subset, HashAssumption DEF Base, TypeOK, Known, ToSet
<1>2. IsFiniteSet(sized') /\ Cardinality(sized') <= Cardinality(sized)
  BY <1>1, FS_Subset
<1>3. QED
  BY <1>1, <1>2, FS_CardinalityType DEF SumUrlBytes

\* The history names fewer rows after a step that stores none and reads no batch.
LEMMA NamedShrinks ==
  ASSUME Base, sized' \subseteq sized, Watch, \A h \in Hashes : ~Recorded(h)
  PROVE  Named' \subseteq Named
<1>1. sized \subseteq Hashes
  BY DEF Base, TypeOK, Known, ToSet
<1>2. QED
  BY <1>1 DEF Watch, Named

\* A step that takes no hash out of work and adds no size keeps the watch.
LEMMA WatchKept ==
  ASSUME Base, CapWatched, sized' \subseteq sized,
         \A h \in Hashes : Enforcing(h)' <=> Enforcing(h),
         \A h \in Hashes : Covered(h) => Covered(h)'
  PROVE  CapWatched'
<1>1. SumUrlBytes <= Cap => SumUrlBytes' <= Cap
  BY SumShrinks, CapAssumption
<1>2. QED
  BY <1>1 DEF CapWatched

\* Every step keeps the watch, purges and crashes included.
LEMMA WatchStep ==
  ASSUME Base, CapWatched, [WatchNext]_watchVars
  PROVE  CapWatched'
<1>0. TypeOK /\ StageOK
  BY DEF Base
<1>a. CASE UNCHANGED watchVars
  BY <1>a DEF watchVars, vars, CapWatched, Covered, Enforcing, StillToGo, Named, SumUrlBytes
<1> SUFFICES ASSUME Next, Watch PROVE CapWatched'
  BY <1>a DEF WatchNext
<1>1. CASE sized' \subseteq sized /\ UNCHANGED <<fetch, evict>>
  <2>1. \A h \in Hashes : Enforcing(h)' <=> Enforcing(h)
    BY <1>1 DEF Enforcing
  <2>2. Named' \subseteq Named
    BY <1>1, NamedShrinks DEF Recorded
  <2>3. \A h \in Hashes : Covered(h) => Covered(h)'
    BY <1>1, <2>2 DEF Covered, Enforcing, StillToGo
  <2>4. QED
    BY <1>1, <2>1, <2>3, WatchKept
<1>2. CASE Crash
  <2>1. \A h \in Hashes : ~Enforcing(h)'
    BY <1>2 DEF Crash, Enforcing
  <2>2. QED
    BY <2>1 DEF CapWatched
<1>3. ASSUME NEW h \in Hashes,
             fetch[h] \in {"idle", "entered", "downloading", "received"},
             fetch'[h] \in {"idle", "entered", "downloading", "received", "filed"},
             \A g \in Hashes \ {h} : fetch'[g] = fetch[g] /\ evict'[g] = evict[g],
             UNCHANGED sized
      PROVE CapWatched'
  <2>1. \A g \in Hashes : Enforcing(g)' <=> Enforcing(g)
    BY <1>3 DEF Enforcing
  <2>2. Named' \subseteq Named
    BY <1>3, NamedShrinks DEF Recorded
  <2>3. \A g \in Hashes : Covered(g) => Covered(g)'
    BY <1>3, <2>2 DEF Covered, Enforcing, StillToGo
  <2>4. QED
    BY <1>3, <2>1, <2>3, WatchKept
<1>4. ASSUME NEW h \in Hashes, Request(h) PROVE CapWatched'
  <2>1. fetch[h] = "idle" /\ fetch'[h] = "entered" /\ UNCHANGED sized
        /\ \A g \in Hashes \ {h} : fetch'[g] = fetch[g] /\ evict'[g] = evict[g]
    BY <1>0, <1>4 DEF Request, Go, TypeOK
  <2>2. QED
    BY <1>3, <2>1
<1>5. ASSUME NEW h \in Hashes, FetchStep(h) PROVE CapWatched'
  <2>1. \A g \in Hashes \ {h} : fetch'[g] = fetch[g] /\ evict'[g] = evict[g]
    BY <1>5, FetchMoves
  <2>2. CASE CheckAgain(h) \/ Download(h) \/ StoreFile(h)
    <3>1. /\ fetch[h] \in {"entered", "downloading", "received"}
          /\ fetch'[h] \in {"idle", "downloading", "received", "filed"}
          /\ UNCHANGED sized
      BY <1>0, <2>2 DEF CheckAgain, Download, StoreFile, Go, TypeOK
    <3>2. QED
      BY <1>3, <2>1, <3>1
  <2>3. CASE RecordRow(h)
    <3>1. fetch'[h] = "recorded"
      BY <1>0, <2>3 DEF RecordRow, Go, TypeOK
    <3>2. QED
      BY <3>1 DEF CapWatched, Covered
  <2>4. CASE EnforceTotalCap(h)
    <3>1. UNCHANGED sized
      BY <2>4 DEF EnforceTotalCap
    <3>2. CASE SumUrlBytes <= Cap
      BY <3>1, <3>2 DEF CapWatched, SumUrlBytes
    <3>3. CASE ~(SumUrlBytes <= Cap)
      <4>1. fetch'[h] = "checking" /\ evict'[h] = GetOldestUrls(EvictBatch)
        BY <1>0, <2>4, <3>3 DEF EnforceTotalCap, Go, TypeOK
      <4>2. Known \ ToSet(evict'[h]) \subseteq LeftOut
        BY <4>1, <2>4 DEF EnforceTotalCap, LeftOut, Reads
      <4>3. sized \subseteq Known
        BY <1>0 DEF TypeOK
      <4>4. Named' \subseteq ToSet(evict'[h])
        BY <3>1, <4>2, <4>3 DEF Named, Watch
      <4>5. Covered(h)'
        BY <4>1, <4>4 DEF Covered, Enforcing, StillToGo
      <4>6. QED
        BY <4>5 DEF CapWatched
    <3>4. QED
      BY <3>2, <3>3
  <2>5. CASE EvictionEnds(h)
    <3>1. UNCHANGED sized /\ fetch[h] = "checking" /\ fetch'[h] = "idle"
      BY <1>0, <2>5 DEF EvictionEnds, Go, TypeOK
    <3>2. CASE SumUrlBytes <= Cap
      BY <3>1, <3>2 DEF CapWatched, SumUrlBytes
    <3>3. CASE ~(SumUrlBytes <= Cap)
      <4>1. PICK g \in Hashes : Covered(g)
        BY <3>1, <3>3 DEF CapWatched, Enforcing
      <4>2. Named' \subseteq Named
        BY <2>1, <3>1, NamedShrinks DEF Recorded
      <4>3. CASE g = h
        <5>1. Named = {}
          BY <2>5, <3>1, <3>3, <4>1, <4>3 DEF EvictionEnds, Covered, StillToGo, ToSet
        <5>2. Named' = {}
          BY <4>2, <5>1
        <5>3. QED
          BY <5>2 DEF CapWatched, Covered
      <4>4. CASE g # h
        BY <2>1, <3>1, <4>1, <4>2, <4>4 DEF CapWatched, Covered, Enforcing, StillToGo
      <4>5. QED
        BY <4>3, <4>4
    <3>4. QED
      BY <3>2, <3>3
  <2>6. CASE EvictionGoesOn(h)
    <3>1. UNCHANGED <<sized, evict>> /\ fetch[h] = "checking" /\ fetch'[h] = "deletingRow"
      BY <1>0, <2>6 DEF EvictionGoesOn, Go, TypeOK
    <3>2. \A g \in Hashes : Enforcing(g)' <=> Enforcing(g)
      BY <2>1, <3>1 DEF Enforcing
    <3>3. Named' \subseteq Named
      BY <2>1, <3>1, NamedShrinks DEF Recorded
    <3>4. \A g \in Hashes : Covered(g) => Covered(g)'
      BY <2>1, <3>1, <3>3 DEF Covered, Enforcing, StillToGo
    <3>5. QED
      BY <3>1, <3>2, <3>4, WatchKept
  <2>7. CASE EvictRow(h)
    <3>1. /\ sized' = sized \ {Head(evict[h])} /\ UNCHANGED evict
          /\ fetch[h] = "deletingRow" /\ fetch'[h] = "deletingFile"
      BY <1>0, <2>7 DEF EvictRow, DeleteUrl, Go, TypeOK
    <3>2. \A g \in Hashes : Enforcing(g)' <=> Enforcing(g)
      BY <2>1, <3>1 DEF Enforcing
    <3>3. ToSet(evict[h]) \ {Head(evict[h])} \subseteq ToSet(Tail(evict[h]))
      BY <1>0, <3>1, HeadAndTail DEF StageOK, TypeOK
    <3>4. Named' \subseteq Named \ {Head(evict[h])}
      BY <2>1, <3>1, NamedShrinks DEF Recorded, Named
    <3>5. \A g \in Hashes : Covered(g) => Covered(g)'
      BY <2>1, <3>1, <3>3, <3>4 DEF Covered, Enforcing, StillToGo
    <3>6. QED
      BY <3>1, <3>2, <3>5, WatchKept
  <2>8. CASE EvictFile(h)
    <3>1. /\ UNCHANGED sized /\ evict'[h] = Tail(evict[h])
          /\ fetch[h] = "deletingFile" /\ fetch'[h] = "checking"
      BY <1>0, <2>8 DEF EvictFile, Go, TypeOK
    <3>2. \A g \in Hashes : Enforcing(g)' <=> Enforcing(g)
      BY <2>1, <3>1 DEF Enforcing
    <3>3. Named' \subseteq Named
      BY <2>1, <3>1, NamedShrinks DEF Recorded
    <3>4. \A g \in Hashes : Covered(g) => Covered(g)'
      BY <2>1, <3>1, <3>3 DEF Covered, Enforcing, StillToGo
    <3>5. QED
      BY <3>1, <3>2, <3>4, WatchKept
  <2>9. QED
    BY <1>5, <2>2, <2>3, <2>4, <2>5, <2>6, <2>7, <2>8 DEF FetchStep
<1>6. ASSUME NEW m \in Mappers, RegisterPut(m) PROVE CapWatched'
  BY <1>1, <1>6 DEF RegisterPut, PutUrl
<1>7. CASE PurgeRow
  BY <1>1, <1>7 DEF PurgeRow, DeleteUrl
<1>8. CASE UNCHANGED <<sized, fetch, evict>>
  BY <1>1, <1>8
<1>9. QED
  BY <1>2, <1>4, <1>5, <1>6, <1>7, <1>8 DEF Next, RegisterLook, ResizeAsk, ResizeLoad,
     ResizeStore, PurgeStart, PurgeNextBatch

\* A download that is alone past its row ends with the total within the cap, or with
\* nothing but missed rows.
LEMMA EnforcerLeavesCap ==
  ASSUME Base, CapWatched, NEW h \in Hashes, OnlyEnforcer(h),
         (EnforceTotalCap(h) /\ fetch'[h] = "idle") \/ EvictionEnds(h)
  PROVE  SumUrlBytes <= Cap \/ sized \subseteq missed
<1>1. CASE EnforceTotalCap(h) /\ fetch'[h] = "idle"
  BY <1>1 DEF EnforceTotalCap, Go, Base, TypeOK
<1>2. CASE EvictionEnds(h) /\ ~(SumUrlBytes <= Cap)
  <2>1. fetch[h] = "checking" /\ evict[h] = <<>>
    BY <1>2 DEF EvictionEnds
  <2>2. PICK g \in Hashes : Covered(g)
    BY <1>2, <2>1 DEF CapWatched, Enforcing
  <2>3. g = h
    BY <2>2 DEF OnlyEnforcer, Covered, Enforcing
  <2>4. QED
    BY <2>1, <2>2, <2>3 DEF Covered, StillToGo, Named, ToSet
<1>3. QED
  BY <1>1, <1>2

\* A download that is the only one at work on the rows leaves them within the cap, or
\* no bytes but those of rows that a batch left out, whatever crashes, purges,
\* registrations and earlier evictions did, for any hashes, mappers, cap and batches:
\* the table may be larger than a batch.
THEOREM CapHolds == WatchSpec => CapEnforcedInBatches
<1>1. WatchInit => Base /\ CapWatched
  BY InitBase DEF WatchInit, Init, CapWatched, Enforcing
<1>2. Base /\ [WatchNext]_watchVars => Base'
  <2>1. [WatchNext]_watchVars => [Next]_vars
    BY DEF WatchNext, watchVars
  <2>2. QED
    BY <2>1, BaseStep
<1>3. Base /\ CapWatched /\ [WatchNext]_watchVars => CapWatched'
  BY WatchStep
<1> DEFINE Left == \A h \in Hashes :
       /\ (EnforceTotalCap(h) /\ fetch'[h] = "idle") \/ EvictionEnds(h)
       /\ OnlyEnforcer(h)
       => SumUrlBytes <= Cap \/ sized \subseteq missed
<1>4. Base /\ CapWatched /\ [WatchNext]_watchVars => [Left]_watchVars
  BY EnforcerLeavesCap
<1>5. QED
  BY <1>1, <1>2, <1>3, <1>4, PTL DEF WatchSpec, CapEnforcedInBatches

-----------------------------------------------------------------------------
\* The single flight

\* A caller inside the loop has a key.
LoopHasKey ==
  \A c \in Callers : pc[c] # "out" => want[c] \in Keys

\* The inductive invariant: registration and progress of a task agree.
FlightInv == LoopTypeOK /\ LoopHasKey /\ UnremovedOwnsItsSlot

\* The invariant holds at first: nothing is in flight.
LEMMA InitFlight == LoopInit => FlightInv
  BY NoneAssumption DEF LoopInit, FlightInv, LoopTypeOK, LoopHasKey, UnremovedOwnsItsSlot,
     Unremoved, Phases

\* Types and the key argument survive every step.
LEMMA FlightTypeStep == ASSUME FlightInv, [LoopNext]_loopVars PROVE LoopTypeOK' /\ LoopHasKey'
<1> USE DEF FlightInv, LoopTypeOK, LoopHasKey, Phases
<1>1. ASSUME NEW c \in Callers, NEW k \in Keys, RunAsync(c, k)
      PROVE LoopTypeOK' /\ LoopHasKey'
  BY <1>1 DEF RunAsync
<1>2. ASSUME NEW c \in Callers, LookHit(c)
      PROVE LoopTypeOK' /\ LoopHasKey'
  BY <1>2 DEF LookHit
<1>3. ASSUME NEW c \in Callers, LookMiss(c)
      PROVE LoopTypeOK' /\ LoopHasKey'
  BY <1>3 DEF LookMiss
<1>4. ASSUME NEW c \in Callers, NEW r \in Runs, ClaimWon(c, r)
      PROVE LoopTypeOK' /\ LoopHasKey'
  BY <1>4 DEF ClaimWon
<1>5. ASSUME NEW c \in Callers, ClaimLost(c)
      PROVE LoopTypeOK' /\ LoopHasKey'
  BY <1>5 DEF ClaimLost
<1>6. ASSUME NEW r \in Runs, NEW o \in Outcomes, SetOutcome(r, o)
      PROVE LoopTypeOK' /\ LoopHasKey'
  BY <1>6 DEF SetOutcome
<1>7. ASSUME NEW r \in Runs, TryRemove(r)
      PROVE LoopTypeOK' /\ LoopHasKey'
  <2>1. keyOf[r] \in Keys
    BY <1>7 DEF TryRemove, UnremovedOwnsItsSlot, Unremoved
  <2>2. QED
    BY <1>7, <2>1 DEF TryRemove
<1>8. ASSUME NEW c \in Callers, Resume(c)
      PROVE LoopTypeOK' /\ LoopHasKey'
  BY <1>8 DEF Resume
<1>9. CASE UNCHANGED loopVars
  BY <1>9 DEF loopVars
<1>10. QED
  BY <1>1, <1>2, <1>3, <1>4, <1>5, <1>6, <1>7, <1>8, <1>9 DEF LoopNext

\* Only three steps touch the registration: the claim, the publication of the
\* outcome and the removal.
LEMMA SlotStep == ASSUME FlightInv, [LoopNext]_loopVars PROVE UnremovedOwnsItsSlot'
<1> USE DEF FlightInv, LoopTypeOK, Phases, UnremovedOwnsItsSlot, Unremoved
<1>1. CASE UNCHANGED <<slot, phase, keyOf>>
  BY <1>1
<1>2. ASSUME NEW c \in Callers, NEW s \in Runs, ClaimWon(c, s)
      PROVE UnremovedOwnsItsSlot'
  <2>1. want[c] \in Keys /\ slot[want[c]] = None /\ ~Unremoved(s)
    BY <1>2 DEF ClaimWon, Fresh, LoopHasKey
  <2>2. ASSUME NEW r \in Runs, Unremoved(r)'
        PROVE (keyOf[r] \in Keys /\ slot[keyOf[r]] = r)'
    <3>1. CASE r = s
      BY <1>2, <2>1, <3>1 DEF ClaimWon
    <3>2. CASE r # s
      <4>1. Unremoved(r) /\ keyOf'[r] = keyOf[r]
        BY <1>2, <2>2, <3>2 DEF ClaimWon
      <4>2. keyOf[r] # want[c]
        BY <4>1, <2>1, NoneAssumption
      <4>3. QED
        BY <1>2, <2>1, <4>1, <4>2 DEF ClaimWon
    <3>3. QED
      BY <3>1, <3>2
  <2>3. ASSUME NEW k \in Keys, slot'[k] # None
        PROVE (Unremoved(slot[k]) /\ keyOf[slot[k]] = k)'
    <3>1. CASE k = want[c]
      BY <1>2, <2>1, <3>1 DEF ClaimWon
    <3>2. CASE k # want[c]
      <4>1. slot'[k] = slot[k] /\ Unremoved(slot[k]) /\ keyOf[slot[k]] = k
        BY <1>2, <2>3, <3>2 DEF ClaimWon
      <4>2. slot[k] # s /\ slot[k] \in Runs
        BY <4>1, <2>1, <2>3
      <4>3. QED
        BY <1>2, <4>1, <4>2 DEF ClaimWon
    <3>3. QED
      BY <3>1, <3>2
  <2>4. QED
    BY <2>2, <2>3
<1>3. ASSUME NEW s \in Runs, NEW o \in Outcomes, SetOutcome(s, o)
      PROVE UnremovedOwnsItsSlot'
  BY <1>3 DEF SetOutcome
<1>4. ASSUME NEW s \in Runs, TryRemove(s)
      PROVE UnremovedOwnsItsSlot'
  <2>1. keyOf[s] \in Keys /\ slot[keyOf[s]] = s
    BY <1>4 DEF TryRemove
  <2>2. slot' = [slot EXCEPT ![keyOf[s]] = None]
    BY <1>4, <2>1 DEF TryRemove
  <2>3. ASSUME NEW r \in Runs, Unremoved(r)'
        PROVE (keyOf[r] \in Keys /\ slot[keyOf[r]] = r)'
    BY <1>4, <2>1, <2>2, <2>3 DEF TryRemove
  <2>4. ASSUME NEW k \in Keys, slot'[k] # None
        PROVE (Unremoved(slot[k]) /\ keyOf[slot[k]] = k)'
    BY <1>4, <2>1, <2>2, <2>4 DEF TryRemove
  <2>5. QED
    BY <2>3, <2>4
<1>5. QED
  BY <1>1, <1>2, <1>3, <1>4
  DEF LoopNext, loopVars, RunAsync, LookHit, LookMiss, ClaimLost, Resume

\* The invariant, for any callers, keys and tasks.
LEMMA FlightInvariant == LoopSpec => []FlightInv
<1>1. FlightInv /\ [LoopNext]_loopVars => FlightInv'
  BY FlightTypeStep, SlotStep DEF FlightInv
<1>2. QED
  BY <1>1, InitFlight, PTL DEF LoopSpec

\* Every variable of the loop keeps its type, whatever the instance.
THEOREM FlightTypeCorrect == LoopSpec => []LoopTypeOK
  BY FlightInvariant, PTL DEF FlightInv

\* Every unremoved task is the entry of its key, so the conditional removal of
\* SingleFlight.cs:58 never finds another task there.
THEOREM RegistrationSafe == LoopSpec => []UnremovedOwnsItsSlot
  BY FlightInvariant, PTL DEF FlightInv

\* However many callers ask for a key, one execution serves them.
THEOREM ThunderingHerd == LoopSpec => []OneExecutionPerKey
<1>1. FlightInv => OneExecutionPerKey
  BY DEF FlightInv, UnremovedOwnsItsSlot, Unremoved, OneExecutionPerKey
<1>2. QED
  BY <1>1, FlightInvariant, PTL

-----------------------------------------------------------------------------
\* Refinement

\* The first states map to first states of the abstract specification.
LEMMA RefinementInit == LoopInit => Shared!Init
  BY DEF LoopInit, Shared!Init, abstractPc, abstractHeld

\* Each step of the loop is a join-or-start step of SharedFlight or invisible.
LEMMA RefinementStep ==
  ASSUME FlightInv, [LoopNext]_loopVars
  PROVE  [Shared!Next]_(Shared!flightVars)
<1> USE DEF FlightInv, LoopTypeOK, LoopHasKey, abstractPc, abstractHeld
<1>1. ASSUME NEW c \in Callers, NEW k \in Keys, RunAsync(c, k)
      PROVE Shared!Arrive(c, k)
  BY <1>1 DEF RunAsync, Shared!Arrive
<1>2. ASSUME NEW c \in Callers, LookHit(c)
      PROVE Shared!Join(c)
  BY <1>2 DEF LookHit, Shared!Join
<1>3. ASSUME NEW c \in Callers, LookMiss(c)
      PROVE UNCHANGED Shared!flightVars
  BY <1>3 DEF LookMiss, Shared!flightVars
<1>4. ASSUME NEW c \in Callers, NEW r \in Runs, ClaimWon(c, r)
      PROVE Shared!Start(c, r)
  <2>1. Shared!Fresh(r)
    BY <1>4, NoneAssumption DEF ClaimWon, Fresh, Shared!Fresh
  <2>2. QED
    BY <1>4, <2>1 DEF ClaimWon, Shared!Start
<1>5. ASSUME NEW c \in Callers, ClaimLost(c)
      PROVE UNCHANGED Shared!flightVars
  BY <1>5 DEF ClaimLost, Shared!flightVars
<1>6. ASSUME NEW r \in Runs, NEW o \in Outcomes, SetOutcome(r, o)
      PROVE Shared!Settle(r, o)
  BY <1>6 DEF SetOutcome, Shared!Settle
<1>7. ASSUME NEW r \in Runs, TryRemove(r)
      PROVE Shared!Free(r)
  <2>1. slot[keyOf[r]] = r
    BY <1>7 DEF TryRemove, UnremovedOwnsItsSlot, Unremoved
  <2>2. QED
    BY <1>7, <2>1 DEF TryRemove, Shared!Free
<1>8. ASSUME NEW c \in Callers, Resume(c)
      PROVE Shared!Return(c)
  BY <1>8 DEF Resume, Shared!Return
<1>9. CASE UNCHANGED loopVars
  BY <1>9 DEF loopVars, Shared!flightVars
<1>10. QED
  BY <1>1, <1>2, <1>3, <1>4, <1>5, <1>6, <1>7, <1>8, <1>9 DEF LoopNext, Shared!Next

\* The lock-free loop implements an atomic join-or-start.
THEOREM LoopIsAtomic == LoopSpec => ImplementsSharedFlight
<1>1. FlightInv /\ [LoopNext]_loopVars => [Shared!Next]_(Shared!flightVars)
  BY RefinementStep
<1>2. QED
  BY <1>1, RefinementInit, FlightInvariant, PTL
  DEF LoopSpec, ImplementsSharedFlight, Shared!Spec

=============================================================================
