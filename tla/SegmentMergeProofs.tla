------------------------- MODULE SegmentMergeProofs -------------------------
(***************************************************************************)
(* Theorems about SegmentMerge, for any number of segments, any lengths    *)
(* and any order in which the thread pool completes its tasks.             *)
(***************************************************************************)
EXTENDS SegmentMerge, SequenceTheorems, FiniteSetTheorems, WellFoundedInduction, TLAPS

-----------------------------------------------------------------------------
(* The inductive invariant: one part per phase of agen_kvcomm. *)

\* locate_placeholder lays the spans out without gaps.
Located == IF pc = "locate" THEN 1..(i - 1) ELSE Segments

TemplateInv ==
    /\ \A k \in Located :
          start[k] = IF k = 1 THEN head ELSE finish[k - 1] + text[k - 1]
    /\ pc = "locate" =>
          tokens = IF i = 1 THEN head ELSE finish[i - 1] + text[i - 1]

\* The refresh computes every offset again, whatever the first loop left.
Refreshed == CASE pc \in {"locate", "meta"} -> {}
               [] pc = "refresh"            -> 1..(i - 1)
               [] OTHER                     -> Segments

OffsetInv ==
    /\ \A k \in Refreshed :
          /\ after[k] = before[k] + Delta(cache[k], k)
          /\ before[k] = IF k = 1 THEN 0 ELSE after[k - 1]
    /\ pc = "refresh" => cum = IF i = 1 THEN 0 ELSE after[i - 1]

\* A result carries the positions of its segment, and every segment that is not
\* pending has one.
PoolInv ==
    /\ \A j \in DOMAIN results :
          LET r == results[j]
          IN  /\ r.ph = start[r.idx] + before[r.idx]
              /\ r.pf = finish[r.idx] + after[r.idx]
              /\ r.kv = cache[r.idx].kv
    /\ pc \in {"pool", "merge", "done"} =>
          \A k \in Segments \ pending : \E j \in DOMAIN results : results[j].idx = k
    /\ pc \in {"merge", "done"} =>
          /\ pending = {}
          /\ mode = "kv_reuse" => BlendFailed = {} /\ LengthMismatch = {}
    /\ pc \in {"locate", "meta", "refresh", "guard"} => results = <<>>
    /\ pc = "pool" => Len(results) + Cardinality(pending) = N

\* The merged KV ends where the next segment's placeholder begins.
MergeInv ==
    /\ pc \notin {"merge", "done"} => put = <<>> /\ total = head /\ ids = head
    /\ pc \in {"guard", "pool"} => i = 1
    /\ pc = "merge" => Len(put) = i - 1 /\ total = start[i] + before[i]
    /\ pc \in {"merge", "done"} /\ mode = "kv_reuse" => total = ids
    /\ PositionsExact

IInv == TypeOK /\ TemplateInv /\ OffsetInv /\ PoolInv /\ MergeInv

-----------------------------------------------------------------------------
\* The lengths are numbers.
LEMMA Numbers ==
    ASSUME TypeOK
    PROVE  /\ \A k \in Segments : /\ start[k] \in Int /\ finish[k] \in Int /\ text[k] \in Int
                                  /\ before[k] \in Int /\ after[k] \in Int
                                  /\ cache[k] \in Caches
                                  /\ cache[k].kv \in Int /\ cache[k].drop \in Int
                                  /\ cache[k].drift \in Int
           /\ \A c \in Caches, k \in Segments : Delta(c, k) \in Int
           /\ cum \in Int /\ total \in Int /\ ids \in Int /\ tokens \in Int /\ head \in Int
           /\ N \in Nat /\ N > 0 /\ i \in 1..N
<1>1. /\ KVLens \subseteq Int /\ Drops \subseteq Int /\ Drifts \subseteq Int
      /\ \A x \in TextLens \cup {0} : x \in Int
      /\ N \in Nat /\ N > 0
  BY MergeAssumption
<1>2. \A c \in Caches : c.kv \in Int /\ c.drop \in Int /\ c.drift \in Int
  BY <1>1 DEF Caches
<1>3. \A k \in Segments : start[k] \in Nat /\ finish[k] \in Nat /\ text[k] \in TextLens \cup {0}
                          /\ before[k] \in Int /\ after[k] \in Int /\ cache[k] \in Caches
  BY DEF TypeOK
<1>4. ASSUME NEW k \in Segments
      PROVE  start[k] \in Int /\ finish[k] \in Int /\ text[k] \in Int
  <2>1. start[k] \in Nat /\ finish[k] \in Nat
    BY <1>3
  <2>2. text[k] \in TextLens \cup {0}
    BY <1>3
  <2>3. text[k] \in Int
    BY <1>1, <2>2
  <2>4. QED
    BY <2>1, <2>3
<1>5. \A c \in Caches, k \in Segments : Delta(c, k) \in Int
  BY <1>2, <1>4 DEF Delta
<1>6. cum \in Int /\ total \in Int /\ ids \in Int /\ tokens \in Int /\ head \in Int /\ i \in 1..N
  BY DEF TypeOK, Segments
<1>7. QED
  BY <1>1, <1>2, <1>3, <1>4, <1>5, <1>6

\* sorted returns, at each place, the result of that segment.
LEMMA SortedHasEach ==
    ASSUME TypeOK, PoolInv, pc = "merge", NEW k \in Segments
    PROVE  /\ Sorted(results)[k] \in Result
           /\ Sorted(results)[k].idx = k
           /\ \E j \in DOMAIN results : Sorted(results)[k] = results[j]
<1>1. \E j \in DOMAIN results : results[j].idx = k
  BY DEF PoolInv
<1> DEFINE j == CHOOSE j \in DOMAIN results : results[j].idx = k
<1>2. j \in DOMAIN results /\ results[j].idx = k
  BY <1>1
<1>3. Sorted(results)[k] = results[j]
  BY DEF Sorted
<1>4. results[j] \in Result
  BY <1>2, ElementOfSeq DEF TypeOK
<1>5. QED
  BY <1>2, <1>3, <1>4

\* The pool starts with N tasks, and a completed task is one less.
LEMMA SegmentsFinite == IsFiniteSet(Segments) /\ Cardinality(Segments) = N
BY FS_Interval, MergeAssumption DEF Segments

LEMMA PendingFinite ==
    ASSUME TypeOK
    PROVE  /\ IsFiniteSet(pending) /\ Cardinality(pending) \in Nat
           /\ pending = {} => Cardinality(pending) = 0
           /\ \A k \in pending : Cardinality(pending \ {k}) = Cardinality(pending) - 1
<1>1. IsFiniteSet(pending)
  BY SegmentsFinite, FS_Subset DEF TypeOK
<1>2. QED
  BY <1>1, FS_CardinalityType, FS_EmptySet, FS_RemoveElement

-----------------------------------------------------------------------------
(* Each step keeps the invariant. *)

LEMMA InitEstablishes == Init => IInv
<1> SUFFICES ASSUME Init PROVE IInv
  OBVIOUS
<1> USE DEF Init
<1>1. TypeOK
  <2>1. HeadLens \subseteq Nat /\ 1 \in Segments /\ Fetched \subseteq Caches
    BY MergeAssumption DEF Segments, Fetched
  <2>2. head \in Nat /\ cache \in [Segments -> Caches]
    BY <2>1
  <2>3. Zero \in [Segments -> Nat] /\ Zero \in [Segments -> Int]
        /\ Zero \in [Segments -> TextLens \cup {0}]
    BY DEF Zero
  <2>4. results \in Seq(Result)
        /\ put \in Seq([idx : Segments, at : Int, ph : Int, pf : Int, kv : KVLens])
    BY EmptySeq
  <2>5. QED
    BY <2>1, <2>2, <2>3, <2>4 DEF TypeOK
<1>2. TemplateInv /\ OffsetInv
  BY DEF TemplateInv, OffsetInv, Located, Refreshed
<1>3. PoolInv /\ MergeInv
  BY DEF PoolInv, MergeInv, PositionsExact
<1>4. QED
  BY <1>1, <1>2, <1>3 DEF IInv

LEMMA LocateKeeps == IInv /\ Locate => IInv'
<1> SUFFICES ASSUME IInv, Locate PROVE IInv'
  OBVIOUS
<1> USE DEF IInv
<1>1. PICK name \in NameLens, txt \in TextLens :
        /\ Turn("locate", "meta")
        /\ start' = [start EXCEPT ![i] = tokens]
        /\ finish' = [finish EXCEPT ![i] = tokens + name]
        /\ text' = [text EXCEPT ![i] = txt]
        /\ tokens' = tokens + name + txt
        /\ UNCHANGED <<head, meta, mode, pool, merged>>
  BY DEF Locate
<1>2. name \in Nat /\ txt \in Nat /\ N \in Nat /\ N > 0
  BY MergeAssumption
<1>3. pc = "locate" /\ i \in 1..N
  BY <1>1 DEF Turn, TypeOK, Segments
<1>4. TypeOK'
  <2>1. pc' \in {"locate", "meta"} /\ i' \in Segments
    BY <1>1, <1>2, <1>3 DEF Turn, Segments
  <2>2. tokens \in Nat /\ tokens' \in Nat /\ tokens + name \in Nat
    BY <1>1, <1>2 DEF TypeOK
  <2>3. start' \in [Segments -> Nat] /\ finish' \in [Segments -> Nat]
    BY <1>1, <2>2 DEF TypeOK
  <2>4. text' \in [Segments -> TextLens \cup {0}]
    BY <1>1 DEF TypeOK
  <2>5. UNCHANGED <<head, cache, cum, before, after, mode, pending, results, purged, put, total, ids>>
    BY <1>1 DEF meta, pool, merged
  <2>6. QED
    BY <2>1, <2>2, <2>3, <2>4, <2>5 DEF TypeOK
<1>5. TemplateInv'
  <2>1. \A k \in 1..i : start'[k] = IF k = 1 THEN head' ELSE finish'[k - 1] + text'[k - 1]
    <3> SUFFICES ASSUME NEW k \in 1..i
                 PROVE  start'[k] = IF k = 1 THEN head' ELSE finish'[k - 1] + text'[k - 1]
      OBVIOUS
    <3>1. CASE k = i
      BY <1>1, <1>3, <3>1 DEF TemplateInv, TypeOK, Segments
    <3>2. CASE k < i
      BY <1>1, <1>3, <3>2 DEF TemplateInv, Located, TypeOK, Segments
    <3>3. QED
      BY <1>3, <3>1, <3>2
  <2>2. finish'[i] = tokens + name /\ text'[i] = txt /\ tokens' = finish'[i] + text'[i]
    BY <1>1, <1>3 DEF TypeOK, Segments
  <2>3. CASE i < N
    BY <1>1, <1>2, <1>3, <2>1, <2>2, <2>3 DEF TemplateInv, Located, Turn
  <2>4. CASE ~ i < N
    BY <1>1, <1>2, <1>3, <2>1, <2>4 DEF TemplateInv, Located, Turn, Segments
  <2>5. QED
    BY <2>3, <2>4
<1>6. OffsetInv'
  BY <1>1, <1>3 DEF OffsetInv, Refreshed, Turn, meta
<1>7. PoolInv' /\ MergeInv'
  BY <1>1, <1>3 DEF PoolInv, MergeInv, PositionsExact, Turn, pool, merged
<1>8. QED
  BY <1>4, <1>5, <1>6, <1>7

\* Both loops over meta write one record of it.
LEMMA SetOffsetsType ==
    ASSUME TypeOK, NEW c \in Caches, SetOffsets(c)
    PROVE  /\ cache' \in [Segments -> Caches]
           /\ before' \in [Segments -> Int] /\ after' \in [Segments -> Int]
           /\ before'[i] = cum /\ cache'[i] = c /\ after'[i] = cum + Delta(c, i)
           /\ \A k \in Segments : k # i => /\ before'[k] = before[k]
                                          /\ after'[k] = after[k]
                                          /\ cache'[k] = cache[k]
<1>1. i \in Segments /\ cum \in Int /\ Delta(c, i) \in Int
  BY Numbers DEF TypeOK
<1>2. cum + Delta(c, i) \in Int
  BY <1>1
<1>3. QED
  BY <1>1, <1>2 DEF SetOffsets, TypeOK

LEMMA BuildMetaKeeps == IInv /\ BuildMeta => IInv'
<1> SUFFICES ASSUME IInv, BuildMeta PROVE IInv'
  OBVIOUS
<1> USE DEF IInv
<1>1. /\ pc = "meta" /\ pc' \in {"meta", "refresh"} /\ i' \in Segments
      /\ pc' = "refresh" => i' = 1
      /\ pc' = "refresh" => cum' = 0
      /\ cum' \in Int
  BY Numbers DEF BuildMeta, Turn, Segments
<1>2. UNCHANGED <<tokens, head, start, finish, text, mode, pending, results, purged, put, total, ids>>
  BY DEF BuildMeta, template, pool, merged
<1>3. cache[i] \in Caches
  BY Numbers DEF TypeOK
<1>4. /\ cache' \in [Segments -> Caches]
      /\ before' \in [Segments -> Int] /\ after' \in [Segments -> Int]
  BY <1>3, SetOffsetsType DEF BuildMeta
<1>5. TypeOK'
  BY <1>1, <1>2, <1>4 DEF TypeOK
<1>6. TemplateInv'
  BY <1>1, <1>2 DEF TemplateInv, Located
<1>7. OffsetInv'
  BY <1>1 DEF OffsetInv, Refreshed
<1>8. results = <<>> /\ put = <<>> /\ total = head /\ ids = head
  BY <1>1 DEF PoolInv, MergeInv
<1>9. PoolInv' /\ MergeInv'
  BY <1>1, <1>2, <1>8 DEF PoolInv, MergeInv, PositionsExact
<1>10. QED
  BY <1>5, <1>6, <1>7, <1>9

LEMMA RefreshMetaKeeps == IInv /\ RefreshMeta => IInv'
<1> SUFFICES ASSUME IInv, RefreshMeta PROVE IInv'
  OBVIOUS
<1> USE DEF IInv
<1>1. PICK c \in Caches : /\ Turn("refresh", "guard")
                          /\ SetOffsets(c)
                          /\ cum' = IF i < N THEN cum + Delta(c, i) ELSE 0
                          /\ UNCHANGED <<template, mode, pool, merged>>
  BY Numbers DEF RefreshMeta, TypeOK
<1>2. UNCHANGED <<tokens, head, start, finish, text, mode, pending, results, purged, put, total, ids>>
  BY <1>1 DEF template, pool, merged
<1>3. /\ pc = "refresh" /\ pc' \in {"refresh", "guard"} /\ i' \in Segments /\ i \in 1..N
      /\ pc' = "refresh" => i < N /\ i' = i + 1
      /\ pc' = "guard" => i = N /\ i' = 1
  BY <1>1, Numbers DEF Turn, Segments
<1>4. cum \in Int /\ Delta(c, i) \in Int /\ cum' \in Int
  BY <1>1, Numbers DEF Segments
<1>5. TypeOK'
  BY <1>1, <1>2, <1>3, <1>4, SetOffsetsType DEF TypeOK
<1>6. TemplateInv'
  BY <1>2, <1>3 DEF TemplateInv, Located
<1>7. OffsetInv'
  <2>1. \A k \in 1..i : /\ after'[k] = before'[k] + Delta(cache[k], k)'
                         /\ before'[k] = IF k = 1 THEN 0 ELSE after'[k - 1]
    <3> SUFFICES ASSUME NEW k \in 1..i
                 PROVE  /\ after'[k] = before'[k] + Delta(cache[k], k)'
                        /\ before'[k] = IF k = 1 THEN 0 ELSE after'[k - 1]
      OBVIOUS
    <3>1. k \in Segments /\ (k # 1 => k - 1 \in Segments /\ k - 1 # i)
      BY <1>3, MergeAssumption DEF Segments
    <3>2. CASE k = i
      <4>1. Delta(cache[k], k)' = Delta(c, i)
        BY <1>1, <1>2, <3>1, <3>2, SetOffsetsType DEF Delta
      <4>2. QED
        BY <1>1, <1>3, <3>1, <3>2, <4>1, SetOffsetsType DEF OffsetInv
    <3>3. CASE k # i
      <4>1. Delta(cache[k], k)' = Delta(cache[k], k)
        BY <1>1, <1>2, <3>1, <3>3, SetOffsetsType DEF Delta
      <4>2. k \in Refreshed
        BY <1>3, <3>3 DEF Refreshed
      <4>3. QED
        BY <1>1, <3>1, <3>3, <4>1, <4>2, SetOffsetsType DEF OffsetInv
    <3>4. QED
      BY <3>2, <3>3
  <2>2. pc' = "refresh" => cum' = after'[i] /\ i' # 1 /\ i = i' - 1
    BY <1>1, <1>3, SetOffsetsType
  <2>3. Refreshed' = 1..i
    BY <1>3 DEF Refreshed, Segments
  <2>4. QED
    BY <1>3, <2>1, <2>2, <2>3 DEF OffsetInv
<1>8. results = <<>> /\ put = <<>> /\ total = head /\ ids = head
  BY <1>3 DEF PoolInv, MergeInv
<1>9. PoolInv' /\ MergeInv'
  BY <1>2, <1>3, <1>8 DEF PoolInv, MergeInv, PositionsExact
<1>10. QED
  BY <1>5, <1>6, <1>7, <1>9

LEMMA SubmitKeeps == IInv /\ Submit => IInv'
<1> SUFFICES ASSUME IInv, Submit PROVE IInv'
  OBVIOUS
<1> USE DEF IInv
<1>1. /\ pc = "guard" /\ pc' = "pool" /\ mode' \in {mode, "dense_prefill"}
      /\ pending' = Segments /\ results' = <<>>
      /\ UNCHANGED <<i, tokens, head, start, finish, text, cache, cum, before, after, purged, put, total, ids>>
  BY DEF Submit, template, meta, merged
<1>2. results' \in Seq(Result)
  BY <1>1, EmptySeq
<1>3. TypeOK'
  BY <1>1, <1>2 DEF TypeOK
<1>4. TemplateInv' /\ OffsetInv'
  BY <1>1 DEF TemplateInv, Located, OffsetInv, Refreshed, Delta
<1>5. Len(results') + Cardinality(pending') = N
  BY <1>1, SegmentsFinite, MergeAssumption, EmptySeq
<1>6. PoolInv'
  BY <1>1, <1>5 DEF PoolInv
<1>7. MergeInv'
  BY <1>1 DEF MergeInv, PositionsExact
<1>8. QED
  BY <1>3, <1>4, <1>6, <1>7

LEMMA SegmentDoneKeeps ==
    ASSUME IInv, NEW k \in Segments, SegmentDone(k)
    PROVE  IInv'
<1> USE DEF IInv
<1>1. PICK ok \in BOOLEAN :
        results' = Append(results, [idx |-> k, ph |-> RotatedPh(k), pf |-> RotatedPf(k),
                                    kv |-> cache[k].kv, drift |-> cache[k].drift,
                                    blended |-> ok])
  BY DEF SegmentDone
<1> DEFINE r == [idx |-> k, ph |-> RotatedPh(k), pf |-> RotatedPf(k),
                 kv |-> cache[k].kv, drift |-> cache[k].drift, blended |-> ok]
<1>2. /\ pc = "pool" /\ pending' = pending \ {k}
      /\ UNCHANGED <<pc, i, tokens, head, start, finish, text, cache, cum, before, after, mode,
                     purged, put, total, ids>>
  BY DEF SegmentDone, template, meta, merged
<1>3. RotatedPh(k) = start[k] + before[k] /\ RotatedPf(k) = finish[k] + after[k]
      /\ RotatedPh(k) \in Int /\ RotatedPf(k) \in Int
  BY Numbers DEF RotatedPh, RotatedPf
<1>4. cache[k].kv \in KVLens /\ cache[k].drift \in Drifts
  BY Numbers DEF Caches
<1>5. r \in Result
  BY <1>3, <1>4 DEF Result
<1>6. results \in Seq(Result)
  BY DEF TypeOK
<1> HIDE DEF r
<1>7. /\ results' \in Seq(Result) /\ Len(results') = Len(results) + 1
      /\ \A j \in 1..Len(results) : results'[j] = results[j]
      /\ results'[Len(results) + 1] = r
  BY <1>1, <1>5, <1>6, AppendProperties DEF r
<1>8. /\ Len(results) \in Nat
      /\ DOMAIN results = 1..Len(results) /\ DOMAIN results' = 1..(Len(results) + 1)
  BY <1>6, <1>7, LenProperties
<1>9. r.idx = k /\ r.ph = start[k] + before[k] /\ r.pf = finish[k] + after[k] /\ r.kv = cache[k].kv
  BY <1>3 DEF r
<1>10. TypeOK'
  BY <1>2, <1>7 DEF TypeOK
<1>11. TemplateInv' /\ OffsetInv'
  BY <1>2 DEF TemplateInv, Located, OffsetInv, Refreshed, Delta
<1>12. PoolInv'
  <2>1. ASSUME NEW j \in DOMAIN results'
        PROVE  /\ results'[j].ph = start[results'[j].idx] + before[results'[j].idx]
               /\ results'[j].pf = finish[results'[j].idx] + after[results'[j].idx]
               /\ results'[j].kv = cache[results'[j].idx].kv
    <3>1. CASE j = Len(results) + 1
      BY <1>7, <1>9, <3>1
    <3>2. CASE j \in 1..Len(results)
      BY <1>7, <1>8, <3>2 DEF PoolInv
    <3>3. QED
      BY <1>8, <3>1, <3>2
  <2>2. ASSUME NEW x \in Segments \ pending'
        PROVE  \E j \in DOMAIN results' : results'[j].idx = x
    <3>1. CASE x = k
      BY <1>7, <1>8, <1>9, <3>1
    <3>2. CASE x # k
      <4>1. PICK j \in DOMAIN results : results[j].idx = x
        BY <1>2, <3>2 DEF PoolInv
      <4>2. QED
        BY <1>7, <1>8, <4>1
    <3>3. QED
      BY <3>1, <3>2
  <2>3. k \in pending
    BY DEF SegmentDone
  <2>4. Len(results') + Cardinality(pending') = N
    <3>1. Cardinality(pending) \in Nat /\ Cardinality(pending') = Cardinality(pending) - 1
      BY <1>2, <2>3, PendingFinite
    <3>2. Len(results) + Cardinality(pending) = N
      BY <1>2 DEF PoolInv
    <3>3. QED
      BY <1>7, <1>8, <3>1, <3>2
  <2>5. QED
    BY <1>2, <2>1, <2>2, <2>4 DEF PoolInv
<1>13. MergeInv'
  BY <1>2 DEF MergeInv, PositionsExact
<1>14. QED
  BY <1>10, <1>11, <1>12, <1>13

LEMMA SegmentFailsKeeps == IInv /\ SegmentFails => IInv'
<1> SUFFICES ASSUME IInv, SegmentFails PROVE IInv'
  OBVIOUS
<1> USE DEF IInv
<1>1. /\ pc = "pool" /\ pc' = "failed"
      /\ UNCHANGED <<i, tokens, head, start, finish, text, cache, cum, before, after, mode,
                     pending, results, purged, put, total, ids>>
  BY DEF SegmentFails, template, meta, pool, merged
<1>2. TypeOK' /\ TemplateInv' /\ OffsetInv'
  BY <1>1 DEF TypeOK, TemplateInv, Located, OffsetInv, Refreshed, Delta
<1>3. PoolInv' /\ MergeInv'
  BY <1>1 DEF PoolInv, MergeInv, PositionsExact
<1>4. QED
  BY <1>2, <1>3

LEMMA FallBackKeeps == IInv /\ FallBack => IInv'
<1> SUFFICES ASSUME IInv, FallBack PROVE IInv'
  OBVIOUS
<1> USE DEF IInv
<1>1. /\ pc = "pool" /\ mode' = "dense_prefill" /\ purged' = BlendFailed
      /\ pending = {} /\ pending' = Segments /\ results' = <<>>
      /\ UNCHANGED <<pc, i, tokens, head, start, finish, text, cache, cum, before, after, put, total, ids>>
  BY DEF FallBack, template, meta, merged
<1>2. results' \in Seq(Result)
  BY <1>1, EmptySeq
<1>3. TypeOK'
  <2>1. results \in Seq(Result) /\ Len(results) = N
    BY <1>1, PendingFinite, LenProperties, MergeAssumption DEF PoolInv, TypeOK
  <2>2. BlendFailed \subseteq Segments
    BY <2>1, LenProperties DEF BlendFailed, Segments
  <2>3. QED
    BY <1>1, <1>2, <2>2 DEF TypeOK
<1>4. TemplateInv' /\ OffsetInv'
  BY <1>1 DEF TemplateInv, Located, OffsetInv, Refreshed, Delta
<1>5. Len(results') + Cardinality(pending') = N
  BY <1>1, SegmentsFinite, MergeAssumption, EmptySeq
<1>6. PoolInv'
  BY <1>1, <1>5 DEF PoolInv
<1>7. MergeInv'
  BY <1>1 DEF MergeInv, PositionsExact
<1>8. QED
  BY <1>3, <1>4, <1>6, <1>7

LEMMA AllDoneKeeps == IInv /\ AllDone => IInv'
<1> SUFFICES ASSUME IInv, AllDone PROVE IInv'
  OBVIOUS
<1> USE DEF IInv
<1>1. /\ pc = "pool" /\ pc' = "merge" /\ pending = {}
      /\ mode = "kv_reuse" => BlendFailed = {} /\ LengthMismatch = {}
      /\ UNCHANGED <<i, tokens, head, start, finish, text, cache, cum, before, after, mode,
                     pending, results, purged, put, total, ids>>
  BY DEF AllDone, template, meta, pool, merged
<1>2. TypeOK' /\ TemplateInv' /\ OffsetInv'
  BY <1>1 DEF TypeOK, TemplateInv, Located, OffsetInv, Refreshed, Delta
<1>3. PoolInv'
  BY <1>1 DEF PoolInv, BlendFailed, LengthMismatch
<1>4. MergeInv'
  <2>1. i = 1 /\ put = <<>> /\ total = head /\ ids = head
    BY <1>1 DEF MergeInv
  <2>2. start[1] = head /\ before[1] = 0
    BY <1>1, MergeAssumption DEF TemplateInv, Located, OffsetInv, Refreshed, Segments
  <2>3. total = start[i] + before[i]
    BY <2>1, <2>2, Numbers
  <2>4. QED
    BY <1>1, <2>1, <2>3, EmptySeq DEF MergeInv, PositionsExact
<1>5. QED
  BY <1>2, <1>3, <1>4

LEMMA ConcatKeeps == IInv /\ Concat => IInv'
<1> SUFFICES ASSUME IInv, Concat PROVE IInv'
  OBVIOUS
<1> USE DEF IInv
<1> DEFINE r == Sorted(results)[i]
           P == [idx : Segments, at : Int, ph : Int, pf : Int, kv : KVLens]
           e == [idx |-> r.idx, at |-> total, ph |-> r.ph, pf |-> r.pf, kv |-> r.kv]
<1>1. /\ Turn("merge", "done")
      /\ put' = Append(put, e)
      /\ total' = total + r.kv + text[r.idx]
      /\ ids' = ids + r.kv + r.drift + text[r.idx]
      /\ UNCHANGED <<tokens, head, start, finish, text, cache, cum, before, after, mode,
                     pending, results, purged>>
  BY DEF Concat, template, meta, pool
<1>2. /\ pc = "merge" /\ pc' \in {"merge", "done"} /\ i' \in Segments /\ i \in Segments
      /\ pc' = "merge" => i < N /\ i' = i + 1
  BY <1>1, Numbers DEF Turn, Segments
<1>3. /\ r \in Result /\ r.idx = i
      /\ \E j \in DOMAIN results : r = results[j]
  BY <1>2, SortedHasEach
<1>4. r.ph = start[i] + before[i] /\ r.pf = finish[i] + after[i] /\ r.kv = cache[i].kv
  BY <1>3 DEF PoolInv
<1>5. mode = "kv_reuse" => r.drift = 0
  <2> SUFFICES ASSUME mode = "kv_reuse" PROVE r.drift = 0
    OBVIOUS
  <2>1. LengthMismatch = {}
    BY <1>2 DEF PoolInv
  <2>2. QED
    BY <1>3, <2>1 DEF LengthMismatch
<1>6. r.kv \in Int /\ r.drift \in Int /\ r.ph \in Int /\ r.pf \in Int /\ r.kv \in KVLens
  <2>1. r.kv \in KVLens /\ r.drift \in Drifts /\ r.ph \in Int /\ r.pf \in Int
    BY <1>3 DEF Result
  <2>2. (\A x \in KVLens : x \in Int) /\ (\A x \in Drifts : x \in Int)
    BY MergeAssumption
  <2>3. QED
    BY <2>1, <2>2
<1>6a. /\ total \in Int /\ ids \in Int /\ text[i] \in Int /\ start[i] \in Int /\ finish[i] \in Int
      /\ before[i] \in Int /\ after[i] \in Int /\ cache[i].kv \in Int /\ i \in Int
  BY Numbers, <1>2 DEF Segments
<1>6b. /\ text[r.idx] = text[i]
      /\ total' = total + cache[i].kv + text[i]
      /\ ids' = ids + cache[i].kv + r.drift + text[i]
  <2>1. text[r.idx] = text[i]
    BY <1>3
  <2>2. QED
    BY <1>1, <1>4, <2>1
<1>7. e \in P /\ e.idx = i /\ e.at = total /\ e.ph = r.ph /\ e.pf = r.pf /\ e.kv = r.kv
  BY <1>2, <1>3, <1>6, Numbers
<1>8. put \in Seq(P) /\ Len(put) = i - 1 /\ total = start[i] + before[i]
  BY <1>2 DEF TypeOK, MergeInv
<1> HIDE DEF r, e, P
<1>9. /\ put' \in Seq(P) /\ Len(put') = i
      /\ \A k \in 1..(i - 1) : put'[k] = put[k]
      /\ put'[i] = e
      /\ DOMAIN put' = 1..i /\ DOMAIN put = 1..(i - 1)
  <2>1. i \in Int
    BY Numbers
  <2>2. QED
    BY <1>1, <1>7, <1>8, <2>1, AppendProperties, LenProperties
<1>10. TypeOK'
  <2>1. total' \in Int /\ ids' \in Int
    BY <1>6, <1>6b, <1>6a
  <2>2. QED
    BY <1>1, <1>2, <1>9, <2>1 DEF TypeOK, P
<1>11. TemplateInv' /\ OffsetInv'
  BY <1>1, <1>2 DEF TemplateInv, Located, OffsetInv, Refreshed, Delta
<1>12. PoolInv'
  BY <1>1, <1>2 DEF PoolInv, BlendFailed, LengthMismatch
<1>13. after[i] = before[i] + cache[i].kv - (finish[i] - start[i])
  BY <1>2, Numbers DEF OffsetInv, Refreshed, Delta
<1>14. pc' = "merge" => total' = start'[i'] + before'[i']
  <2> SUFFICES ASSUME pc' = "merge" PROVE total' = start'[i'] + before'[i']
    OBVIOUS
  <2>1. i + 1 \in Segments /\ i' = i + 1 /\ i + 1 # 1 /\ (i + 1) - 1 = i
    BY <1>2, Numbers DEF Segments
  <2>2. start[i + 1] = finish[i] + text[i] /\ before[i + 1] = after[i]
    BY <1>2, <2>1 DEF TemplateInv, Located, OffsetInv, Refreshed
  <2>3. total + cache[i].kv + text[i] = start[i + 1] + before[i + 1]
    BY <1>8, <1>13, <1>6a, <2>2, SMTT(60)
  <2>4. start' = start /\ before' = before
    BY <1>1
  <2>5. QED
    BY <1>6b, <2>1, <2>3, <2>4
<1>15. ASSUME NEW k \in 1..i
      PROVE  put'[k].idx = k /\ put'[k].ph = put'[k].at /\ put'[k].pf = put'[k].at + put'[k].kv
  <2>1. CASE k = i
    BY <1>4, <1>7, <1>8, <1>9, <1>13, <1>6a, <2>1, SMTT(60)
  <2>2. CASE k # i
    <3>1. k \in DOMAIN put /\ put'[k] = put[k]
      BY <1>9, <1>6a, <2>2
    <3>2. QED
      BY <3>1 DEF MergeInv, PositionsExact
  <2>3. QED
    BY <2>1, <2>2
<1>16. mode = "kv_reuse" => total' = ids'
  <2> SUFFICES ASSUME mode = "kv_reuse" PROVE total' = ids'
    OBVIOUS
  <2>1. total = ids /\ r.drift = 0
    BY <1>2, <1>5 DEF MergeInv
  <2>2. QED
    BY <1>6b, <1>6a, <2>1
<1>17. MergeInv'
  <2>1. PositionsExact'
    BY <1>9, <1>15 DEF PositionsExact
  <2>2. pc' = "merge" => Len(put') = i' - 1
    BY <1>2, <1>9, <1>6a
  <2>3. QED
    BY <1>1, <1>2, <1>14, <1>16, <2>1, <2>2 DEF MergeInv
<1>18. QED
  BY <1>10, <1>11, <1>12, <1>17

-----------------------------------------------------------------------------
(* The theorems *)

LEMMA Inductive == Spec => []IInv
<1>1. ASSUME IInv, [Next]_vars
      PROVE  IInv'
  <2>1. CASE UNCHANGED vars
    <3>1. UNCHANGED <<pc, i, tokens, head, start, finish, text, cache, cum, before, after, mode,
                      pending, results, purged, put, total, ids>>
      BY <2>1 DEF vars, template, meta, pool, merged
    <3>2. TypeOK' /\ TemplateInv' /\ OffsetInv'
      BY <1>1, <3>1 DEF IInv, TypeOK, TemplateInv, Located, OffsetInv, Refreshed, Delta
    <3>3. PoolInv' /\ MergeInv'
      BY <1>1, <3>1 DEF IInv, PoolInv, BlendFailed, LengthMismatch, MergeInv, PositionsExact
    <3>4. QED
      BY <3>2, <3>3 DEF IInv
  <2>2. ASSUME NEW k \in Segments, SegmentDone(k)
        PROVE  IInv'
    BY <1>1, <2>2, SegmentDoneKeeps
  <2>3. CASE Over
    BY <2>1, <2>3 DEF Over
  <2>4. QED
    BY <1>1, <2>1, <2>2, <2>3, LocateKeeps, BuildMetaKeeps, RefreshMetaKeeps, SubmitKeeps,
       SegmentFailsKeeps, FallBackKeeps, AllDoneKeeps, ConcatKeeps DEF Next
<1>2. QED
  BY InitEstablishes, <1>1, PTL DEF Spec

\* The model's variables keep their types.
THEOREM TypeCorrect == Spec => []TypeOK
<1>1. IInv => TypeOK
  BY DEF IInv
<1>2. QED
  BY Inductive, <1>1, PTL

\* In whatever order the pool completes, for any template and any lengths, every
\* segment of the merged KV carries the positions it has there.
THEOREM PositionsAreExact == Spec => []PositionsExact
<1>1. IInv => PositionsExact
  BY DEF IInv, MergeInv
<1>2. QED
  BY Inductive, <1>1, PTL

\* kv_reuse goes on only with segments that all blended, and with as many ids as
\* positions, although the failures are named by the wrong placeholders.
THEOREM ReusedIsWhole == Spec => []ReuseIsWhole
<1>1. ASSUME IInv
      PROVE  ReuseIsWhole
  <2> SUFFICES ASSUME pc \in {"merge", "done"}, mode = "kv_reuse"
               PROVE  /\ \A k \in Segments :
                             \E j \in DOMAIN results : results[j].idx = k /\ results[j].blended
                      /\ pc = "done" => total = ids
    BY DEF ReuseIsWhole
  <2>1. pending = {} /\ BlendFailed = {}
    BY <1>1 DEF IInv, PoolInv
  <2>2. ASSUME NEW k \in Segments
        PROVE  \E j \in DOMAIN results : results[j].idx = k /\ results[j].blended
    <3>1. PICK j \in DOMAIN results : results[j].idx = k
      BY <1>1, <2>1 DEF IInv, PoolInv
    <3>2. results[j].blended
      BY <2>1 DEF BlendFailed
    <3>3. QED
      BY <3>1, <3>2
  <2>3. total = ids
    BY <1>1 DEF IInv, MergeInv
  <2>4. QED
    BY <2>2, <2>3
<1>2. QED
  BY Inductive, <1>1, PTL

-----------------------------------------------------------------------------
(* The spans that the deltas are stored from. *)

\* What holds of 0, and goes from each number to the next, holds up to n.
LEMMA Climb ==
    ASSUME NEW n \in Nat, NEW T, 0 \in T,
           \A k \in 0..n : k \in T /\ k < n => k + 1 \in T
    PROVE  \A k \in 0..n : k \in T
<1> DEFINE B == {k \in 0..n : k \notin T}
<1> SUFFICES ASSUME B # {} PROVE FALSE
  OBVIOUS
<1>1. B \in SUBSET Nat
  OBVIOUS
<1>2. PICK b \in B : \A y \in B : ~(<<y, b>> \in OpToRel(<, Nat))
  BY <1>1, NatLessThanWellFounded, WFMin
<1>3. \A y \in B : ~(y < b)
  BY <1>1, <1>2 DEF OpToRel
<1>4. b # 0 /\ b \in 0..n /\ b \notin T
  OBVIOUS
<1>5. b - 1 \in 0..n /\ b - 1 < b /\ b - 1 < n
  BY <1>4
<1>6. b - 1 \in T
  BY <1>3, <1>5
<1>7. (b - 1) + 1 = b
  BY <1>4
<1>8. QED
  BY <1>4, <1>5, <1>6, <1>7

\* The sequence of the first k values of a function, with one more.
LEMMA OneMore ==
    ASSUME NEW n \in Nat, NEW S, NEW f \in [1..n -> S], NEW k \in 0..n, k < n
    PROVE  Append([j \in 1..k |-> f[j]], f[k + 1]) = [j \in 1..(k + 1) |-> f[j]]
<1> DEFINE s == [j \in 1..k |-> f[j]]
           t == [j \in 1..(k + 1) |-> f[j]]
<1>1. s \in [1..k -> S] /\ t \in [1..(k + 1) -> S] /\ f[k + 1] \in S
  OBVIOUS
<1>2. s \in Seq(S) /\ Len(s) = k
  <2>1. s \in Seq(S)
    BY <1>1, SeqDef
  <2>2. Len(s) \in Nat /\ DOMAIN s = 1..Len(s) /\ DOMAIN s = 1..k
    BY <2>1, LenProperties
  <2>3. QED
    BY <2>1, <2>2
<1>3. t \in Seq(S) /\ Len(t) = k + 1
  <2>1. t \in Seq(S)
    BY <1>1, SeqDef
  <2>2. Len(t) \in Nat /\ DOMAIN t = 1..Len(t) /\ DOMAIN t = 1..(k + 1)
    BY <2>1, LenProperties
  <2>3. QED
    BY <2>1, <2>2
<1>4. (\A j \in 1..k : s[j] = f[j]) /\ (\A j \in 1..(k + 1) : t[j] = f[j])
  OBVIOUS
<1> DEFINE u == Append(s, f[k + 1])
<1> HIDE DEF s, t
<1>5. /\ u \in Seq(S) /\ Len(u) = k + 1 /\ u[k + 1] = f[k + 1]
      /\ \A j \in 1..k : u[j] = s[j]
  BY <1>1, <1>2, AppendProperties
<1> HIDE DEF u
<1>6. \A j \in 1..(k + 1) : u[j] = t[j]
  <2> SUFFICES ASSUME NEW j \in 1..(k + 1) PROVE u[j] = t[j]
    OBVIOUS
  <2>1. CASE j = k + 1
    BY <1>4, <1>5, <2>1
  <2>2. CASE j # k + 1
    <3>1. j \in 1..k
      BY <2>2
    <3>2. QED
      BY <1>4, <1>5, <3>1
  <2>3. QED
    BY <2>1, <2>2
<1>7. u = t
  BY <1>3, <1>5, <1>6, SeqEqual
<1>8. QED
  BY <1>7 DEF u, s, t

\* If there is something left of, between and behind the placeholders, the split
\* yields all of it.
LEMMA GapsAreAll ==
    ASSUME \A k \in 1..(N + 1) : Gap(k)[1] < Gap(k)[2]
    PROVE  Len(Gaps) = N + 1 /\ \A k \in 1..(N + 1) : Gaps[k] = Gap(k)
<1> DEFINE S == {Gap(k) : k \in 1..(N + 1)}
           f == [k \in 1..(N + 1) |-> Gap(k)]
           first(k) == [j \in 1..k |-> f[j]]
           Def(h) == [k \in 0..(N + 1) |->
                        IF k = 0 THEN <<>>
                        ELSE IF Gap(k)[1] < Gap(k)[2] THEN Append(h[k - 1], Gap(k))
                        ELSE h[k - 1]]
           upTo == CHOOSE upTo : upTo = Def(upTo)
<1>1. N \in Nat /\ N + 1 \in Nat
  BY MergeAssumption
<1>2. f \in [1..(N + 1) -> S] /\ \A k \in 1..(N + 1) : f[k] = Gap(k)
  OBVIOUS
<1>3. Gaps = upTo[N + 1]
  BY DEF Gaps
<1>4. \A h : Def(h) = [k \in 0..(N + 1) |-> IF k = 0 THEN <<>> ELSE Append(h[k - 1], f[k])]
  <2> SUFFICES ASSUME NEW h
               PROVE  Def(h) = [k \in 0..(N + 1) |-> IF k = 0 THEN <<>> ELSE Append(h[k - 1], f[k])]
    OBVIOUS
  <2>1. \A k \in 0..(N + 1) : k # 0 => k \in 1..(N + 1)
    BY <1>1
  <2> HIDE DEF f
  <2>2. QED
    BY <1>2, <2>1
<1>5. ASSUME NEW k \in 0..(N + 1), k < N + 1
      PROVE  Append(first(k), f[k + 1]) = first(k + 1)
  <2> HIDE DEF f, S
  <2>1. QED
    BY <1>1, <1>2, <1>5, OneMore
<1>6. first(0) = <<>>
  OBVIOUS
<1> HIDE DEF S, f, Def, upTo, first
<1> DEFINE all == [k \in 0..(N + 1) |-> first(k)]
<1>7. all = Def(all)
  <2>1. ASSUME NEW k \in 1..(N + 1)
        PROVE  first(k) = Append(all[k - 1], f[k])
    <3>1. k - 1 \in 0..(N + 1) /\ k - 1 < N + 1 /\ (k - 1) + 1 = k
      BY <1>1
    <3>2. QED
      BY <1>5, <3>1
  <2>2. \A k \in 0..(N + 1) : k # 0 => k \in 1..(N + 1)
    BY <1>1
  <2>3. all = [k \in 0..(N + 1) |-> IF k = 0 THEN <<>> ELSE Append(all[k - 1], f[k])]
    BY <1>6, <2>1, <2>2
  <2>4. QED
    BY <1>4, <2>3
<1>8. upTo = Def(upTo)
  BY <1>7 DEF upTo
<1>9. upTo = [k \in 0..(N + 1) |-> IF k = 0 THEN <<>> ELSE Append(upTo[k - 1], f[k])]
  BY <1>4, <1>8
<1> DEFINE T == {k \in 0..(N + 1) : upTo[k] = first(k)}
<1>10. 0 \in T
  <2>1. 0 \in 0..(N + 1)
    BY <1>1
  <2>2. QED
    BY <1>6, <1>9, <2>1
<1>11. ASSUME NEW k \in 0..(N + 1), k \in T, k < N + 1
       PROVE  k + 1 \in T
  <2>1. k + 1 \in 0..(N + 1) /\ k + 1 # 0 /\ (k + 1) - 1 = k
    BY <1>1, <1>11
  <2>2. upTo[k + 1] = Append(upTo[k], f[k + 1])
    BY <1>9, <2>1
  <2>3. QED
    BY <1>5, <1>11, <2>1, <2>2
<1>12. N + 1 \in T
  <2> HIDE DEF T
  <2>1. \A k \in 0..(N + 1) : k \in T
    BY <1>1, <1>10, <1>11, Climb
  <2>2. QED
    BY <1>1, <2>1
<1>13. Gaps = first(N + 1)
  BY <1>3, <1>12
<1>14. first(N + 1) \in [1..(N + 1) -> S] /\ \A k \in 1..(N + 1) : first(N + 1)[k] = Gap(k)
  BY <1>1, <1>2 DEF first
<1>15. Gaps \in Seq(S)
  BY <1>1, <1>13, <1>14, SeqDef
<1>16. Len(Gaps) \in Nat /\ DOMAIN Gaps = 1..Len(Gaps) /\ DOMAIN Gaps = 1..(N + 1)
  BY <1>13, <1>14, <1>15, LenProperties
<1>17. QED
  BY <1>1, <1>13, <1>14, <1>16

\* Texts are not empty; a result keeps the drift of its cache; what is put has the
\* place and the length of its segment, and the last text ends the prefix, which
\* without drift has as many ids as positions.
SpanInv ==
    /\ head \in HeadLens /\ \A k \in Located : text[k] \in TextLens
    /\ \A j \in DOMAIN results : results[j].drift = cache[results[j].idx].drift
    /\ \A k \in DOMAIN put : put[k].at = start[k] + before[k] /\ put[k].kv = cache[k].kv
    /\ pc = "done" => Len(put) = N /\ total = start[N] + before[N] + cache[N].kv + text[N]
    /\ pc \in {"merge", "done"} /\ (\A k \in Segments : cache[k].drift = 0) => total = ids

\* The first state has no text, result or merged segment yet.
LEMMA SpanInit == Init => SpanInv
<1> SUFFICES ASSUME Init PROVE SpanInv
  OBVIOUS
<1>1. results = <<>> /\ put = <<>> /\ pc = "locate" /\ i = 1 /\ head \in HeadLens
  BY DEF Init
<1>2. QED
  BY <1>1 DEF SpanInv, Located

\* Each step keeps it.
LEMMA SpanKept ==
    ASSUME IInv, IInv', SpanInv, [Next]_vars
    PROVE  SpanInv'
<1>1. N \in Nat /\ N > 0 /\ i \in 1..N
  BY Numbers DEF IInv
<1>2. CASE Locate
  <2>1. PICK name \in NameLens, txt \in TextLens :
            /\ Turn("locate", "meta") /\ text' = [text EXCEPT ![i] = txt]
            /\ UNCHANGED <<head, cache, results, put>>
    BY <1>2 DEF Locate, meta, pool, merged
  <2>2. results = <<>> /\ put = <<>>
    BY <2>1 DEF IInv, PoolInv, MergeInv, Turn
  <2>3. pc = "locate" /\ ((pc' = "locate" /\ i < N /\ i' = i + 1) \/ (pc' = "meta" /\ i = N))
    <3>1. Turn("locate", "meta")
      BY <2>1
    <3>2. CASE i < N
      BY <3>1, <3>2 DEF Turn
    <3>3. CASE i = N
      <4>1. ~ (i < N)
        BY <1>1, <3>3
      <4>2. QED
        BY <3>1, <3>3, <4>1 DEF Turn
    <3>4. QED
      BY <1>1, <3>2, <3>3
  <2>4. \A k \in Located' : k = i \/ k \in Located
    BY <1>1, <2>3 DEF Located, Segments
  <2>5. ASSUME NEW k \in Located'
        PROVE  text'[k] \in TextLens
    <3>1. i \in Segments /\ text \in [Segments -> TextLens \cup {0}]
      BY <1>1 DEF IInv, TypeOK
    <3>2. CASE k = i
      BY <2>1, <3>1, <3>2
    <3>3. CASE k # i
      <4>1. k \in Located /\ k \in Segments
        BY <1>1, <2>3, <2>4, <3>3 DEF Located, Segments
      <4>2. QED
        BY <2>1, <3>1, <3>3, <4>1 DEF SpanInv
    <3>4. QED
      BY <3>2, <3>3
  <2>6. QED
    BY <2>1, <2>2, <2>3, <2>5 DEF SpanInv
<1>3. CASE BuildMeta \/ RefreshMeta
  <2>1. pc \in {"meta", "refresh"} /\ pc' \in {"meta", "refresh", "guard"}
        /\ UNCHANGED <<head, text, results, put>>
    BY <1>3 DEF BuildMeta, RefreshMeta, Turn, template, pool, merged
  <2>2. results = <<>> /\ put = <<>>
    BY <2>1 DEF IInv, PoolInv, MergeInv
  <2>3. QED
    BY <2>1, <2>2 DEF SpanInv, Located
<1>4. CASE Submit \/ FallBack
  <2>1. pc \in {"guard", "pool"} /\ pc' = "pool" /\ results' = <<>>
        /\ UNCHANGED <<head, start, before, text, cache, put>>
    BY <1>4 DEF Submit, FallBack, template, meta, merged
  <2>2. QED
    BY <2>1 DEF SpanInv, Located
<1>5. ASSUME NEW k \in Segments, SegmentDone(k)
      PROVE  SpanInv'
  <2>1. PICK ok \in BOOLEAN :
            results' = Append(results, [idx |-> k, ph |-> RotatedPh(k), pf |-> RotatedPf(k),
                                        kv |-> cache[k].kv, drift |-> cache[k].drift,
                                        blended |-> ok])
    BY <1>5 DEF SegmentDone
  <2> DEFINE r == [idx |-> k, ph |-> RotatedPh(k), pf |-> RotatedPf(k), kv |-> cache[k].kv,
                   drift |-> cache[k].drift, blended |-> ok]
  <2>2. r.idx = k /\ r.drift = cache[k].drift
    OBVIOUS
  <2>3. results \in Seq(Result) /\ results' = Append(results, r) /\ results' \in Seq(Result)
    BY <2>1 DEF IInv, TypeOK
  <2> HIDE DEF r
  <2>4. ASSUME NEW j \in DOMAIN results'
        PROVE  (j \in DOMAIN results /\ results'[j] = results[j]) \/ results'[j] = r
    BY <2>3
  <2>5. pc = "pool" /\ pc' = "pool" /\ UNCHANGED <<head, start, before, text, cache, put>>
    BY <1>5 DEF SegmentDone, template, meta, merged
  <2>6. ASSUME NEW j \in DOMAIN results'
        PROVE  results'[j].drift = cache[results'[j].idx].drift
    <3>1. \A l \in DOMAIN results : results[l].drift = cache[results[l].idx].drift
      BY DEF SpanInv
    <3>2. CASE results'[j] = r
      BY <2>2, <3>2
    <3>3. CASE j \in DOMAIN results /\ results'[j] = results[j]
      BY <3>1, <3>3
    <3>4. QED
      BY <2>4, <2>6, <3>2, <3>3
  <2>7. QED
    BY <2>5, <2>6 DEF SpanInv, Located
<1>6. CASE SegmentFails
  BY <1>6 DEF SegmentFails, SpanInv, Located, template, meta, pool, merged
<1>7. CASE AllDone
  <2>1. pc = "pool" /\ pc' = "merge"
        /\ UNCHANGED <<head, start, before, text, cache, results, put, total, ids>>
    BY <1>7 DEF AllDone, template, meta, pool, merged
  <2>2. total = ids
    BY <2>1 DEF IInv, MergeInv
  <2>3. QED
    BY <2>1, <2>2 DEF SpanInv, Located
<1>8. CASE Concat
  <2> DEFINE r == Sorted(results)[i]
             e == [idx |-> r.idx, at |-> total, ph |-> r.ph, pf |-> r.pf, kv |-> r.kv]
  <2>1. /\ Turn("merge", "done") /\ put' = Append(put, e)
        /\ total' = total + r.kv + text[r.idx]
        /\ ids' = ids + r.kv + r.drift + text[r.idx]
        /\ UNCHANGED <<head, start, before, text, cache, results>>
    BY <1>8 DEF Concat, template, meta, pool
  <2>2. /\ pc = "merge" /\ i \in Segments
        /\ (pc' = "merge" /\ i < N) \/ (pc' = "done" /\ i = N)
    <3>1. Turn("merge", "done") /\ i \in Segments
      BY <1>1, <2>1 DEF Segments
    <3>2. CASE i < N
      BY <3>1, <3>2 DEF Turn
    <3>3. CASE i = N
      <4>1. ~ (i < N)
        BY <1>1, <3>3
      <4>2. QED
        BY <3>1, <3>3, <4>1 DEF Turn
    <3>4. QED
      BY <1>1, <3>2, <3>3
  <2>3. /\ r.idx = i /\ r.kv = cache[i].kv /\ r.drift = cache[i].drift
    <3>1. r.idx = i /\ \E j \in DOMAIN results : r = results[j]
      BY <2>2, SortedHasEach DEF IInv
    <3> HIDE DEF r
    <3>2. QED
      BY <3>1 DEF IInv, PoolInv, SpanInv
  <2>4. e.at = total /\ e.kv = cache[i].kv
    BY <2>3
  <2>5. total = start[i] + before[i] /\ Len(put) = i - 1
    BY <2>2 DEF IInv, MergeInv
  <2> DEFINE P == [idx : Segments, at : Int, ph : Int, pf : Int, kv : KVLens]
  <2>6. put \in Seq(P) /\ put' \in Seq(P)
    BY DEF IInv, TypeOK
  <2> HIDE DEF r, e, P
  <2>7. /\ Len(put') = i /\ put'[i] = e /\ DOMAIN put' = 1..i /\ DOMAIN put = 1..(i - 1)
        /\ \A k \in 1..(i - 1) : put'[k] = put[k]
    <3>1. put' = Append(put, e)
      BY <2>1
    <3>2. QED
      BY <1>1, <2>5, <2>6, <3>1
  <2>8. ASSUME NEW k \in DOMAIN put'
        PROVE  put'[k].at = start[k] + before[k] /\ put'[k].kv = cache[k].kv
    <3>1. CASE k = i
      BY <2>4, <2>5, <2>7, <3>1
    <3>2. CASE k # i
      <4>1. k \in DOMAIN put /\ put'[k] = put[k]
        BY <1>1, <2>7, <3>2
      <4>2. QED
        BY <4>1 DEF SpanInv
    <3>3. QED
      BY <3>1, <3>2
  <2>9. /\ total' = total + cache[i].kv + text[i]
        /\ ids' = ids + cache[i].kv + cache[i].drift + text[i]
    BY <2>1, <2>3
  <2>10. /\ total \in Int /\ ids \in Int /\ text[i] \in Int /\ start[i] \in Int
         /\ before[i] \in Int /\ cache[i].kv \in Int
    BY <2>2, Numbers DEF IInv
  <2>11. pc' = "done" => Len(put') = N /\ total' = start[N] + before[N] + cache[N].kv + text[N]
    BY <2>2, <2>5, <2>7, <2>9
  <2>12. (\A k \in Segments : cache[k].drift = 0) => total' = ids'
    <3> SUFFICES ASSUME \A k \in Segments : cache[k].drift = 0 PROVE total' = ids'
      OBVIOUS
    <3>1. total = ids /\ cache[i].drift = 0
      BY <2>2 DEF SpanInv
    <3>2. QED
      BY <2>9, <2>10, <3>1
  <2>13. Located' = Located
    BY <2>2 DEF Located
  <2>14. QED
    BY <2>1, <2>8, <2>11, <2>12, <2>13 DEF SpanInv
<1>9. CASE UNCHANGED vars
  BY <1>9 DEF vars, template, meta, pool, merged, SpanInv, Located
<1>10. CASE Over
  BY <1>9, <1>10 DEF Over
<1>11. QED
  BY <1>2, <1>3, <1>4, <1>5, <1>6, <1>7, <1>8, <1>9, <1>10 DEF Next

\* When the prefix is merged without drift, the split finds each placeholder where
\* its segment was put, and behind it the text of that segment.
LEMMA SpansAreOwn ==
    ASSUME IInv, SpanInv, pc = "done", \A k \in Segments : cache[k].drift = 0,
           NEW k \in Segments
    PROVE  /\ PhSpan(k) = <<put[k].at, put[k].at + put[k].kv>>
           /\ PfSpan(k) = <<put[k].at + put[k].kv, put[k].at + put[k].kv + text[k]>>
<1>1. N \in Nat /\ N > 0
  BY Numbers DEF IInv
<1>2. \A n \in Segments : /\ start[n] \in Int /\ finish[n] \in Int /\ text[n] \in Int
                          /\ before[n] \in Int /\ after[n] \in Int /\ cache[n].kv \in Int
  BY Numbers DEF IInv
<1>3. ASSUME NEW n \in Segments
      PROVE  text[n] \in Nat /\ text[n] > 0
  <2>1. text[n] \in TextLens
    BY <1>3 DEF SpanInv, Located
  <2>2. QED
    BY <2>1, MergeAssumption
<1>4. head \in Nat /\ head > 0
  BY MergeAssumption DEF SpanInv
<1>5. ASSUME NEW n \in Segments
      PROVE  put[n].at = start[n] + before[n] /\ put[n].kv = cache[n].kv
  <2>1. Len(put) = N /\ put \in Seq([idx : Segments, at : Int, ph : Int, pf : Int, kv : KVLens])
    BY DEF SpanInv, IInv, TypeOK
  <2>2. DOMAIN put = 1..N
    BY <2>1, LenProperties
  <2>3. QED
    BY <2>2 DEF SpanInv, Segments
<1> DEFINE s(n) == start[n] + before[n]
           e(n) == start[n] + before[n] + cache[n].kv
<1>6. ASSUME NEW n \in Segments
      PROVE  PhSpan(n) = <<s(n), e(n)>> /\ s(n) \in Int /\ e(n) \in Int
  BY <1>2, <1>6 DEF PhSpan
<1>7. ASSUME NEW n \in 1..(N - 1)
      PROVE  s(n + 1) = e(n) + text[n]
  <2>1. n \in Segments /\ n + 1 \in Segments /\ n + 1 # 1 /\ (n + 1) - 1 = n
    BY <1>1, <1>7 DEF Segments
  <2>2. start[n + 1] = finish[n] + text[n]
    BY <2>1 DEF IInv, TemplateInv, Located
  <2>3. before[n + 1] = after[n] /\ after[n] = before[n] + (cache[n].kv - (finish[n] - start[n]))
    BY <2>1 DEF IInv, OffsetInv, Refreshed, Delta
  <2>4. QED
    BY <1>2, <2>1, <2>2, <2>3
<1>8. s(1) = head /\ 1 \in Segments
  <2>1. 1 \in Segments
    BY <1>1 DEF Segments
  <2>2. start[1] = head /\ before[1] = 0
    BY <2>1 DEF IInv, TemplateInv, OffsetInv, Located, Refreshed
  <2>3. QED
    BY <1>4, <2>1, <2>2
<1>9. ids = e(N) + text[N] /\ N \in Segments
  BY <1>1 DEF SpanInv, Segments
<1> HIDE DEF s, e
<1>10. Gap(1) = <<0, head>>
  BY <1>1, <1>6, <1>8 DEF Gap
<1>11. ASSUME NEW n \in Segments
       PROVE  Gap(n + 1) = <<e(n), e(n) + text[n]>>
  <2>1. n + 1 # 1 /\ (n + 1) - 1 = n
    BY <1>1, <1>11 DEF Segments
  <2>2. CASE n = N
    <3>1. n + 1 > N
      BY <1>1, <2>2
    <3>2. QED
      BY <1>6, <1>9, <2>1, <2>2, <3>1 DEF Gap
  <2>3. CASE n # N
    <3>1. ~(n + 1 > N) /\ n \in 1..(N - 1) /\ n + 1 \in Segments
      BY <1>1, <1>11, <2>3 DEF Segments
    <3>2. PhSpan(n + 1)[1] = e(n) + text[n]
      BY <1>6, <1>7, <3>1
    <3>3. QED
      BY <1>6, <2>1, <3>1, <3>2 DEF Gap
  <2>4. QED
    BY <2>2, <2>3
<1>12. ASSUME NEW n \in 1..(N + 1)
       PROVE  Gap(n)[1] < Gap(n)[2]
  <2>1. CASE n = 1
    BY <1>4, <1>10, <2>1
  <2>2. CASE n # 1
    <3>1. n - 1 \in Segments /\ (n - 1) + 1 = n
      BY <1>1, <1>12, <2>2 DEF Segments
    <3>2. Gap(n) = <<e(n - 1), e(n - 1) + text[n - 1]>>
      BY <1>11, <3>1
    <3>3. QED
      BY <1>3, <1>6, <3>1, <3>2
  <2>3. QED
    BY <2>1, <2>2
<1>13. Len(Gaps) = N + 1 /\ \A n \in 1..(N + 1) : Gaps[n] = Gap(n)
  BY <1>12, GapsAreAll
<1>14. PfSpan(k) = Gap(k + 1)
  <2>1. (N + 1) - N + k = k + 1 /\ k + 1 \in 1..(N + 1)
    BY <1>1 DEF Segments
  <2>2. QED
    BY <1>13, <2>1 DEF PfSpan
<1>15. QED
  BY <1>5, <1>6, <1>11, <1>14 DEF s, e

\* The deltas that set_anchor stores for a placeholder come from its tokens and
\* from the text behind it: the split of the model's KV finds N + 1 spans, none
\* of them empty (_split_cache_by_placeholders).
THEOREM DeltasAreOwn == Spec => []DeltasFromOwnSpan
<1>1. IInv /\ SpanInv => DeltasFromOwnSpan
  BY SpansAreOwn DEF DeltasFromOwnSpan
<1>2. IInv /\ IInv' /\ SpanInv /\ [Next]_vars => SpanInv'
  BY SpanKept
<1>3. QED
  BY Inductive, SpanInit, <1>1, <1>2, PTL DEF Spec

=============================================================================
