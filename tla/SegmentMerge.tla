---------------------------- MODULE SegmentMerge ----------------------------
(***************************************************************************)
(* How LLMChat.agen_kvcomm (KVCOMM/llm/gpt_chat.py) assembles the prefix   *)
(* KV of one generation. The prompt template is                            *)
(*     head {ph 1} text 1 {ph 2} text 2 ... {ph N} text N                  *)
(* Every text has its own KV, computed at the positions it has in the      *)
(* template, and every placeholder is replaced by the KV of a message,     *)
(* computed elsewhere and longer or shorter than the placeholder's name.   *)
(* Both are rotated to the positions they get in the merged prefix. The    *)
(* rotations run in a thread pool, and their results arrive in any order.  *)
(*                                                                         *)
(* Tensors are abstracted to their lengths and the position of their first *)
(* token. Prompts have text before, between and after the placeholders,    *)
(* as all the prompts of the agents and of the sidecar do.                 *)
(***************************************************************************)
EXTENDS Integers, Sequences

CONSTANTS N,         \* placeholders of the template
          HeadLens,  \* token lengths of the text before the first placeholder
          TextLens,  \* token lengths of the other texts
          NameLens,  \* token lengths of the placeholders' names
          KVLens,    \* lengths of the message KVs, without their own prefix
          Drops,     \* lengths of that prefix (drop_num)
          Drifts     \* token ids of a cache minus its KV length

ASSUME MergeAssumption ==
    /\ N \in Nat \ {0}
    /\ HeadLens \cup TextLens \cup NameLens \cup KVLens \subseteq Nat \ {0}
    /\ Drops \subseteq Nat
    /\ Drifts \subseteq Int /\ 0 \in Drifts

VARIABLES
    pc, i,          \* where agen_kvcomm is, and the index of its current loop
    tokens,         \* token_num of locate_placeholder
    head, start, finish, text,  \* the template: spans of placeholders and texts
    cache,          \* meta: ph_cache, its drop_num and its ids
    cum,            \* cum_offset
    before, after,  \* meta: offset_before, offset_after
    mode,           \* "kv_reuse" or "dense_prefill"
    pending,        \* the segments the pool still works on
    results,        \* what the pool returned so far
    purged,         \* the placeholders whose deltas were dropped
    put,            \* the segments of merged_prefix_kv
    total, ids      \* its length, and the length of merged_prefix_token_ids

template == <<tokens, head, start, finish, text>>
meta     == <<cache, cum, before, after>>
pool     == <<pending, results, purged>>
merged   == <<put, total, ids>>
vars     == <<pc, i, template, meta, mode, pool, merged>>

Segments == 1..N

Caches == [kv : KVLens, drop : Drops, drift : Drifts]

\* A fetched cache has as many ids as positions (_guard_fetched_kv_token_pair).
Fetched == {c \in Caches : c.drift = 0}

\* ph and pf are the positions the first placeholder token and the first text
\* token are rotated to.
Result == [idx : Segments, ph : Int, pf : Int, kv : KVLens, drift : Drifts,
           blended : BOOLEAN]

TypeOK ==
    /\ pc \in {"locate", "meta", "refresh", "guard", "pool", "merge", "done", "failed"}
    /\ i \in Segments
    /\ tokens \in Nat /\ head \in Nat /\ cum \in Int
    /\ start \in [Segments -> Nat] /\ finish \in [Segments -> Nat]
    /\ text \in [Segments -> TextLens \cup {0}]
    /\ cache \in [Segments -> Caches]
    /\ before \in [Segments -> Int] /\ after \in [Segments -> Int]
    /\ mode \in {"kv_reuse", "dense_prefill"}
    /\ pending \subseteq Segments /\ purged \subseteq Segments
    /\ results \in Seq(Result)
    /\ put \in Seq([idx : Segments, at : Int, ph : Int, pf : Int, kv : KVLens])
    /\ total \in Int /\ ids \in Int

Zero == [k \in Segments |-> 0]

Init ==
    /\ pc = "locate" /\ i = 1
    /\ head \in HeadLens /\ tokens = head
    /\ start = Zero /\ finish = Zero /\ text = Zero
    /\ cache \in [Segments -> Fetched]
    /\ cum = 0 /\ before = Zero /\ after = Zero
    /\ mode \in {"kv_reuse", "dense_prefill"}
    /\ pending = {} /\ results = <<>> /\ purged = {}
    /\ put = <<>> /\ total = head /\ ids = head

\* Variant: the loop runs once too often.
TurnTooFar(here, next) ==
    /\ pc = here
    /\ IF i <= N THEN pc' = here /\ i' = i + 1 ELSE pc' = next /\ i' = 1

\* One turn of a loop over the segments; the last one goes on to next.
Turn(here, next) ==
    /\ pc = here
    /\ IF i < N THEN pc' = here /\ i' = i + 1 ELSE pc' = next /\ i' = 1

-----------------------------------------------------------------------------
\* locate_placeholder: spans are counted text by text in the template.
Locate ==
    \E name \in NameLens, txt \in TextLens :
        /\ Turn("locate", "meta")
        /\ start' = [start EXCEPT ![i] = tokens]
        /\ finish' = [finish EXCEPT ![i] = tokens + name]
        /\ text' = [text EXCEPT ![i] = txt]
        /\ tokens' = tokens + name + txt
        /\ UNCHANGED <<head, meta, mode, pool, merged>>

\* How much longer than its name the message is.
Delta(c, k) == c.kv - (finish[k] - start[k])

\* Variant: the cache is replaced, the offsets stay those of the first loop.
SetOffsetsOnce(c) ==
    /\ cache' = [cache EXCEPT ![i] = c]
    /\ before' = IF pc = "meta" THEN [before EXCEPT ![i] = cum] ELSE before
    /\ after' = IF pc = "meta" THEN [after EXCEPT ![i] = cum + Delta(c, i)] ELSE after

\* meta[i] for cache c: the offsets before and after this placeholder.
SetOffsets(c) ==
    /\ cache' = [cache EXCEPT ![i] = c]
    /\ before' = [before EXCEPT ![i] = cum]
    /\ after' = [after EXCEPT ![i] = cum + Delta(c, i)]

\* The first loop of agen_kvcomm, over the fetched caches.
BuildMeta ==
    /\ Turn("meta", "refresh")
    /\ SetOffsets(cache[i])
    /\ cum' = IF i < N THEN cum + Delta(cache[i], i) ELSE 0
    /\ UNCHANGED <<template, mode, pool, merged>>

\* _refresh_meta_from_upstream_slots, after the awaits that fill the consumer
\* slots: a slot's cache replaces the fetched one, and the offsets of all the
\* segments are computed again. Here a mismatch of KV and ids only warns.
RefreshMeta ==
    \E c \in Caches \cup {cache[i]} :
        /\ Turn("refresh", "guard")
        /\ SetOffsets(c)
        /\ cum' = IF i < N THEN cum + Delta(c, i) ELSE 0
        /\ UNCHANGED <<template, mode, pool, merged>>

\* A missing upstream slot turns reuse into a dense prefill; then every segment
\* is submitted to the pool.
Submit ==
    \E m \in {mode, "dense_prefill"} :
        /\ pc = "guard"
        /\ pc' = "pool"
        /\ mode' = m
        /\ pending' = Segments /\ results' = <<>>
        /\ UNCHANGED <<i, template, meta, purged, merged>>

-----------------------------------------------------------------------------
\* _rotate_segment_caches: the offset is added to the position of a token in the
\* cache it comes from. The first drop_num tokens of ph_cache are sliced off.
RotatedPh(k) == cache[k].drop + (start[k] - cache[k].drop + before[k])
RotatedPf(k) == finish[k] + after[k]

\* process_anchor, or update_kv_cache_segment when the mode is kv_reuse: there
\* the blend with the anchors' deltas may fail.
SegmentDone(k) ==
    \E ok \in (IF mode = "kv_reuse" THEN BOOLEAN ELSE {TRUE}) :
        /\ pc = "pool"
        /\ k \in pending
        /\ pending' = pending \ {k}
        /\ results' = Append(results, [idx |-> k, ph |-> RotatedPh(k), pf |-> RotatedPf(k),
                                       kv |-> cache[k].kv, drift |-> cache[k].drift,
                                       blended |-> ok])
        /\ UNCHANGED <<pc, i, template, meta, mode, purged, merged>>

\* _map_in_pool: a worker raises, or as_completed times out; agen_kvcomm raises.
SegmentFails ==
    /\ pc = "pool" /\ pending # {}
    /\ pc' = "failed"
    /\ UNCHANGED <<i, template, meta, mode, pool, merged>>

\* meta is in the order of the template, the results are in the order in which
\* they were completed: zip pairs the k-th of one with the k-th of the other.
BlendFailed == {k \in DOMAIN results : ~ results[k].blended}

\* Variant: the fifth field of a result is not looked at.
LengthMismatchIgnored == {}

LengthMismatch == {k \in DOMAIN results : results[k].drift # 0}

\* One failure is enough: the deltas of the placeholders named by zip are
\* dropped, and all the segments are rotated again, without anchors.
FallBack ==
    /\ pc = "pool" /\ pending = {}
    /\ mode = "kv_reuse" /\ BlendFailed \cup LengthMismatch # {}
    /\ mode' = "dense_prefill"
    /\ purged' = BlendFailed
    /\ pending' = Segments /\ results' = <<>>
    /\ UNCHANGED <<pc, i, template, meta, merged>>

AllDone ==
    /\ pc = "pool" /\ pending = {}
    /\ mode = "kv_reuse" => BlendFailed \cup LengthMismatch = {}
    /\ pc' = "merge"
    /\ UNCHANGED <<i, template, meta, mode, pool, merged>>

\* Variant: the results are concatenated as they came.
SortedNot(rs) == rs

\* sorted(results, key=idx): every segment is there once.
Sorted(rs) == [k \in Segments |-> rs[CHOOSE j \in DOMAIN rs : rs[j].idx = k]]

\* concat_ of the sorted segments, each a placeholder and the text after it.
Concat ==
    LET r == Sorted(results)[i]
    IN  /\ Turn("merge", "done")
        /\ put' = Append(put, [idx |-> r.idx, at |-> total, ph |-> r.ph, pf |-> r.pf, kv |-> r.kv])
        /\ total' = total + r.kv + text[r.idx]
        /\ ids' = ids + r.kv + r.drift + text[r.idx]
        /\ UNCHANGED <<template, meta, mode, pool>>

Over == pc \in {"done", "failed"} /\ UNCHANGED vars

Next ==
    \/ Locate \/ BuildMeta \/ RefreshMeta \/ Submit
    \/ \E k \in Segments : SegmentDone(k)
    \/ SegmentFails \/ FallBack \/ AllDone \/ Concat \/ Over

Spec == Init /\ [][Next]_vars

-----------------------------------------------------------------------------
(* The spans a dense prefill splits its KV at, to store what each segment      *)
(* differs by from the merged one.                                             *)

\* placeholder_indices, computed from meta and not from the merged KV.
PhSpan(k) == LET s == start[k] + before[k] IN <<s, s + cache[k].kv>>

\* split_cache_by_placeholders of the model's KV, cut to the length of the ids:
\* what is left around the placeholders, without the empty spans.
Gap(k) == << IF k = 1 THEN 0 ELSE PhSpan(k - 1)[2], IF k > N THEN ids ELSE PhSpan(k)[1] >>

Gaps ==
    LET upTo[k \in 0..(N + 1)] ==
          IF k = 0 THEN <<>>
          ELSE IF Gap(k)[1] < Gap(k)[2] THEN Append(upTo[k - 1], Gap(k))
          ELSE upTo[k - 1]
    IN  upTo[N + 1]

\* set_anchor pairs the last n of them with the n placeholders.
PfSpan(k) == Gaps[Len(Gaps) - N + k]

-----------------------------------------------------------------------------
(* What should hold *)

\* Whatever the order of completion, segment after segment is put where the
\* template has it, and its keys carry exactly the positions it has there.
PositionsExact ==
    \A k \in DOMAIN put :
        /\ put[k].idx = k
        /\ put[k].ph = put[k].at
        /\ put[k].pf = put[k].at + put[k].kv

\* The deltas that set_anchor stores for a placeholder come from the tokens of
\* that placeholder and of the text behind it, when no cache has drifted.
DeltasFromOwnSpan ==
    pc = "done" /\ (\A k \in Segments : cache[k].drift = 0) =>
        \A k \in Segments :
            /\ PhSpan(k) = <<put[k].at, put[k].at + put[k].kv>>
            /\ PfSpan(k) = <<put[k].at + put[k].kv, put[k].at + put[k].kv + text[k]>>

\* A generation reuses a prefix only if all its segments blended and have as many
\* ids as positions: the KV it continues is as long as the ids it continues.
ReuseIsWhole ==
    pc \in {"merge", "done"} /\ mode = "kv_reuse" =>
        /\ \A k \in Segments : \E j \in DOMAIN results : results[j].idx = k /\ results[j].blended
        /\ pc = "done" => total = ids

=============================================================================
