----------------------------- MODULE AnchorPool -----------------------------
(***************************************************************************)
(* The anchor pool of one placeholder id, as one request sees it: the      *)
(* flag, anchor, length, info and global info buckets of                   *)
(* KVCOMM/llm/kvcomm_engine.py, the prediction that decides whether a      *)
(* message becomes an anchor (predict_as_anchor and its callers in         *)
(* KVCOMM/llm/gpt_chat.py) and the materialisation by dense prefills       *)
(* (set_anchor, update_anchor).                                            *)
(*                                                                         *)
(* A placeholder is of one of two kinds. An "input" placeholder            *)
(* (user_question, condition_X_current) is predicted once per message, and *)
(* enters the info bucket at prediction. A "response" placeholder          *)
(* (agent_X_current) is predicted after each generation of agent X, and    *)
(* enters the info bucket with its first materialised anchor.              *)
(*                                                                         *)
(* Python dictionaries keep insertion order, and the code relies on it: a  *)
(* bucket whose order matters is a sequence of its keys here. Tensors are  *)
(* abstracted to their length, and what similarity decides is a choice.    *)
(***************************************************************************)
EXTENDS Integers, Sequences, FiniteSets, SequencesExt

CONSTANTS Kinds,        \* the kinds of placeholder: "input", "response"
          Msgs,         \* messages
          Nodes,        \* agents that materialise deltas for this placeholder
          Sizes,        \* the lengths a message's KV may have
          MaxAnchors,   \* max_anchor_num
          Window,       \* window_length
          MaxCount      \* bound of the model on activation counts

ASSUME PoolAssumption ==
    /\ Kinds \subseteq {"input", "response"}
    /\ Sizes \subseteq Nat \ {0}
    /\ MaxAnchors \in Nat
    /\ Window \in Nat \ {0}
    /\ MaxCount \in Nat

VARIABLES
    kind,    \* the kind of the placeholder
    size,    \* length of the message's KV in shared memory, 0 when there is none
    flag,    \* anchor_dict[ph]: was the message predicted to be an anchor?
    anchors, \* keys of anchors[ph]
    emb,     \* length of the stored ph_key_embedding, 0 without anchor
    deltas,  \* the nodes whose deltas the anchor holds
    len,     \* anchor_len_dict[ph], 0 when absent (as .get(key, [0, 0]) reads it)
    info,    \* keys of anchor_info_dict[ph]
    count,   \* values of anchor_info_dict[ph], 0 when absent
    global,  \* counts of global_anchor_info[ph], -1 when absent
    hits     \* history: how often the anchor was really selected since it was stored

vars == <<kind, size, flag, anchors, emb, deltas, len, info, count, global, hits>>

Range0(S) == S \cup {0}

TypeOK ==
    /\ kind \in Kinds
    /\ size \in [Msgs -> Range0(Sizes)]
    /\ flag \in [Msgs -> BOOLEAN]
    /\ anchors \in Seq(Msgs)
    /\ info \in Seq(Msgs)
    /\ emb \in [Msgs -> Range0(Sizes)]
    /\ len \in [Msgs -> Range0(Sizes)]
    /\ deltas \in [Msgs -> SUBSET Nodes]
    /\ count \in [Msgs -> Nat]
    /\ global \in [Msgs -> Nat \cup {-1}]
    /\ hits \in [Msgs -> Nat]

Init ==
    /\ kind \in Kinds
    /\ size = [m \in Msgs |-> 0]
    /\ flag = [m \in Msgs |-> FALSE]
    /\ anchors = <<>> /\ info = <<>>
    /\ emb = [m \in Msgs |-> 0]
    /\ len = [m \in Msgs |-> 0]
    /\ deltas = [m \in Msgs |-> {}]
    /\ count = [m \in Msgs |-> 0]
    /\ global = [m \in Msgs |-> -1]
    /\ hits = [m \in Msgs |-> 0]

\* d[key] = ... : a key keeps its place, a new one goes to the end.
WithKey(s, m) == IF m \in ToSet(s) THEN s ELSE Append(s, m)
WithoutKey(s, m) ==
    IF m \in ToSet(s) THEN RemoveAt(s, CHOOSE i \in DOMAIN s : s[i] = m) ELSE s

-----------------------------------------------------------------------------
(* predict_as_anchor *)

\* Positions, in anchor order, of the anchors that are long enough.
Available(k) == {i \in DOMAIN anchors : len[anchors[i]] >= k}

\* Fewer than two anchors, or fewer than two long enough: always a new anchor.
\* Otherwise the similarity entropy decides: both answers are possible.
MayBeShared(k) == Len(anchors) > 1 /\ Cardinality(Available(k)) > 1

\* Variant: the k-th selected anchor credits the k-th entry.
CreditedInOrder(S) == {info[i] : i \in DOMAIN info \cap 1..Cardinality(S)}

\* The list of activations comes from the info bucket, the selected positions
\* from the anchor bucket; a position past the end is skipped.
Credited(S) == {info[i] : i \in S \cap DOMAIN info}

\* Variants: the generated token is not sliced off; an input is computed again.
MeasuredUnsliced(m, k) ==
    /\ size[m] = 0 \/ kind = "response"
    /\ size' = [size EXCEPT ![m] = k + 1]

MeasuredAgain(m, k) == size' = [size EXCEPT ![m] = k]

\* Every caller first puts the message's new KV in shared memory.
Measured(m, k) ==
    /\ size[m] = 0 \/ kind = "response"
    /\ size' = [size EXCEPT ![m] = k]

\* The message becomes an anchor: dense prefills will materialise it. The input
\* callers enter it in the info and global info buckets at once.
PredictNew(m) ==
    \E k \in Sizes :
        /\ Measured(m, k)
        /\ flag' = [flag EXCEPT ![m] = TRUE]
        /\ IF kind = "input"
           THEN /\ info' = WithKey(info, m)
                /\ count' = [count EXCEPT ![m] = 0]
                /\ global' = [global EXCEPT ![m] = 0]
           ELSE UNCHANGED <<info, count, global>>
        /\ UNCHANGED <<anchors, emb, deltas, len, hits>>

\* The message shares existing anchors: the most similar ones (any non-empty set
\* of available positions) are activated, and the counts of the whole info
\* bucket are copied to the global one.
PredictShared(m) ==
    \E k \in Sizes :
        /\ Measured(m, k)
        /\ MayBeShared(k)
        /\ flag' = [flag EXCEPT ![m] = FALSE]
        /\ \E S \in SUBSET Available(k) \ {{}} :
              /\ \A x \in Credited(S) : count[x] < MaxCount
              /\ count' = [x \in Msgs |-> count[x] + (IF x \in Credited(S) THEN 1 ELSE 0)]
              /\ hits' = [x \in Msgs |->
                             hits[x] + (IF \E i \in S : anchors[i] = x THEN 1 ELSE 0)]
        /\ global' = [x \in Msgs |-> IF x \in ToSet(info) THEN count'[x] ELSE global[x]]
        /\ UNCHANGED <<anchors, emb, deltas, len, info>>

-----------------------------------------------------------------------------
(* update_anchor and set_anchor *)

Oldest(s) == SubSeq(s, 1, IF Len(s) < Window THEN Len(s) ELSE Window)

\* Variant: the most activated entry goes.
VictimMostUsed ==
    LET w == Oldest(info)
        most == {i \in DOMAIN w : \A j \in DOMAIN w : count[w[i]] >= count[w[j]]}
    IN  w[CHOOSE i \in most : \A j \in most : i <= j]

\* The first of the least activated among the oldest entries of the info bucket.
Victim ==
    LET w == Oldest(info)
        least == {i \in DOMAIN w : \A j \in DOMAIN w : count[w[i]] <= count[w[j]]}
    IN  w[CHOOSE i \in least : \A j \in least : i <= j]

\* Variant: one anchor too many before the pool is trimmed.
OverStoreLate == Len(anchors) > MaxAnchors + 1

OverStore == Len(anchors) > MaxAnchors

Evicts == OverStore /\ info # <<>>

\* Variant: update_anchor leaves the other buckets alone.
ClearedNever(f, z) == f

\* The buckets once update_anchor has run, if it runs.
Left(s) == IF Evicts THEN WithoutKey(s, Victim) ELSE s
Cleared(f, z) == IF Evicts THEN [f EXCEPT ![Victim] = z] ELSE f

\* Variant: set_anchor looks the message up before it trims the pool.
StoredBeforeTrim(m) == m \in ToSet(anchors)

Stored(m) == m \in ToSet(Left(anchors))

\* Variant: a stored entry is replaced and not updated.
UpdatedByReplacing(held, n) == {n}

\* dict.update with the entry of node n.
Updated(held, n) == held \cup {n}

\* A dense prefill of node n stores its deltas for a flagged message. The pool
\* is trimmed first, whether or not the message is in it already.
SetAnchor(n, m) ==
    LET stored == Stored(m)
    IN  /\ flag[m] = TRUE
        /\ size[m] # 0
        /\ anchors' = WithKey(Left(anchors), m)
        /\ emb' = [Cleared(emb, 0) EXCEPT ![m] = size[m]]
        /\ deltas' = [Cleared(deltas, {}) EXCEPT ![m] = IF stored THEN Updated(@, n) ELSE {n}]
        /\ IF stored
           THEN /\ info' = Left(info)
                /\ count' = Cleared(count, 0)
                /\ len' = Cleared(len, 0)
                /\ global' = Cleared(global, -1)
                /\ hits' = Cleared(hits, 0)
           ELSE /\ info' = WithKey(Left(info), m)
                /\ count' = [Cleared(count, 0) EXCEPT ![m] = 0]
                /\ len' = [Cleared(len, 0) EXCEPT ![m] = size[m]]
                /\ global' = [Cleared(global, -1) EXCEPT ![m] = IF @ = -1 THEN 0 ELSE @]
                /\ hits' = [Cleared(hits, 0) EXCEPT ![m] = 0]
        /\ UNCHANGED <<size, flag>>

\* purge_incompatible_anchor_deltas: node n drops its deltas of a message, the
\* entry stays.
PurgeDeltas(n, m) ==
    /\ n \in deltas[m]
    /\ deltas' = [deltas EXCEPT ![m] = @ \ {n}]
    /\ UNCHANGED <<size, flag, anchors, emb, len, info, count, global, hits>>

Next ==
    /\ UNCHANGED kind
    /\ \E m \in Msgs :
          \/ PredictNew(m)
          \/ PredictShared(m)
          \/ \E n \in Nodes : SetAnchor(n, m) \/ PurgeDeltas(n, m)

Spec == Init /\ [][Next]_vars

-----------------------------------------------------------------------------
(* What should hold *)

\* What is true of a response placeholder: its pool is never more than one above
\* the limit, as it is trimmed by one before every insertion and every entry of its
\* info bucket, where the victim is looked for, is an anchor.
ResponsePoolBounded == kind = "response" => Len(anchors) <= MaxAnchors + 1

\* The same of an input placeholder, which follows from "the maximum number of stored
\* anchors $\mathcal{V}$ for each placeholder id" (README.md:66) even with one anchor to
\* spare. It fails: a message that was predicted and never materialised is in the info
\* bucket, update_anchor may take it for its victim, and then no anchor makes room for
\* the new one.
InputPoolBounded == kind = "input" => Len(anchors) <= MaxAnchors + 1

\* The five buckets of a response placeholder describe the same anchors: same keys
\* in the same order where predict_as_anchor pairs positions, and no length or
\* global entry for a message without anchor.
BooksAgree == kind = "response" =>
    /\ info = anchors
    /\ \A m \in Msgs :
          /\ m \in ToSet(anchors) <=> len[m] # 0
          /\ m \in ToSet(anchors) <=> emb[m] # 0
          /\ m \in ToSet(anchors) <=> global[m] # -1

\* The global bucket of a response placeholder, what other requests get to see of the counts, repeats the
\* info bucket, and both count real selections.
CountsAreReal == kind = "response" =>
    \A m \in ToSet(anchors) : count[m] = hits[m] /\ global[m] = hits[m]

\* The length that predict_as_anchor compares is the one of the stored tensors,
\* which it then slices to that length. A property of input placeholders: the
\* response to a message may be generated again, which replaces the tensors and
\* keeps the length (set_anchor, line 1234).
LengthsCurrent == kind = "input" => \A m \in ToSet(anchors) : len[m] = emb[m]

\* update_anchor drops, among the oldest anchors of a response placeholder, one
\* that was selected least.
EvictsLeastUsed ==
    [][kind = "response" => \A m \in ToSet(anchors) \ ToSet(anchors') :
          LET oldest == {anchors[i] : i \in DOMAIN anchors \cap 1..Window}
          IN  m \in oldest /\ \A x \in oldest : hits[m] <= hits[x]]_vars

\* A node that materialises its deltas for a message leaves those of the other
\* nodes for the same message in place, unless the pool is trimmed of the message.
KeepsOtherDeltas ==
    [][\A m \in Msgs, n \in Nodes :
          n \in deltas[m] /\ n \notin deltas'[m] =>
              \/ deltas' = [deltas EXCEPT ![m] = @ \ {n}]
              \/ m \in ToSet(Oldest(info)) /\ OverStore]_vars

\* Whatever the kind of placeholder, an anchor can be evicted and sized: it is in
\* the info bucket, it has a length and a count other requests see.
NoOrphans ==
    \A m \in ToSet(anchors) : m \in ToSet(info) /\ len[m] # 0 /\ global[m] # -1

=============================================================================
