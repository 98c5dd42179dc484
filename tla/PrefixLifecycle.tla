-------------------------- MODULE PrefixLifecycle --------------------------
(***************************************************************************)
(* The prefix of one agent in the sidecar: the bucket of                   *)
(* _shared_kv_cache_memory[node], built by prepare_prefix_kv_segments,     *)
(* extended by append_prefix_segment_incremental, cut by                   *)
(* rewind_prefix_to_turn_count (KVCOMM/llm/gpt_chat.py), as _ensure_prefix *)
(* of openclaw/sidecar/kvcomm_adapter.py decides per request from the      *)
(* static text, the number of tool turns and what the bucket holds; and    *)
(* the turn slots that hold the contents of the turn placeholders.         *)
(*                                                                         *)
(* A token is a pair <<turn, name>>. A causal model computes the KV of a   *)
(* token from the tokens up to and with it: a KV cache is represented by   *)
(* the sequence of tokens it was computed from, and the KV of a span by    *)
(* that sequence up to the end of the span. A request is one at a time     *)
(* (the bench spawns its agents one after the other), and it may fail at   *)
(* each of its awaits.                                                     *)
(***************************************************************************)
EXTENDS Integers, Sequences, FiniteSets, SequencesExt

CONSTANTS Statics,      \* static templates
          StaticNames,  \* names of the tokens of each static template
          MaxTurn,      \* bound on the tool turns of a request
          Contents,     \* contents of a turn
          Messages,     \* message keys
          MinReuse      \* the 32 tokens of min_reuse_len

ASSUME PrefixAssumption ==
    /\ StaticNames \in [Statics -> Seq(STRING)]
    /\ "" \notin Statics
    /\ "none" \notin Contents
    /\ MaxTurn \in Nat /\ MinReuse \in Nat

VARIABLES bucket,       \* the node's bucket
          initialized,  \* LLMChat._initialization[node]
          slots,        \* turn_slots: the slot of each placeholder, per message:
                        \*   its content_hash, and the text of its token_ids
          job           \* the request in progress

vars == <<bucket, initialized, slots, job>>

None == [hash |-> "none", ids |-> "none"]
TurnPhs == (1 .. MaxTurn) \X {"assistant", "tool"}

(* The placeholder for the response of the agent before: a slot of the     *)
(* static text.                                                            *)
Upstream == <<0, "agent_0_current">>
IsPh(token) == token[1] > 0 \/ token = Upstream

(***************************************************************************)
(* Templates, prompts and their layout.                                    *)
(***************************************************************************)
NoStatic == ""
Canonical(static, n) == [static |-> static, turns |-> [i \in 1 .. n |-> i]]
NoTemplate == Canonical(NoStatic, 0)

(* The committed template with one more turn segment. *)
Merge(template, i) ==
    IF template.turns # <<>> /\ Last(template.turns) = i
    THEN template
    ELSE [template EXCEPT !.turns = Append(@, i)]

TurnTokens(i) == << <<0, "sep">>, <<i, "assistant">>, <<0, "sep">>, <<i, "tool">> >>

(* The k-th token of all turn segments. *)
TurnToken(turns, k) == TurnTokens(turns[((k - 1) \div 4) + 1])[((k - 1) % 4) + 1]

(* The rendered prompt ends with the generation prompt of the chat template. *)
Tokens(template) ==
    LET head == StaticNames[template.static]
    IN  [i \in DOMAIN head |-> <<0, head[i]>>]
          \o [k \in 1 .. 4 * Len(template.turns) |-> TurnToken(template.turns, k)]
          \o << <<0, "end">>, <<0, "open">> >>

(* The text spans of a prompt, in order: each starts at the beginning or      *)
(* behind a placeholder, and goes on to the next one or to the end.          *)
IsStart(ids, a) == ~IsPh(ids[a + 1]) /\ (a > 0 => IsPh(ids[a]))
Starts(ids) ==
    LET upTo[i \in 0 .. Len(ids)] ==
          IF i = 0 THEN <<>>
          ELSE IF IsStart(ids, i - 1) THEN Append(upTo[i - 1], i - 1) ELSE upTo[i - 1]
    IN  upTo[Len(ids)]
TextEnd(ids, a) == Min({b \in a + 1 .. Len(ids) : b < Len(ids) => IsPh(ids[b + 1])})

SpanFrom(ids, a) ==
    LET end == TextEnd(ids, a) IN [text |-> SubSeq(ids, a + 1, end), start |-> a, end |-> end]
Spans(ids) ==
    LET starts == Starts(ids) IN [k \in DOMAIN starts |-> SpanFrom(ids, starts[k])]

(* The placeholders of a prompt: their place, and the text span that follows. *)
Placeholders(ids) ==
    LET spans == Spans(ids)
        at(ph) == Max({i \in DOMAIN ids : ids[i] = ph})
    IN  [ph \in {ids[i] : i \in {j \in DOMAIN ids : IsPh(ids[j])}} |->
            [start |-> at(ph) - 1, end |-> at(ph),
             pf |-> CHOOSE k \in DOMAIN spans :
                        /\ spans[k].start >= at(ph)
                        /\ \A l \in 1 .. k - 1 : spans[l].start < at(ph)]]

SharedLen(s, t) ==
    Max({n \in 0 .. Len(s) : n <= Len(t) /\ SubSeq(s, 1, n) = SubSeq(t, 1, n)})

(* The leading text spans with the same text in the same place. *)
FrozenCount(old, new) == SharedLen(old, new)

(* Variants, each with one plausible mistake. *)
SegmentsUnchecked(old, spans, base, frozen) ==
    [j \in DOMAIN spans |->
        IF j <= Len(old.prefix) THEN old.prefix[j] ELSE SubSeq(base, 1, spans[j].end)]
SegmentsPiledUp(old, spans, base, frozen) ==
    old.prefix \o [j \in 1 .. Len(spans) - frozen |-> SubSeq(base, 1, spans[frozen + j].end)]

(* _materialize_prefix_segments: the old segments where nothing changed. *)
Segments(old, spans, base, frozen) ==
    [j \in DOMAIN spans |->
        IF old.prefix # <<>> /\ j <= frozen /\ j <= Len(old.spans) /\ old.spans[j] = spans[j]
        THEN old.prefix[j]
        ELSE SubSeq(base, 1, spans[j].end)]

(* An append keeps the records of the placeholders it had. *)
KeptBefore(old, new) ==
    [ph \in DOMAIN old \cup DOMAIN new |-> IF ph \in DOMAIN old THEN old[ph] ELSE new[ph]]

NoPhs == [ph \in {} |-> 0]
Blank == [prefix |-> <<>>, phs |-> NoPhs, spans |-> <<>>, ids |-> <<>>, base |-> <<>>,
          template |-> NoTemplate, count |-> 0, hash |-> NoStatic, topology |-> <<NoStatic, 0>>]

(* _commit_prefix_bucket, then the turn count and topology of the caller. *)
Committed(template, base, segments, phs, count) ==
    [prefix |-> segments, phs |-> phs, spans |-> Spans(Tokens(template)),
     ids |-> Tokens(template), base |-> base, template |-> template, count |-> count,
     hash |-> template.static, topology |-> <<template.static, count>>]

Initialized == initialized /\ bucket.prefix # <<>>
TurnsListed == {ph \in DOMAIN bucket.phs : ph[1] > 0}

(***************************************************************************)
(* What a request asks of the prefix.                                      *)
(***************************************************************************)
Requests ==
    UNION {[static : Statics, turns : {n}, content : [1 .. n -> Contents],
            message : Messages, reuse : BOOLEAN] : n \in 0 .. MaxTurn}

HasUpstream(static) == \E i \in DOMAIN StaticNames[static] : <<0, StaticNames[static][i]>> = Upstream

(* A prefix in which the upstream text was inlined cannot serve kv_reuse. *)
LacksUpstream(req) ==
    /\ req.reuse /\ Initialized
    /\ HasUpstream(req.static)
    /\ ~(bucket.template.static \in Statics /\ HasUpstream(bucket.template.static))

(* A variant that does not compare the static text. *)
PlanByTurns(req) ==
    CASE LacksUpstream(req) \/ ~Initialized -> "full_rebuild"
      [] OTHER ->
         CASE req.turns < bucket.count -> "rewind_turns"
           [] req.turns = bucket.count -> "noop"
           [] req.turns = bucket.count + 1 -> "append_turn"
           [] OTHER -> "static_rebuild"

Plan(req) ==
    CASE LacksUpstream(req) \/ ~Initialized -> "full_rebuild"
      [] OTHER ->
         CASE bucket.hash \notin {NoStatic, req.static} -> "static_rebuild"
           [] OTHER ->
              CASE req.turns < bucket.count -> "rewind_turns"
                [] req.turns = bucket.count ->
                     IF bucket.topology \notin {<<NoStatic, 0>>, <<req.static, req.turns>>}
                     THEN "static_rebuild"
                     ELSE IF req.turns = 0 /\ TurnsListed # {} THEN "rewind_turns" ELSE "noop"
                [] req.turns = bucket.count + 1 -> "append_turn"
                [] OTHER -> "static_rebuild"

Idle == [phase |-> "idle"]
Filling(req, again) == [phase |-> "fill", req |-> req, again |-> again]

(* A forward pass in a worker thread, and what is to be committed after it. *)
Forward(req, how, template, base, frozen, again) ==
    [phase |-> "forward", req |-> req, how |-> how, template |-> template,
     base |-> base, frozen |-> frozen, again |-> again]
Prepare(req, how, template, again) ==
    Forward(req, how, template, Tokens(template), 0, again)

NoSlots == [m \in Messages |-> [ph \in TurnPhs |-> None]]
WithoutTurnsFrom(message, n) ==
    [slots EXCEPT ![message] = [ph \in TurnPhs |-> IF ph[1] >= n THEN None ELSE @[ph]]]

Init ==
    /\ bucket = Blank
    /\ initialized = FALSE
    /\ slots = NoSlots
    /\ job = Idle

AskNoop(req) ==
    /\ job = Idle /\ Plan(req) = "noop"
    /\ job' = Filling(req, FALSE)
    /\ UNCHANGED <<bucket, initialized, slots>>

(* The new segment is forwarded on top of the part of the prefix that the   *)
(* two prompts share, or everything is prepared again.                      *)
AskAppend(req) ==
    /\ job = Idle /\ Plan(req) = "append_turn"
    /\ LET template == Merge(bucket.template, req.turns)
           ids == Tokens(template)
           shared == SharedLen(bucket.ids, ids)
           incremental == /\ bucket.prefix # <<>> /\ bucket.spans # <<>>
                          /\ bucket.base # <<>> /\ bucket.ids # <<>>
                          /\ Len(ids) > shared
                          /\ shared >= MinReuse /\ shared >= Len(bucket.ids) \div 2
       IN  job' = IF incremental
                  THEN Forward(req, "append", template,
                               SubSeq(bucket.base, 1, shared) \o SubSeq(ids, shared + 1, Len(ids)),
                               FrozenCount(bucket.spans, Spans(ids)), FALSE)
                  ELSE Prepare(req, "append_all", template, FALSE)
    /\ UNCHANGED <<bucket, initialized, slots>>

(* The bucket before a rebuild: what the plan drops at once. *)
DropPrefix == [bucket EXCEPT !.prefix = <<>>, !.phs = NoPhs]

(* Cutting the KV needs no forward pass: commit at once, or rebuild. After a  *)
(* cut, a kv_reuse request makes its upstream slots again, which reads all   *)
(* placeholders: those of a turn have just lost their slots, and it fails.   *)
AskRewind(req) ==
    /\ job = Idle /\ Plan(req) = "rewind_turns"
    /\ slots' = WithoutTurnsFrom(req.message, 0)
    /\ LET template == Canonical(req.static, req.turns)
           ids == Tokens(template)
           frozen == FrozenCount(bucket.spans, Spans(ids))
           base == SubSeq(bucket.base, 1, Len(ids))
       IN  IF bucket.base # <<>> /\ Len(ids) < Len(bucket.ids) /\ frozen > 0
           THEN /\ bucket' = Committed(template, base,
                                       Segments(bucket, Spans(ids), base, frozen),
                                       Placeholders(ids), req.turns)
                /\ initialized' = TRUE
                /\ job' = IF req.reuse /\ req.turns > 0 THEN Idle ELSE Filling(req, FALSE)
           ELSE /\ bucket' = DropPrefix
                /\ initialized' = FALSE
                /\ job' = Prepare(req, "prepare", template, FALSE)

AskRebuild(req) ==
    /\ job = Idle /\ Plan(req) \in {"static_rebuild", "full_rebuild"}
    /\ IF Plan(req) = "static_rebuild"
       THEN /\ bucket' = DropPrefix
            /\ initialized' = FALSE
            /\ slots' = WithoutTurnsFrom(req.message, 0)
       ELSE /\ bucket' = IF Initialized THEN Blank ELSE bucket
            /\ initialized' = (initialized /\ ~Initialized)
            /\ slots' = IF Initialized THEN NoSlots ELSE slots
    /\ job' = Prepare(req, "prepare", Canonical(req.static, req.turns), FALSE)

(* The forward pass is back: commit, and, after an append, drop the slots   *)
(* from the last old turn on. An append keeps the records of placeholders.  *)
Forwarded ==
    /\ job.phase = "forward"
    /\ LET ids == Tokens(job.template)
           old == IF job.how = "append" THEN bucket ELSE Blank
       IN  bucket' = Committed(job.template, job.base,
                               Segments(old, Spans(ids), job.base, job.frozen),
                               KeptBefore(old.phs, Placeholders(ids)), job.req.turns)
    /\ initialized' = TRUE
    /\ slots' = IF job.how \in {"append", "append_all"}
                THEN WithoutTurnsFrom(job.req.message, bucket.count)
                ELSE slots
    /\ job' = IF job.how = "trim" THEN Idle ELSE Filling(job.req, job.again)

(***************************************************************************)
(* The contents of the turn placeholders (materialize_turn_placeholders).  *)
(***************************************************************************)
(* A variant that never replaces a slot. *)
NewSlotOnce(slot, ph, content) ==
    IF slot # None THEN slot ELSE [hash |-> content, ids |-> content]

(* A slot with the content stays; a new assistant slot keeps the tokens of  *)
(* the slot before it, whatever their text; a tool result has its own.      *)
NewSlot(slot, ph, content) ==
    IF slot.hash = content THEN slot
    ELSE IF ph[2] = "assistant" /\ slot # None THEN [slot EXCEPT !.hash = content]
    ELSE [hash |-> content, ids |-> content]

Filled(req, phs) ==
    [slots EXCEPT ![req.message] =
        [ph \in TurnPhs |-> IF ph \in phs /\ ph[1] <= req.turns
                            THEN NewSlot(@[ph], ph, req.content[ph[1]]) ELSE @[ph]]]

(* A listed turn without slot, unless the request has no content for it.    *)
OutOfSync(req, filled) ==
    IF req.turns = 0
    THEN TurnsListed # {}
    ELSE \E ph \in TurnsListed : filled[req.message][ph] = None /\ ph[1] <= req.turns

Fill ==
    /\ job.phase = "fill"
    /\ LET filled == Filled(job.req, TurnPhs)
       IN  IF OutOfSync(job.req, filled) /\ ~job.again
           THEN /\ bucket' = DropPrefix
                /\ initialized' = FALSE
                /\ slots' = WithoutTurnsFrom(job.req.message, 0)
                /\ job' = Prepare(job.req, "prepare",
                                  Canonical(job.req.static, job.req.turns), TRUE)
           ELSE /\ slots' = filled
                /\ job' = [phase |-> "ready", req |-> job.req]
                /\ UNCHANGED <<bucket, initialized>>

(* The request generates on the prefix, and is answered. *)
Answer ==
    /\ job.phase = "ready"
    /\ job' = Idle
    /\ UNCHANGED <<bucket, initialized, slots>>

(***************************************************************************)
(* Failures, and what others do to the prefix between two requests.        *)
(***************************************************************************)
(* The rebuild of a trim, which forwards the shortest prompt of all, is     *)
(* taken to succeed: the topology it cleared before would let the next      *)
(* request append to, or reuse, a prefix that does not match.               *)
FailForward ==
    /\ job.phase = "forward" /\ job.how # "trim"
    /\ job' = Idle
    /\ UNCHANGED <<bucket, initialized, slots>>

(* Some placeholders are filled when the KV of another cannot be computed. *)
FailFill ==
    /\ job.phase = "fill"
    /\ \E n \in 1 .. job.req.turns, half \in BOOLEAN :
          slots' = Filled(job.req, {ph \in TurnPhs : \/ ph[1] < n
                                                     \/ half /\ ph = <<n, "assistant">>})
    /\ job' = Idle
    /\ UNCHANGED <<bucket, initialized>>

(* A dense request of a later agent returns this one to its static text.   *)
Trim ==
    /\ job = Idle
    /\ slots' = NoSlots
    /\ LET template == [bucket.template EXCEPT !.turns = <<>>]
           cleared == [bucket EXCEPT !.template = template, !.count = 0,
                                     !.hash = NoStatic, !.topology = <<NoStatic, 0>>]
       IN  IF template.static \in Statics
           THEN /\ bucket' = cleared
                /\ job' = Prepare([turns |-> 0], "trim", template, FALSE)
                /\ UNCHANGED initialized
           ELSE /\ bucket' = [cleared EXCEPT !.prefix = <<>>, !.phs = NoPhs]
                /\ initialized' = FALSE
                /\ UNCHANGED job

(* _reset_prefix_node: a full reset of the bench, or another task profile. *)
Reset ==
    /\ job = Idle
    /\ bucket' = Blank
    /\ initialized' = FALSE
    /\ slots' = NoSlots
    /\ UNCHANGED job

Next ==
    \/ \E req \in Requests :
          AskNoop(req) \/ AskAppend(req) \/ AskRewind(req) \/ AskRebuild(req)
    \/ Forwarded \/ Fill \/ Answer
    \/ FailForward \/ FailFill
    \/ Trim \/ Reset

Spec == Init /\ [][Next]_vars

(***************************************************************************)
(* Properties.                                                             *)
(***************************************************************************)
Slot == [hash : Contents, ids : Contents] \cup {None}

(* The bucket's parts fit together: one KV segment per text span, one kind  *)
(* of record per placeholder, and a job in one of the four phases.          *)
TypeOK ==
    /\ initialized \in BOOLEAN
    /\ slots \in [Messages -> [TurnPhs -> Slot]]
    /\ job.phase \in {"idle", "forward", "fill", "ready"}
    /\ bucket.prefix = <<>> \/ Len(bucket.prefix) = Len(bucket.spans)
    /\ bucket.count \in 0 .. MaxTurn
    /\ DOMAIN bucket.phs \subseteq TurnPhs \cup {Upstream}

KvIsExact(j) == bucket.prefix[j] = SubSeq(bucket.ids, 1, bucket.spans[j].end)

(* However a prefix was built, extended, cut and reused, the KV of every    *)
(* span but the last is that of the prompt's tokens up to there: a segment  *)
(* kept from an older prefix was computed in the same left context          *)
(* (_materialize_prefix_segments, frozen_span_count).                       *)
LeftSpansExact == \A j \in 1 .. Len(bucket.prefix) - 1 : KvIsExact(j)

(* The last span, which ends with the generation prompt, is exact as well:  *)
(* "Rewind preserves static prefix KV" (kvcomm_adapter.py:2281), and a cut  *)
(* prefix is good for generation as one that was prepared.                  *)
WholePrefixExact == \A j \in 1 .. Len(bucket.prefix) : KvIsExact(j)

(* When a request starts to generate, the prefix is the one a rebuild from  *)
(* scratch would have laid out for it: its template, its turn count, its    *)
(* tokens, and each placeholder where the prompt has it.                    *)
AnswersRequest ==
    job.phase = "ready" =>
        /\ bucket.template = Canonical(job.req.static, job.req.turns)
        /\ bucket.count = job.req.turns
        /\ bucket.ids = Tokens(bucket.template)
        /\ bucket.spans = Spans(bucket.ids)
        /\ bucket.phs = Placeholders(bucket.ids)

CurrentTurns == {ph \in TurnsListed : ph[1] <= job.req.turns}

(* When a request starts to generate, the slot of every turn placeholder is *)
(* for the content this request gave for that turn, not what an earlier     *)
(* request of the same message left there; and the tokens of a tool result  *)
(* are those of its content. Those of an assistant turn need not be: a slot *)
(* whose content changes keeps its tokens (gpt_chat.py:4046).               *)
TurnsFresh ==
    job.phase = "ready" =>
        \A ph \in CurrentTurns :
            LET slot == slots[job.req.message][ph]
            IN  /\ slot.hash = job.req.content[ph[1]]
                /\ ph[2] = "tool" => slot.ids = slot.hash

=============================================================================
