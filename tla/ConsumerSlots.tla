--------------------------- MODULE ConsumerSlots ---------------------------
(***************************************************************************)
(* The KV a consumer agent of the sidecar splices for the placeholders of  *)
(* its prompt. The contents of a turn, and the answer of the agent before, *)
(* are forwarded behind the frozen prefix that stands left of their        *)
(* placeholder (_materialize_*_slot_sync of KVCOMM/llm/gpt_chat.py) and    *)
(* kept in the slot registries of openclaw/sidecar/stores, under their     *)
(* content and, those of a turn, under their place. What stands left of    *)
(* the place is not in the key: it changes with the prefix, so this module *)
(* is composed with PrefixLifecycle, whose steps purge the registries.     *)
(*                                                                         *)
(* The agents are spawned in order: the agent before has answered when     *)
(* this one asks, and answers anew only between two requests.              *)
(***************************************************************************)
EXTENDS PrefixLifecycle

CONSTANTS Asked,        \* what may be asked: message, static, kv_reuse, turns
          Answers       \* of the agent before, per message

ASSUME AskedAssumption ==
    /\ Asked \subseteq Messages \X Statics \X BOOLEAN \X (0 .. MaxTurn)
    /\ DOMAIN Answers = Messages /\ \A m \in Messages : Answers[m] # {}

(* What is asked without turns, and names no agent before, leaves no slots.  *)
Bare(asked) == asked[4] = 0 /\ ~HasUpstream(asked[2])

(* A message is asked with one static text, those that leave no slots apart. *)
OneStatic ==
    \A a, b \in Asked : a[1] = b[1] /\ ~Bare(a) /\ ~Bare(b) => a[2] = b[2]

VARIABLES consumer,     \* tool_consumer_slots and llm_branch_slots: the slots of
                        \*   each turn placeholder, per message
          made,         \* _tool_consumer_materialized, _branch_consumer_materialized
          previous,     \* _prev_placeholder_info: those before the last commit
          answer,       \* the last response of the agent before, per message
          upSlots       \* upstream_agent_slots, the consumer's

slotVars == <<consumer, made, previous, answer, upSlots>>
allVars == <<vars, slotVars>>

(***************************************************************************)
(* Slots of the turns.                                                     *)
(***************************************************************************)
LeftOf(b, start) == SubSeq(b.base, 1, start)

(* A slot holds KV computed behind the tokens left of the placeholder.     *)
SlotAt(ph, turn) ==
    LET start == bucket.phs[ph].start
    IN  [hash |-> turn.hash, start |-> start, left |-> LeftOf(bucket, start)]

(* consumer_key: what the slot is found by. *)
SameKey(s, t) == s.hash = t.hash /\ s.start = t.start

(* The registries are dictionaries. *)
Put(kept, slot) == {s \in kept : ~SameKey(s, slot)} \cup {slot}

(* The slot of the content at its place; else the last one the placeholder  *)
(* was given, whatever its content and place: here, any.                   *)
Resolved(kept, ph, turn) ==
    LET exact == {s \in kept : SameKey(s, SlotAt(ph, turn))}
    IN  IF exact # {} THEN exact ELSE kept

(* Variant: only the first content of a placeholder gets its slot here. *)
MaterializedOnce(message, filled) ==
    [consumer EXCEPT ![message] =
        [ph \in TurnPhs |->
            IF slots[message][ph] = None /\ filled[ph] # None /\ ph \in DOMAIN bucket.phs
            THEN Put(@[ph], SlotAt(ph, filled[ph]))
            ELSE @[ph]]]

(* materialize_turn_placeholders makes a slot with each new content of a   *)
(* listed placeholder.                                                     *)
Materialized(message, filled) ==
    [consumer EXCEPT ![message] =
        [ph \in TurnPhs |->
            IF filled[ph] # slots[message][ph] /\ ph \in DOMAIN bucket.phs
            THEN Put(@[ph], SlotAt(ph, filled[ph]))
            ELSE @[ph]]]

PurgedFrom(message, n) ==
    [consumer EXCEPT ![message] = [ph \in TurnPhs |-> IF ph[1] >= n THEN {} ELSE @[ph]]]

(* Placeholders the last commit did not add are not looked at again.       *)
Looked(message) ==
    LET tail == DOMAIN bucket.phs \ previous
    IN  {ph \in TurnsListed : /\ slots[message][ph] # None
                              /\ tail = {} \/ ph \in tail \/ ph \notin made[message]}

(* Before a generation, the slots that are missing are made.               *)
Ensured(message) ==
    [ph \in TurnPhs |->
        LET kept == consumer[message][ph]
            slot == SlotAt(ph, slots[message][ph])
        IN  IF ph \in Looked(message) /\ \A s \in kept : ~SameKey(s, slot)
            THEN kept \cup {slot} ELSE kept]

(***************************************************************************)
(* The slot of the answer of the agent before, found by the answer alone.  *)
(***************************************************************************)
UpstreamSlot(b, message) ==
    LET start == b.phs[Upstream].start
    IN  [content |-> answer[message], start |-> start, left |-> LeftOf(b, start)]

UpstreamEnsured(b, message) ==
    IF Upstream \in DOMAIN b.phs /\ \A s \in upSlots[message] : s.content # answer[message]
    THEN [upSlots EXCEPT ![message] = @ \cup {UpstreamSlot(b, message)}]
    ELSE upSlots

(* A rebuild drops them: those of the message, or of the node (_reset_prefix_node). *)
UpstreamPurged(req) ==
    [m \in Messages |->
        IF m = req.message \/ (Plan(req) = "full_rebuild" /\ Initialized) THEN {} ELSE upSlots[m]]

(* A slot at another place than the placeholder has now does not count.    *)
UpstreamResolved(message, all) ==
    {s \in all[message] : s.content = answer[message] /\ s.start = bucket.phs[Upstream].start}

(* A kv_reuse request forgets which slots it has made, those of assistant   *)
(* turns apart.                                                            *)
ToolsUnmade == [m \in Messages |-> {ph \in made[m] : ph[2] # "tool"}]

SlotsInit ==
    /\ Init
    /\ consumer = [m \in Messages |-> [ph \in TurnPhs |-> {}]]
    /\ made = [m \in Messages |-> {}]
    /\ previous = {}
    /\ answer \in [Messages -> UNION Range(Answers)]
    /\ \A m \in Messages : answer[m] \in Answers[m]
    /\ upSlots = [m \in Messages |-> {}]

(***************************************************************************)
(* The steps of the prefix, and what they do to the registries.            *)
(***************************************************************************)
NoopWithSlots(req) ==
    /\ AskNoop(req)
    /\ IF req.reuse /\ req.turns = 0
       THEN made' = ToolsUnmade /\ upSlots' = UpstreamEnsured(bucket, req.message)
       ELSE UNCHANGED <<made, upSlots>>
    /\ UNCHANGED <<consumer, previous, answer>>

AppendWithSlots(req) == AskAppend(req) /\ UNCHANGED slotVars

RewindWithSlots(req) ==
    /\ AskRewind(req)
    /\ consumer' = PurgedFrom(req.message, 0)
    /\ IF job'.phase = "forward"
       THEN /\ upSlots' = [upSlots EXCEPT ![req.message] = {}]
            /\ UNCHANGED <<made, previous>>
       ELSE /\ upSlots' = IF req.reuse /\ req.turns = 0
                          THEN UpstreamEnsured(bucket', req.message) ELSE upSlots
            /\ made' = IF req.reuse THEN ToolsUnmade ELSE made
            /\ previous' = DOMAIN bucket.phs
    /\ UNCHANGED answer

(* _reset_prefix_node forgets the turns, not the slots made for them.      *)
RebuildWithSlots(req) ==
    /\ AskRebuild(req)
    /\ consumer' = IF Plan(req) = "static_rebuild" THEN PurgedFrom(req.message, 0) ELSE consumer
    /\ upSlots' = UpstreamPurged(req)
    /\ UNCHANGED <<made, previous, answer>>

ForwardedWithSlots ==
    /\ Forwarded
    /\ consumer' = IF job.how \in {"append", "append_all"}
                   THEN PurgedFrom(job.req.message, bucket.count) ELSE consumer
    /\ previous' = DOMAIN bucket.phs
    /\ UNCHANGED <<made, answer, upSlots>>

FillWithSlots ==
    /\ Fill
    /\ consumer' = IF job'.phase = "forward"
                   THEN PurgedFrom(job.req.message, 0)
                   ELSE Materialized(job.req.message, slots'[job.req.message])
    /\ UNCHANGED <<made, previous, answer, upSlots>>

FailFillWithSlots ==
    /\ FailFill
    /\ consumer' = Materialized(job.req.message, slots'[job.req.message])
    /\ UNCHANGED <<made, previous, answer, upSlots>>

Generate ==
    /\ Answer
    /\ LET message == job.req.message
       IN  /\ consumer' = [consumer EXCEPT ![message] = Ensured(message)]
           /\ made' = [made EXCEPT ![message] = @ \cup Looked(message)]
           /\ upSlots' = UpstreamEnsured(bucket, message)
    /\ UNCHANGED <<previous, answer>>

ResetWithSlots ==
    /\ Reset
    /\ upSlots' = [m \in Messages |-> {}]
    /\ previous' = {}
    /\ UNCHANGED <<consumer, made, answer>>

(* Another run: the agent before answers the message anew. *)
AnsweredAnew ==
    /\ job = Idle
    /\ \E m \in Messages : \E new \in Answers[m] \ {answer[m]} :
          answer' = [answer EXCEPT ![m] = new]
    /\ UNCHANGED <<vars, consumer, made, previous, upSlots>>

SlotsNext ==
    \/ \E req \in Requests :
          /\ <<req.message, req.static, req.reuse, req.turns>> \in Asked
          /\ \/ NoopWithSlots(req) \/ AppendWithSlots(req)
             \/ RewindWithSlots(req) \/ RebuildWithSlots(req)
    \/ ForwardedWithSlots \/ FillWithSlots \/ Generate
    \/ FailForward /\ UNCHANGED slotVars
    \/ FailFillWithSlots
    \/ Trim /\ UNCHANGED slotVars
    \/ ResetWithSlots \/ AnsweredAnew

SlotsSpec == SlotsInit /\ [][SlotsNext]_allVars

(***************************************************************************)
(* Properties.                                                             *)
(***************************************************************************)
LeftIsExact(slot) == slot.left = SubSeq(bucket.ids, 1, slot.start)

(* The KV a generation splices for a turn is that of the content the        *)
(* request has for it, at the place and behind the very tokens the prompt   *)
(* has now, through any sequence of appends, rewinds, rebuilds, resets and  *)
(* failures, of this message and of others: no lookup falls back to the     *)
(* slot of an older content (resolve_tool_consumer_slot,                    *)
(* resolve_llm_branch_slot), where a message has one static text (OneStatic). *)
TurnSlotsCurrent ==
    job.phase = "ready" =>
        \A ph \in TurnsListed :
            LET found == Resolved(Ensured(job.req.message)[ph], ph, slots[job.req.message][ph])
            IN  /\ found # {}
                /\ \A slot \in found :
                      /\ slot.hash = job.req.content[ph[1]]
                      /\ slot.start = bucket.phs[ph].start
                      /\ LeftIsExact(slot)

(* A generation whose prompt names the agent before has the slot of its     *)
(* last answer, at the place and behind the tokens of the prompt: a slot    *)
(* left from an older prefix is neither used nor, as it is found by the     *)
(* answer alone, in the way of the one that is needed, which would make     *)
(* every later kv_reuse request a dense one (_missing_consumer_upstream_slots). *)
UpstreamCurrent ==
    job.phase = "ready" /\ Upstream \in DOMAIN bucket.phs =>
        \E slot \in UpstreamResolved(job.req.message, UpstreamEnsured(bucket, job.req.message)) :
            LeftIsExact(slot)

(* What a generation splices into its prefix is current, all of it. *)
SlotsCurrent == TurnSlotsCurrent /\ UpstreamCurrent

=============================================================================
