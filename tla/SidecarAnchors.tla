--------------------------- MODULE SidecarAnchors ---------------------------
(***************************************************************************)
(* The anchor deltas of the sidecar's consumer agents. The delta of a      *)
(* node says how the KV of a placeholder differs from that of the template *)
(* at one place of the node's prefix, for one content. It is kept three    *)
(* times: in the anchors of the run (state.anchors[ph][message], an entry  *)
(* for all nodes), in snapshots of these per node and message              *)
(* (_anchor_pool of kvcomm_adapter.py), and in a pool under exact          *)
(* coordinates (stores/agent_anchor_pool.py). Requests copy deltas from    *)
(* each of them to the others, and rebuilds of the prefix purge some.      *)
(*                                                                         *)
(* Where the placeholders stand is a function of the static text and the   *)
(* number of turns (PrefixLifecycle.AnswersRequest): coordinates are these *)
(* two and the content. The placeholders are the answer of agent 0, which  *)
(* some static texts list and others have inlined, and one tool turn. The  *)
(* second lock of a turn's delta, the content marked as eligible for a     *)
(* retry, is left open. Requests come one after the other.                 *)
(***************************************************************************)
EXTENDS Integers, FiniteSets

CONSTANTS Consumers,    \* number of the agents behind agent 0
          Messages,     \* message keys
          Statics,      \* static texts
          UpStatics,    \* those that list agent 0's answer
          Contents,     \* texts of an answer and of a turn
          MaxTurn,      \* bound on the tool turns of a request
          MaxRuns,      \* bound on the runs
          MaxAsks       \* bound on the requests

ASSUME SidecarAssumption ==
    /\ Messages # {}
    /\ Consumers \in Nat /\ MaxTurn \in Nat /\ MaxRuns \in Nat /\ MaxAsks \in Nat
    /\ UpStatics \subseteq Statics
    /\ "" \notin Statics \cup Contents

VARIABLES prefix,       \* per node: static text, turns, and whether it has KV
          answer,       \* the last answer of agent 0, per message
          run,          \* the run: its message and mode, the agent registered last,
                        \*   and anchor_dict: whether agent 0's answer is an anchor
          entry,        \* state.anchors["agent_0_current"][message] of the run
          shared,       \* the nodes whose snapshot holds that very dictionary
          snapshots,    \* _anchor_pool
          pool,         \* agent_anchors
          job,          \* the request in progress
          late,         \* history: since the pool was empty, a consumer was registered
                        \*   before agent 0 had answered in the run, when its message
                        \*   had an answer of an earlier run
          runs, asks    \* how many there were

vars == <<prefix, answer, run, entry, shared, snapshots, pool, job, late, runs, asks>>

Nodes == 1 .. Consumers
Up == "agent_0_current"
Turn == "turn_1_tool"

(* Coordinates; and a delta: where it was computed, and whether that of the *)
(* text behind the placeholder (pf) is with it.                            *)
Where == [static : Statics, turns : 0 .. MaxTurn, content : Contents \cup {""}]
Nowhere == [static |-> "", turns |-> 0, content |-> ""]
NoDelta == [born |-> Nowhere, pf |-> FALSE]
Delta == [born : Where, pf : BOOLEAN] \cup {NoDelta}

(* An anchor entry: the deltas of the nodes, and whether the embeddings a   *)
(* blend weighs them by are there.                                         *)
NoEntry == [deltas |-> [n \in Nodes |-> NoDelta], embedded |-> FALSE]
Only(n, delta) == [NoEntry EXCEPT !.deltas[n] = delta]
HasDelta(e, n) == e.deltas[n] # NoDelta

Blank == [static |-> "", turns |-> 0, ready |-> FALSE]
Built(static, turns) == [static |-> static, turns |-> turns, ready |-> TRUE]
Listed(p) ==
    {ph \in {Up, Turn} : /\ p.ready
                         /\ ph = Up => p.static \in UpStatics
                         /\ ph = Turn => p.turns > 0}
At(p, content) == [static |-> p.static, turns |-> p.turns, content |-> content]

NoSnapshot == [entry |-> NoEntry, flag |-> FALSE]
NoSnapshots == [m \in Messages |-> NoSnapshot]
Idle == [phase |-> "idle", node |-> 0, static |-> "", turns |-> 0, content |-> "",
         how |-> "", again |-> FALSE]

(***************************************************************************)
(* The pool.                                                               *)
(***************************************************************************)
Pooled(n, ph, at, delta, embedded) ==
    [node |-> n, message |-> run.message, ph |-> ph, at |-> at,
     delta |-> delta, embedded |-> embedded]

(* Two entries are one if their keys are (make_topology_key). *)
SameKey(e, f) == e.node = f.node /\ e.message = f.message /\ e.ph = f.ph /\ e.at = f.at

(* Variant: a list instead of a dictionary. *)
PutBeside(kept, new) == kept \cup new

Put(kept, new) == {e \in kept : \A f \in new : ~SameKey(e, f)} \cup new

Mine(n) == {e \in pool : e.node = n /\ e.message = run.message}
WithoutPf(n) == (pool \ Mine(n)) \cup {[e EXCEPT !.delta.pf = FALSE] : e \in Mine(n)}

(* purge_stale_topology: the current keys come without contents. *)
Stale(n, p) ==
    {e \in Mine(n) : e.ph \notin Listed(p) \/ e.at.static # p.static \/ e.at.turns # p.turns}

(* Whole entries can be blended (_anchor_dict_from_pool_entry). *)
Whole(e) == e.embedded /\ e.delta.pf

(* _sync_contextual_materialize_delta_to_pool, with each slot that is made. *)
Contextual(n, p, phs, content, kept) ==
    Put(kept, {LET at == At(p, IF ph = Up THEN answer[run.message] ELSE content)
               IN  Pooled(n, ph, at, [born |-> at, pf |-> TRUE], TRUE) : ph \in phs})

(***************************************************************************)
(* Seeding a run: what the anchors of the run become.                      *)
(***************************************************************************)
(* Restored as copies, if there is one. *)
Restored(n) ==
    LET own == snapshots[n][run.message]
        there == own.entry # NoEntry
    IN  [entry |-> IF there THEN own.entry ELSE entry,
         flag |-> run.flag \/ own.flag,
         shared |-> IF there THEN {} ELSE shared]

(* A delta of the pool: that at the place, with no content; else the last,  *)
(* here any, of the placeholder.                                           *)
Typed(n, p, kept) ==
    LET all == {e \in kept : e.node = n /\ e.message = run.message /\ e.ph = Up}
        exact == {e \in all : Up \in Listed(p) /\ e.at = At(p, "")}
    IN  IF exact # {} THEN exact ELSE all

(* _seed_cross_run_placeholder_anchors: the own snapshot, else the pool if  *)
(* the static text is that of the prefix, else the snapshot of any node.   *)
Seeds(n, p, kept) ==
    LET old == Restored(n)
        typed == Typed(n, p, kept)
        usable == {e \in typed : e.at.static = p.static}
        others == {k \in Nodes : HasDelta(snapshots[k][run.message].entry, n)}
    IN  IF HasDelta(old.entry, n) THEN {old}
        ELSE {[old EXCEPT !.entry = Only(n, e.delta), !.shared = {}] : e \in usable}
               \cup (IF typed # {} /\ typed = usable THEN {}
                     ELSE IF others = {} THEN {old}
                     ELSE {[entry |-> snapshots[k][run.message].entry,
                            flag |-> old.flag \/ snapshots[k][run.message].flag,
                            shared |-> {}] : k \in others})

Seeded(n, p, kept) ==
    \E seed \in Seeds(n, p, kept) :
        /\ entry' = seed.entry
        /\ shared' = seed.shared
        /\ run' = [run EXCEPT !.flag = seed.flag]

AnchorsKept == UNCHANGED <<run, entry, shared>>

(***************************************************************************)
(* Runs and registrations.                                                 *)
(***************************************************************************)
Init ==
    /\ prefix = [n \in Nodes |-> Blank]
    /\ answer = [m \in Messages |-> ""]
    /\ run = [message |-> CHOOSE m \in Messages : TRUE, reuse |-> FALSE, agent |-> Consumers,
              flag |-> FALSE]
    /\ entry = NoEntry /\ shared = {}
    /\ snapshots = [n \in Nodes |-> NoSnapshots]
    /\ pool = {}
    /\ job = Idle /\ late = FALSE
    /\ runs = 0 /\ asks = 0

(* Agent 0 is registered for a run of its own; a run that is not kv_reuse   *)
(* starts from nothing (reset_bench_run_state).                            *)
NewRun(m, reuse) ==
    /\ job = Idle /\ runs < MaxRuns
    /\ runs' = runs + 1
    /\ run' = [message |-> m, reuse |-> reuse, agent |-> 0, flag |-> FALSE]
    /\ entry' = NoEntry /\ shared' = {}
    /\ IF reuse THEN UNCHANGED <<prefix, snapshots, pool, late>>
       ELSE /\ prefix' = [n \in Nodes |-> Blank]
            /\ snapshots' = [n \in Nodes |-> NoSnapshots]
            /\ pool' = {} /\ late' = FALSE
    /\ UNCHANGED <<answer, job, asks>>

(* An answer of agent 0; with fewer than two anchors to compare it with, it *)
(* is one. It may be late: the bench waits for an agent up to a timeout,    *)
(* and goes on with the next (agentWait of gateway-client.mjs).            *)
Answered(c) ==
    /\ job = Idle /\ runs > 0
    /\ answer' = [answer EXCEPT ![run.message] = c]
    /\ run' = [run EXCEPT !.flag = TRUE]
    /\ UNCHANGED <<prefix, entry, shared, snapshots, pool, job, late, runs, asks>>

(* The next agent is registered, and seeded if it is to reuse KV. *)
RegisterAgent ==
    /\ job = Idle /\ run.agent < Consumers
    /\ late' = (late \/ (~run.flag /\ answer[run.message] # ""))
    /\ LET n == run.agent + 1
       IN  IF run.reuse
           THEN \E seed \in Seeds(n, prefix[n], pool) :
                   /\ entry' = seed.entry
                   /\ shared' = seed.shared
                   /\ run' = [run EXCEPT !.flag = seed.flag, !.agent = n]
           ELSE /\ run' = [run EXCEPT !.agent = n]
                /\ UNCHANGED <<entry, shared>>
    /\ UNCHANGED <<prefix, answer, snapshots, pool, job, runs, asks>>

(***************************************************************************)
(* A request (_ensure_prefix). A dense one first trims the agents before.  *)
(***************************************************************************)
Trimmed(n) ==
    [k \in Nodes |-> IF k < n /\ ~run.reuse /\ prefix[k].static # ""
                     THEN Built(prefix[k].static, 0) ELSE prefix[k]]

LacksUpstream(p, static) ==
    run.reuse /\ p.ready /\ static \in UpStatics /\ p.static \notin UpStatics

Plan(p, static, turns) ==
    CASE LacksUpstream(p, static) \/ ~p.ready -> "full_rebuild"
      [] p.ready /\ ~LacksUpstream(p, static) ->
         CASE p.static # static -> "static_rebuild"
           [] p.static = static ->
              CASE turns < p.turns -> "rewind_turns"
                [] turns = p.turns -> "noop"
                [] turns = p.turns + 1 -> "append_turn"
                [] turns > p.turns + 1 -> "static_rebuild"

Asked(static, turns, content, phase, how) ==
    job' = [phase |-> phase, node |-> run.agent, static |-> static, turns |-> turns,
            content |-> content, how |-> how, again |-> FALSE]

Asks(static, turns, content, plan) ==
    /\ job = Idle /\ run.agent > 0 /\ runs > 0 /\ asks < MaxAsks
    /\ Plan(prefix[run.agent], static, turns) = plan
    /\ asks' = asks + 1
    /\ UNCHANGED <<answer, late, runs>>

(* _rematerialize_consumer_slots_for_kv_reuse: seed, and make the slot of   *)
(* the answer, if it is not there, which fails without an answer.          *)
Rematerialized(n, p, kept) ==
    /\ Seeded(n, p, kept)
    /\ \E phs \in SUBSET (Listed(p) \cap {Up}) :
          /\ phs # {} => answer[run.message] # ""
          /\ pool' = Contextual(n, p, phs, "", kept)

AskNoop(static, turns, content) ==
    /\ Asks(static, turns, content, "noop")
    /\ Asked(static, turns, content, "built", "")
    /\ prefix' = Trimmed(run.agent)
    /\ IF run.reuse /\ turns = 0 THEN Rematerialized(run.agent, prefix[run.agent], pool)
       ELSE AnchorsKept /\ UNCHANGED pool
    /\ UNCHANGED snapshots

AskAppend(static, turns, content) ==
    /\ Asks(static, turns, content, "append_turn")
    /\ Asked(static, turns, content, "building", "append")
    /\ prefix' = Trimmed(run.agent)
    /\ AnchorsKept /\ UNCHANGED <<snapshots, pool>>

(* The pf deltas of the message are dropped, stale entries are not. With    *)
(* turns left a kv_reuse request fails: their slots have just been purged.  *)
AskRewind(static, turns, content) ==
    /\ Asks(static, turns, content, "rewind_turns")
    /\ LET n == run.agent
           p == Built(static, turns)
       IN  /\ prefix' = [Trimmed(n) EXCEPT ![n] = p]
           /\ IF run.reuse /\ turns > 0
              THEN job' = Idle /\ Seeded(n, p, WithoutPf(n)) /\ pool' = WithoutPf(n)
              ELSE /\ Asked(static, turns, content, "built", "")
                   /\ IF run.reuse THEN Rematerialized(n, p, WithoutPf(n))
                      ELSE AnchorsKept /\ pool' = WithoutPf(n)
    /\ UNCHANGED snapshots

(* _reset_prefix_node *)
ResetNode(n) ==
    /\ prefix' = [Trimmed(n) EXCEPT ![n] = Blank]
    /\ snapshots' = [snapshots EXCEPT ![n] = NoSnapshots]
    /\ shared' = shared \ {n}
    /\ pool' = {e \in pool : e.node # n}

AskRebuild(static, turns, content) ==
    /\ \E plan \in {"static_rebuild", "full_rebuild"} :
          /\ Asks(static, turns, content, plan)
          /\ Asked(static, turns, content, "building", "prepare")
          /\ LET n == run.agent
             IN  IF plan = "full_rebuild" /\ prefix[n].ready THEN ResetNode(n)
                 ELSE /\ prefix' = [Trimmed(n) EXCEPT ![n].ready = FALSE]
                      /\ pool' = pool \ Mine(n)
                      /\ UNCHANGED <<shared, snapshots>>
    /\ UNCHANGED <<run, entry>>

(* The prefix has its KV. After an append, what is stale is purged. *)
Prepared ==
    /\ job.phase = "building"
    /\ LET n == job.node
           p == Built(job.static, job.turns)
           gone == IF job.how = "append" THEN Stale(n, p) ELSE {}
       IN  /\ prefix' = [prefix EXCEPT ![n] = p]
           /\ pool' = pool \ gone
           /\ job' = [job EXCEPT !.phase = "built", !.how = ""]
    /\ AnchorsKept /\ UNCHANGED <<answer, snapshots, late, runs, asks>>

(* materialize_turn_placeholders; if a listed turn has no slot then, the    *)
(* prefix is rebuilt, once.                                                *)
Fill ==
    /\ job.phase = "built"
    /\ \E phs \in SUBSET (Listed(prefix[job.node]) \cap {Turn}) :
          pool' = Contextual(job.node, prefix[job.node], phs, job.content, pool)
    /\ job' = [job EXCEPT !.phase = "filled"]
    /\ AnchorsKept /\ UNCHANGED <<prefix, answer, snapshots, late, runs, asks>>

OutOfSync ==
    /\ job.phase = "built" /\ ~job.again /\ Turn \in Listed(prefix[job.node])
    /\ prefix' = [prefix EXCEPT ![job.node].ready = FALSE]
    /\ pool' = WithoutPf(job.node)
    /\ job' = [job EXCEPT !.phase = "building", !.how = "prepare", !.again = TRUE]
    /\ AnchorsKept /\ UNCHANGED <<answer, snapshots, late, runs, asks>>

Seed ==
    /\ job.phase = "filled"
    /\ IF run.reuse THEN Seeded(job.node, prefix[job.node], pool) ELSE AnchorsKept
    /\ job' = [job EXCEPT !.phase = "seeded"]
    /\ UNCHANGED <<prefix, answer, snapshots, pool, late, runs, asks>>

(***************************************************************************)
(* Generation.                                                             *)
(***************************************************************************)
(* The dictionary of the run is changed in place, wherever it is kept. *)
InPlace(new) ==
    /\ entry' = new
    /\ snapshots' = [n \in Nodes |->
                        IF n \in shared
                        THEN [snapshots[n] EXCEPT ![run.message].entry = new]
                        ELSE snapshots[n]]

(* Variant: a delta that is there already is not made anew. *)
MaterialisedOnce(n, at) ==
    IF run.flag /\ ~HasDelta(entry, n)
    THEN [deltas |-> [entry.deltas EXCEPT ![n] = [born |-> at, pf |-> TRUE]], embedded |-> TRUE]
    ELSE [entry EXCEPT !.embedded = @ \/ run.flag]

(* set_anchor makes the delta of a placeholder that is flagged. *)
Materialised(n, at) ==
    IF run.flag
    THEN [deltas |-> [entry.deltas EXCEPT ![n] = [born |-> at, pf |-> TRUE]], embedded |-> TRUE]
    ELSE entry

(* Slots that are missing are made. A dense prefill then makes deltas, and  *)
(* those of the run, new or not, are put under the place of today           *)
(* (_sync_dense_anchor_to_pool).                                           *)
Generate ==
    /\ job.phase = "seeded"
    /\ LET n == job.node
           p == prefix[n]
           at == At(p, answer[run.message])
           new == Materialised(n, at)
       IN  /\ Up \in Listed(p) => answer[run.message] # ""
           /\ \E made \in SUBSET Listed(p), dense \in {d \in BOOLEAN : run.reuse \/ d} :
                 LET kept == Contextual(n, p, made, job.content, pool)
                 IN  IF dense /\ Up \in Listed(p)
                     THEN /\ InPlace(new)
                          /\ pool' = IF HasDelta(new, n)
                                     THEN Put(kept, {Pooled(n, Up, at, new.deltas[n], new.embedded)})
                                     ELSE kept
                     ELSE /\ pool' = kept
                          /\ UNCHANGED <<entry, snapshots>>
    /\ job' = [job EXCEPT !.phase = "generated"]
    /\ UNCHANGED <<prefix, answer, run, shared, late, runs, asks>>

(* The delta of a snapshot, under the place of today and no content. *)
SnapshotPut(n, e) == Pooled(n, Up, At(prefix[n], ""), e.deltas[n], FALSE)

(* _snapshot_anchors: a delta of the pool, the last, here any, takes the    *)
(* place of the entry, the entry is kept, and its delta is put back.       *)
Finalize ==
    /\ job.phase = "generated"
    /\ LET n == job.node
           own == {e \in Mine(n) : e.ph = Up}
           taken == IF own = {} THEN {entry} ELSE {Only(n, e.delta) : e \in own}
       IN  \E e \in taken :
              /\ entry' = e
              /\ shared' = IF own # {} THEN {n} ELSE IF e = NoEntry THEN {} ELSE shared \cup {n}
              /\ snapshots' = [snapshots EXCEPT ![n][run.message] = [entry |-> e, flag |-> run.flag]]
              /\ pool' = IF HasDelta(e, n) THEN Put(pool, {SnapshotPut(n, e)}) ELSE pool
    /\ job' = Idle
    /\ UNCHANGED <<prefix, answer, run, late, runs, asks>>

(* A request may fail at each await. One that is to reuse an answer that    *)
(* is not there has dropped its delta (purge_incompatible_anchor_deltas).   *)
Fail ==
    /\ job # Idle
    /\ job' = Idle
    /\ IF /\ job.phase = "seeded" /\ run.reuse
          /\ Up \in Listed(prefix[job.node]) /\ answer[run.message] = ""
       THEN InPlace([entry EXCEPT !.deltas[job.node] = NoDelta])
       ELSE UNCHANGED <<entry, snapshots>>
    /\ UNCHANGED <<prefix, answer, run, shared, pool, late, runs, asks>>

Release ==
    /\ job = Idle /\ runs > 0
    /\ prefix' = [n \in Nodes |-> Blank]
    /\ answer' = [m \in Messages |-> ""]
    /\ snapshots' = [n \in Nodes |-> NoSnapshots]
    /\ pool' = {} /\ late' = FALSE
    /\ run' = [run EXCEPT !.flag = FALSE]
    /\ entry' = NoEntry /\ shared' = {}
    /\ UNCHANGED <<job, runs, asks>>

Next ==
    \/ \E m \in Messages, reuse \in BOOLEAN : NewRun(m, reuse)
    \/ \E c \in Contents : Answered(c)
    \/ RegisterAgent
    \/ \E static \in Statics, turns \in 0 .. MaxTurn :
       \E content \in IF turns = 0 THEN {""} ELSE Contents :
          \/ AskNoop(static, turns, content) \/ AskAppend(static, turns, content)
          \/ AskRewind(static, turns, content) \/ AskRebuild(static, turns, content)
    \/ Prepared \/ Fill \/ OutOfSync \/ Seed \/ Generate \/ Finalize \/ Fail
    \/ Release

Spec == Init /\ [][Next]_vars

(***************************************************************************)
(* Properties.                                                             *)
(***************************************************************************)
(* The pool is a dictionary, and a snapshot that shares its entry with the  *)
(* run has the deltas of the run.                                          *)
TypeOK ==
    /\ prefix \in [Nodes -> [static : Statics \cup {""}, turns : 0 .. MaxTurn, ready : BOOLEAN]]
    /\ entry.deltas \in [Nodes -> Delta] /\ entry.embedded \in BOOLEAN
    /\ \A e, f \in pool : SameKey(e, f) => e = f
    /\ \A e \in pool : e.at \in Where /\ e.delta \in Delta \ {NoDelta}
    /\ \A n \in shared : snapshots[n][run.message].entry = entry

(* What a blend may take from the pool was computed at the very place, and  *)
(* for the very content, it is kept under: "topology + content_hash must    *)
(* match exactly" (gpt_chat.py:1204). It is not where the bench goes on     *)
(* after the timeout of its wait for agent 0: the delta of an older prefix, *)
(* restored from a snapshot, is then filed under the place of today by a    *)
(* dense prefill that has the answer of an earlier run, and no flag.        *)
WholeInAnyOrder == \A e \in pool : Whole(e) => e.delta.born = e.at

(* It is where that has not happened since the pool was empty: the deltas   *)
(* that seeding, snapshots and a dense sync carry over from older prefixes, *)
(* and keep under the place of today, are never whole                       *)
(* (_anchor_dict_from_pool_entry). A consumer may be registered too early   *)
(* if its message has no answer yet, and an answer may come at any time.    *)
WholeIsTrue == late \/ WholeInAnyOrder

=============================================================================
