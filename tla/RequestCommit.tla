--------------------------- MODULE RequestCommit ---------------------------
(***************************************************************************)
(* The request-scoped view of the shared anchor dictionaries of            *)
(* KVCOMM/llm/kvcomm_engine.py: _ScopedDict (copy on first access),        *)
(* _RequestState (one scoped view per dictionary) and the staging and      *)
(* flushing of finished requests by KVCOMMEngine.finalize_request.         *)
(*                                                                         *)
(* The program that drives it is Graph.arun (KVCOMM/graph/graph.py): a     *)
(* request runs once, and is finalized when its run returns, but not when  *)
(* its run raises. The OpenClaw sidecar never finalizes a request, and so  *)
(* never commits: see SidecarAnchors.                                      *)
(*                                                                         *)
(* A dictionary maps a key (a placeholder id) to a bucket, and a bucket    *)
(* holds one entry per message: here, the set of messages it has.          *)
(***************************************************************************)
EXTENDS Sequences, Integers

CONSTANTS Uids,      \* request uids
          Dicts,     \* the shared dictionaries of the engine
          Keys,      \* placeholder ids
          Msgs,      \* messages: the keys of a bucket
          MayFail    \* the requests whose run may raise

CONSTANTS Absent,    \* the key is not in the shared dictionary
          Untouched, \* the key is not in _ScopedDict._local
          Deleted    \* the sentinel _DELETED of a scoped pop

Bucket == SUBSET Msgs

ASSUME ScopeAssumption ==
    /\ MayFail \subseteq Uids
    /\ \A b \in Bucket : b # Absent /\ b # Untouched /\ b # Deleted
    /\ Untouched # Deleted

VARIABLES base,    \* the shared dictionaries (KVCOMMEngine.anchors, ...)
          states,  \* the keys of _request_states
          local,   \* _local of each request's scoped dictionaries
          active,  \* _active_requests
          staged,  \* _staged_commits
          phase    \* where the run of each request is

vars == <<base, states, local, active, staged, phase>>

Overlay  == [Dicts -> [Keys -> Bucket \cup {Untouched, Deleted}]]
Store    == [Dicts -> [Keys -> Bucket \cup {Absent}]]
Fresh    == [d \in Dicts |-> [k \in Keys |-> Untouched]]
Empty    == [d \in Dicts |-> [k \in Keys |-> Absent]]

TypeOK ==
    /\ base \in Store
    /\ states \subseteq Uids
    /\ local \in [Uids -> Overlay]
    /\ active \subseteq Uids
    /\ staged \in Seq([uid : Uids, dicts : Overlay])
    /\ phase \in [Uids -> {"idle", "running", "finished", "failed"}]

Init ==
    /\ base = Empty
    /\ states = {}
    /\ local = [u \in Uids |-> Fresh]
    /\ active = {}
    /\ staged = <<>>
    /\ phase = [u \in Uids |-> "idle"]

-----------------------------------------------------------------------------
(* _ScopedDict *)

\* What a request sees under a key: its own copy, else the shared value.
Seen(u, d, k) ==
    CASE local[u][d][k] = Untouched -> base[d][k]
      [] local[u][d][k] = Deleted   -> Absent
      [] OTHER                      -> local[u][d][k]

\* __getitem__ and get copy a bucket they find in the shared dictionary: the
\* copy is committed later, although the request only read.
AfterRead(u, d, k) ==
    IF local[u][d][k] = Untouched /\ base[d][k] # Absent
    THEN base[d][k]
    ELSE local[u][d][k]

\* setdefault(key, {}): the copy, or a new empty bucket.
Ensured(u, d, k) == IF Seen(u, d, k) = Absent THEN {} ELSE Seen(u, d, k)

\* pop marks a key it sees; a key it does not see is left as it is.
AfterPop(u, d, k) ==
    IF Seen(u, d, k) = Absent THEN local[u][d][k] ELSE Deleted

-----------------------------------------------------------------------------
(* KVCOMMEngine: a request's state is made on first use, under the lock. *)

\* Variant: a new state is not counted as active.
ResolveUncounted(u) == states' = states \cup {u} /\ active' = active

Resolve(u) ==
    /\ states' = states \cup {u}
    /\ active' = IF u \in states THEN active ELSE active \cup {u}

Running(u) == phase[u] = "running"

\* Every access goes through get_request_state(uid) and then one scoped
\* dictionary; row is what becomes of the local part of that dictionary.
Access(u, d, row) ==
    /\ Running(u)
    /\ Resolve(u)
    /\ local' = [local EXCEPT ![u][d] = row]
    /\ UNCHANGED <<base, staged, phase>>

ReadBucket(u, d, k) ==
    Access(u, d, [local[u][d] EXCEPT ![k] = AfterRead(u, d, k)])

\* A loop over values() or items() reads, hence copies, every key.
ScanDict(u, d) == Access(u, d, [k \in Keys |-> AfterRead(u, d, k)])

\* setdefault(key, {})[message] = ...
PutEntry(u, d, k, m) ==
    Access(u, d, [local[u][d] EXCEPT ![k] = Ensured(u, d, k) \cup {m}])

\* setdefault(key, {}).pop(message, None)
DropEntry(u, d, k, m) ==
    Access(u, d, [local[u][d] EXCEPT ![k] = Ensured(u, d, k) \ {m}])

PopBucket(u, d, k) ==
    Access(u, d, [local[u][d] EXCEPT ![k] = AfterPop(u, d, k)])

AccessStep(u) ==
    \E d \in Dicts :
        \/ ScanDict(u, d)
        \/ \E k \in Keys :
              \/ ReadBucket(u, d, k)
              \/ PopBucket(u, d, k)
              \/ \E m \in Msgs : PutEntry(u, d, k, m) \/ DropEntry(u, d, k, m)

-----------------------------------------------------------------------------
(* finalize_request *)

\* Variant: the first state that has the key wins.
IsFirstToTouch(q, i, d, k) ==
    /\ i \in 1..Len(q)
    /\ q[i].dicts[d][k] # Untouched
    /\ \A j \in 1..Len(q) : j < i => q[j].dicts[d][k] = Untouched

\* _RequestState.commit, for each state of the list in turn: every local key
\* replaces the shared bucket, so the last state that has the key wins.
IsLastToTouch(q, i, d, k) ==
    /\ i \in 1..Len(q)
    /\ q[i].dicts[d][k] # Untouched
    /\ \A j \in 1..Len(q) : j > i => q[j].dicts[d][k] = Untouched

Committed(b, q) ==
    [d \in Dicts |-> [k \in Keys |->
        IF \E i \in 1..Len(q) : IsLastToTouch(q, i, d, k)
        THEN LET i == CHOOSE i \in 1..Len(q) : IsLastToTouch(q, i, d, k)
             IN  IF q[i].dicts[d][k] = Deleted THEN Absent ELSE q[i].dicts[d][k]
        ELSE b[d][k]]]

\* Variants: a state is staged without the uid of its request; the active set is
\* looked at before the request leaves it; a state is committed at once.
FinalizeUntagged(u) ==
    /\ u \in states
    /\ states' = states \ {u}
    /\ local' = [local EXCEPT ![u] = Fresh]
    /\ active' = active \ {u}
    /\ IF active = {u}
       THEN base' = Committed(base, Append(staged, [dicts |-> local[u]])) /\ staged' = <<>>
       ELSE base' = base /\ staged' = Append(staged, [dicts |-> local[u]])

FinalizeTestsFirst(u) ==
    LET q == Append(staged, [uid |-> u, dicts |-> local[u]])
    IN  /\ u \in states
        /\ states' = states \ {u}
        /\ local' = [local EXCEPT ![u] = Fresh]
        /\ active' = active \ {u}
        /\ IF active = {}
           THEN base' = Committed(base, q) /\ staged' = <<>>
           ELSE base' = base /\ staged' = q

FinalizeAtOnce(u) ==
    /\ u \in states
    /\ states' = states \ {u}
    /\ local' = [local EXCEPT ![u] = Fresh]
    /\ active' = active \ {u}
    /\ base' = Committed(base, <<[uid |-> u, dicts |-> local[u]]>>)
    /\ staged' = staged

\* The state is staged and the request leaves the active set; the last one
\* to leave commits the whole list.
Finalize(u) ==
    LET q == Append(staged, [uid |-> u, dicts |-> local[u]])
        a == active \ {u}
    IN  /\ u \in states
        /\ states' = states \ {u}
        /\ local' = [local EXCEPT ![u] = Fresh]
        /\ active' = a
        /\ IF a = {}
           THEN base' = Committed(base, q) /\ staged' = <<>>
           ELSE base' = base /\ staged' = q

-----------------------------------------------------------------------------
(* Graph.arun *)

StartRun(u) ==
    /\ phase[u] = "idle"
    /\ phase' = [phase EXCEPT ![u] = "running"]
    /\ UNCHANGED <<base, states, local, active, staged>>

\* The run returns: LLMChat.finalize_request, which does nothing for a run
\* that never touched the engine.
EndRun(u) ==
    /\ Running(u)
    /\ phase' = [phase EXCEPT ![u] = "finished"]
    /\ IF u \in states
       THEN Finalize(u)
       ELSE UNCHANGED <<base, states, local, active, staged>>

\* A node raises or its wait_for times out: arun propagates the exception
\* and nothing finalizes the request.
FailRun(u) ==
    /\ Running(u)
    /\ u \in MayFail
    /\ phase' = [phase EXCEPT ![u] = "failed"]
    /\ UNCHANGED <<base, states, local, active, staged>>

BatchStep(u) == StartRun(u) \/ AccessStep(u) \/ EndRun(u) \/ FailRun(u)

AllOver == \A u \in Uids : phase[u] \in {"finished", "failed"}

\* The script returns once every request of the batch is over.
Returned == AllOver /\ UNCHANGED vars

BatchNext == (\E u \in Uids : BatchStep(u)) \/ Returned

BatchSpec == Init /\ [][BatchNext]_vars

\* Every task of asyncio.gather starts, and every run ends one way or the
\* other: the awaits of arun on the nodes of a round are wait_for calls with a
\* timeout, and the decision node, awaited without one, generates a bounded
\* number of tokens.
FairBatchSpec ==
    /\ BatchSpec
    /\ \A u \in Uids : WF_vars(StartRun(u)) /\ WF_vars(EndRun(u) \/ FailRun(u))

-----------------------------------------------------------------------------
(* What should hold *)

\* The states and the active set agree, and nothing waits for a flush that no
\* active request is left to trigger: finalize_request looks at the active set
\* only when a request leaves it.
NothingStranded ==
    /\ active = states
    /\ staged # <<>> => active # {}

\* No request sees another one's work: while a request lives, what it sees under
\* a key it has not itself changed stays the same, whether it copied the bucket
\* or still reads the shared dictionary, and whoever finishes meanwhile.
StableView ==
    [][\A u \in states \cap states', d \in Dicts, k \in Keys :
            local'[u][d][k] = local[u][d][k] => Seen(u, d, k)' = Seen(u, d, k)]_vars

\* "flush when last active request ends": with no run in progress, everything
\* that was staged is in the shared dictionaries, unless a run has raised, which
\* leaves its request in the active set for ever.
FlushedWhenQuiet ==
    (\A u \in Uids : phase[u] \in {"idle", "finished"}) => staged = <<>>

\* What a request staged reaches the shared dictionaries, however the other
\* requests of the batch overlap with it, if none of them raises.
CommittedEventually ==
    \A u \in Uids :
        phase[u] = "finished" ~> \/ \A i \in DOMAIN staged : staged[i].uid # u
                                 \/ \E v \in Uids : phase[v] = "failed"

\* Copy on first access is as good as a snapshot of everything: the batch
\* specification implements SnapshotBatch.
SlotsOf == Dicts \X Keys

Shared == [s \in SlotsOf |-> base[s[1]][s[2]]]

\* What a request's dictionaries, or those it has staged, come to now.
Effective(o) ==
    [s \in SlotsOf |->
        CASE o[s[1]][s[2]] = Untouched -> base[s[1]][s[2]]
          [] o[s[1]][s[2]] = Deleted   -> Absent
          [] OTHER                     -> o[s[1]][s[2]]]

Touched(o) == {s \in SlotsOf : o[s[1]][s[2]] # Untouched}

Views == [u \in Uids |-> IF u \in states THEN Effective(local[u]) ELSE Untouched]
Uses  == [u \in Uids |-> Touched(local[u])]
Left  == [i \in DOMAIN staged |-> [view |-> Effective(staged[i].dicts),
                                   used |-> Touched(staged[i].dicts)]]

Snapshots == INSTANCE SnapshotBatch WITH
    Clients <- Uids,
    Slots <- SlotsOf,
    InitialStore <- [s \in SlotsOf |-> Absent],
    NoView <- Untouched,
    store <- Shared,
    open <- active,
    view <- Views,
    used <- Uses,
    left <- Left

IsSnapshotBatch == Snapshots!Spec

=============================================================================
