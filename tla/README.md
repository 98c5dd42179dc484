# A TLA+ model of KVCOMM

KVCOMM lets the agents of a graph share the KV caches of a language model. A
prompt of an agent is a template with placeholders (`{user_question}`,
`{agent_1_current}`, `{turn_3_tool}`); the KV of a placeholder's message was
computed elsewhere, and is moved to its place in the prompt by rotating its
keys and adding *deltas*, interpolated from *anchors*: messages for which the
difference between the shared KV and the true one was stored by an earlier
dense prefill. This directory models the state that this leaves behind and the
steps that change it, the graph that drives it, and the loop of the benchmark
agents that the sidecar serves.

## 1. The system

| part | source | state | operations |
|---|---|---|---|
| request state | `KVCOMM/llm/kvcomm_engine.py` 575-817 | six class-level dictionaries, `_request_states`, `_active_requests`, `_staged_commits` | scoped read, write, `setdefault`, `pop`; `_get_request_state`, `finalize_request`, commit |
| anchor pool | `kvcomm_engine.py` 819-1237, `gpt_chat.py` 1320-1955, 5197-5259 | the buckets of one placeholder: flags, anchors, lengths, info, global info | predict, materialise (`set_anchor`), evict (`update_anchor`), purge |
| segment merge | `gpt_chat.py` 4471-4538, 4706-4921; `kvcomm_engine.py` 453-482, 755-765, 1468-1577 | `meta`, the pool's results, the merged prefix | locate, meta, refresh, rotate and blend in a thread pool, fall back, concatenate |
| turn of an agent | `gpt_chat.py` 155-1320, 1957-2288, 2600-2760; `stores/tool_schema_branch.py` | response list of a message, schema KV by prefix, counters and flags of forced dense turns | choose `kv_reuse` or `dense_prefill`, generate, reject and retry, fall back, pop a response, splice schema KV |
| prefix lifecycle | `gpt_chat.py` 2289-2946, `kvcomm_adapter.py` 2119-2363, `stores/prefix_spans.py`, `prefix_topology.py` | per node: KV segments, placeholder records, spans, base KV, template, topology; turn slots | plan, prepare, append, rewind, rebuild, trim, reset |
| slots | `gpt_chat.py` 2960-3000, 3309-3455, 3560-4384; `stores/*_slot.py` | turn, consumer, branch and upstream slots | make, find, resolve, refresh, drop |
| sidecar | `openclaw/sidecar/kvcomm_adapter.py` | sessions, run snapshots, agent anchor pool | register, reset, generate, snapshot, restore, release |
| agent loop | `kvcomm_adapter.py` 2660-4990, `openclaw_prefix.py`, `bench_canonical.py`, `tool_bridge.py` | the transcript of an agent, the two workspaces | scan the transcript for evidence, open and close gates, force a canonical reply, bridge a generated one, synchronise the workspaces |
| graph | `KVCOMM/graph/graph.py`, `node.py`, `KVCOMM/agents` | edges, in-degrees, the queue of ready nodes, outputs, memories, conditions, templates | `run`, `arun` with its three modes |
| tool KV, semantic index | `openclaw/sidecar/stores` | pools keyed by content hash | get, put |
| server, benchmark drivers, prompts, tools, datasets | `openclaw/sidecar/server.py`, `experiments`, `KVCOMM/{prompt,tools}`, `datasets` | none shared | - |

How they interact. `experiments/*.py` run a batch of `Graph.arun` coroutines in
one event loop (`asyncio.gather`). Each request has a uid, and every access of
its agents to the anchor dictionaries goes through its `_RequestState`: copies
made on first access, staged by `finalize_request`, and committed when the last
active request leaves. Within a request `arun` walks the agents in topological
order; an agent prepares the template of its prompt, fills its placeholders
from the outputs of its predecessors and generates. The generation
(`generate_for_agent`) chooses a mode, `agen_kvcomm` merges the prefix, a thread
pool rotates the segments, a worker thread decodes, and, after a dense prefill,
`set_anchor` stores deltas for the placeholders whose message was predicted to
be an anchor. The sidecar drives the same engine over HTTP, with a run id for
uid, and never finalizes: an agent runtime sends it the whole transcript in every turn,
it brings the prefix of the node into the shape of that transcript, makes the
slots, and returns either a generated reply or a fixed one that a *gate*
demands.

What is hard: the batch's requests interleave at every `await`; copies are lazy,
so what a request sees depends on when it first looked; pools of results come
back out of order; buckets of one pool are five dictionaries paired by key in
some places and by position in others; offsets accumulate; prefixes, slots and
schema KV outlive the request they were made for and are found again by keys that say less
than all they depend on; a failure leaves half the steps undone; what an agent has done
is known only from a transcript, by scans that pair calls with results.

What makes each part correct is in section 3, and the hazards, each at its line
with the properties that cover it, are in `PROJECT.json`.

## 2. The modules

### RequestCommit, SnapshotBatch

`RequestCommit` has one variable per piece of engine state: `base` (the shared
dictionaries), `states`, `active`, `staged`, and `local`, the `_local` part of
every request's scoped dictionaries, where a cell is `Untouched`, `Deleted` (the
sentinel of `pop`) or a bucket. A bucket is the set of messages it has: enough to
tell whose work it holds. `phase` says where the run of a request is. One
action per operation of `_ScopedDict` a request may perform (`ReadBucket`,
`ScanDict`, `PutEntry`, `DropEntry`, `PopBucket`), each of which first resolves
the request state, as the code does; `EndRun` is `finalize_request`, commit of
the staged list included. `BatchSpec` is `Graph.arun`: a run ends with `finalize_request`, or raises, and
then nothing finalizes it: it stays active for ever. `MayFail` says which may. (The sidecar uses the
same dictionaries but finalizes no request, so nothing of it is ever committed: in `SidecarAnchors` a run has its own anchors.)

`SnapshotBatch` is what the deferred commits promise, without lazy copies: a
request works on a snapshot of the store taken when it joins the batch; when the
last request of the batch leaves, the store takes, slot by slot, the version of
the request that left last among those that used the slot. That a mere reader is
a user is deliberate: a read copies the bucket, and the copy is committed. The
refinement (`IsSnapshotBatch`) shows that copying lazily is as good as a
snapshot, because the store does not change while a request is in the batch.

### AnchorPool

The buckets of one placeholder in one request's view. `anchors` and `info` are
sequences of keys, as Python dictionaries keep insertion order and the code
pairs them by position; `len`, `count` and `global` are the values. `hits`
is history: how often an anchor was really selected. A message is measured
(its KV computed) and predicted in one action, as in the three callers
(`PredictNew`, `PredictShared`), which similarity the tensors have being a choice;
`SetAnchor(n, m)` is the dense prefill of node `n`, trim included.
`kind`, fixed in the initial state, distinguishes the placeholders whose info
entry is made at prediction ("input") from those whose entry is made at materialisation ("response").

### SegmentMerge

One call of `agen_kvcomm`, from `locate_placeholder` to the concatenated prefix,
for any number `N` of placeholders. Every text and message is a length; a
rotation is the position its first token gets. The pool completes the segments in
any order, a blend may fail, a worker may raise, a slot may replace a cache by
one of another length, and a cache may have more ids than positions (`drift`).

### GenerateTurn

The turns of a consumer node: `job` is the turn in progress (its mode, prompt
layout, toolset and cache), `responses` the response list of every message,
`branches` the pooled KV of tool schemas, and the rest are the flags that force
dense turns. `Ask` chooses the mode; an `Attempt` is one generation, with the
fallbacks of `agen_kvcomm` to dense prefill, the append to the list, and the
decision whether the reply is rejected, popped and tried again, in which mode
(`Retry`); `Finish` ends the turn, `Fail` raises. KV is the sequence of the tokens each
position was computed behind, so that a splice can be compared with the prompt
it goes into. `Register` and `Release` come between two turns. What a turn finds for a prefix, which anchors are missing and what is generated are inputs.

### PrefixLifecycle

The prefix of one node in the sidecar: `bucket` is the node's entry in
`_shared_kv_cache_memory` (KV segments, placeholder records, spans, prompt ids, base KV,
template, turn count, static hash, topology), `initialized` its flag, `slots` the
turn slots, and `job` where the request in progress is. A token is
`<<turn, name>>`; the KV of a cache is the sequence of tokens it was computed
from, so that a segment is exact iff it equals the prompt up to its end. A
request asks for a static text, a number of turns and their contents; `Plan` is
`plan_prefix_update` with the two corrections that `_ensure_prefix` makes to it, and
there is one action for each plan up to its first `await`:
`AskNoop`, `AskAppend`, `AskRewind` (which falls back to a rebuild within the same
request), `AskRebuild`. `Forwarded` is what follows the forward pass, `Fill` the turn
contents with the second rebuild if placeholders and slots disagree, `FailForward` and `FailFill`
an exception or an out-of-memory error at the awaits. Between two requests `Trim`
(`_rebuild_static_prefix_only` for an upstream agent) and `Reset`
(`_reset_prefix_node`) may come. One request at a time: the bench spawns its agents one
after the other, and `_ensure_prefix` has no lock that would make two safe.

### ConsumerSlots

PrefixLifecycle, extended with what is spliced into the prefix: the consumer slots of tool turns,
the branch slots of assistant turns, and the upstream slots that hold the answer of the agent before. Each action of
PrefixLifecycle is joined with what it does to these registries: purges with a reset or a
trim, and, once the prefix stands, the making of the slots for a `kv_reuse` request. A slot
keeps the tokens left of it when it was made; `SlotAt` finds one by the code's key
(content and start), so that a slot that is found but stale shows. `OneStatic` says that a message is asked with one static text, as far as it leaves slots. Messages have modes: a
dense one makes no slots. If making them again raises after a rewind, the
request ends there (`kvcomm_adapter.py` 2281-2288).

### SidecarAnchors

The deltas of a placeholder are kept three times, and so are the variables: `entry` is
`state.anchors["agent_0_current"][message]` of the run, `snapshots` is `_anchor_pool`
(per node and message), `pool` is `agent_anchor_pool.py`. A delta is where it was computed
(`born`) and whether that of the text behind the placeholder is with it. Coordinates
are the static text, the number of turns and the content: the positions, spans and ids of
`DeltaAnchorKey` are functions of the first two, as `AnswersRequest` of `PrefixLifecycle` shows.
`shared` has the nodes whose snapshot holds the very dictionary of the run, since
`_snapshot_anchors` copies one level only and `set_anchor` updates in place. `NewRun` is
the registration of agent 0 with `reset_bench_run_state`, `RegisterAgent` that of the next, with its seeding
(`Seeds`: the own snapshot, the pool, any snapshot). A request is `Ask...` (one action per
plan of `_ensure_prefix`, with what it purges), `Prepared`, `Fill`, `OutOfSync`,
`Seed`, `Generate` (slots, `set_anchor` and `_sync_dense_anchor_to_pool`) and `Finalize`
(`_snapshot_anchors`), or `Fail`. Agent 0 answers and the others
consume; whether a slot or a dense prefill comes about is a choice, and so is whether a turn's content is
eligible for a retry. Agents are registered, and answers come, in any order: the bench goes on when its wait for an agent times out
(`agentWait`). `late` is history: a consumer has been registered, since the pool was empty, while its message
had the answer of an earlier run and none of this one.

### GraphRun

`Graph` and `Node`: `ConstructSpatial` and `ConstructTemporal` build the edges from the masks, with the
cycle check; every request runs on its own copy of the graph. The state of a request is
its queue, in-degrees, outputs, memories, conditions and round; the templates
prepared for an agent are shared, as the engine keeps them in class-level dictionaries.
A request runs in one of three ways (`run`, `arun` with mode `default`, `arun` with
`allow_kv_reuse`); a node starts, finishes, or raises or times out: then `arun` fails the
request, and `run` tries the node again and goes on without it in the end. What each class of agent prepares, asks for and fills in
`_process_inputs` is `MathConditions`, `WikiConditions`, `CodeConditions` and
`FinalConditions`.

### Transcript, BenchGates, AgentLoop

`Transcript` has the scans of `openclaw_prefix.py` as operators on a transcript:
a sequence of messages with calls, and the results that answer them, by position as the code
pairs them. `BenchGates` has the tasks of the benchmark (which files each
reads, writes and verifies), the gates of a task in the order of
`select_canonical_gate` (`Priority`) and in the order of the branches of `generate`
(`Ladder`), and what each gate asks for. `research` is `t4-browser-research-and-code`, for which `generate` raises the
flags of the browser family and those of the generic tasks together; it is given a broken `app.js` (`Target`) besides the
`report_client.py` it is to deliver. `AgentLoop` closes the loop: `Generate` is one call of the adapter, which
synchronises the workspaces, opens the gates, and returns a fixed reply, a
short-circuited one or a generated one behind the bridges; `Execute` runs the next of its calls in the agent
runtime, which may fail, keeps what came back in `results`, and appends the message to the transcript with all
its results after the last one; `GatewayReject` is the refused browser call that empties the history. The model may answer as asked, or
stray (`Strays` times). File content is "good" or "bad", good being what the sidecar's own check accepts.

### MC modules and proofs

An `MC` module for each specification that is run gives the constants small values.
`RequestCommitProofs`, `AnchorPoolProofs`, `SegmentMergeProofs`, `GenerateTurnProofs`, `SidecarAnchorsProofs`,
`GraphRunProofs`, `PrefixLifecycleProofs` and `AgentLoopProofs` hold the theorems.

## 3. What is checked

| run | question | bounds |
|---|---|---|
| `batch` | Can staged work be stranded, a request see another's, a lazy copy differ from a snapshot, the work of a finished request fail to reach the store? | 3 requests of which one may raise, 2 dictionaries, 1 key, 1 message; fairness |
| `pool` | Pool bound, agreement of the buckets, real counts, lengths, eviction of the least used, other nodes' deltas | both kinds of placeholder, 3 messages of 2 lengths, 2 nodes, limit 1, window 2 |
| `limit` (violated) | Has the pool of an input placeholder the bound its limit promises, or one more? | the same |
| `segments` | Exact positions, own spans, no partial reuse | 3 placeholders, messages shorter and longer than their names, drift 0 or 1 |
| `prefix` | Is the prefix a request generates on that of its prompt, its KV exact, are its turn slots, consumer slots and upstream slots current? | 2 messages (one dense and reused, one reused), 3 static texts, 2 turns, 2 contents, 2 answers, any request and any failure in any order |
| `rewind` (violated) | Is the last span exact as well? | 2 turns |
| `turn` | Is the returned response the last of the list, does spliced schema KV belong to the prompt, do dense turns end? | 1 message, 2 prefix layouts, 3 toolsets; fairness |
| `splice` (violated) | Is the cache of a generation that of its whole prompt but the last token? | the same |
| `anchors` | Was every pool entry that a blend may take computed at the place and for the content it is kept under? | 2 consumers, 2 static texts (answer inlined or listed), 2 contents, 1 turn (of the first consumer: `FirstHasTurns`), 3 runs of either mode, 3 requests, answers at any time |
| `graph` | Topological order, current inputs, filled placeholders, an end | 3 agents and a decision, 2 requests of which one may fail, 2 rounds, 2 tries, 3 modes, 4 teams, 4 masks; fairness |
| `loop` | Do the two orders of the gates agree, does an agent claim only what its results show, do tests run on the fix, does the chain end? | 19 tasks, 3 modes, 1 reply astray, 1 failing call, 7 turns; fairness |
| `orders` (violated) | Is the reply that is forced in a turn the one its hint asks for? | 19 tasks, 3 modes, no strays, no faults |

Why the bounds are enough. Two requests suffice for a lost update and three for
one to be staged while another joins and a third still reads; with two
dictionaries a request can have touched one and not the other. The pool needs one
message more than limit + 1 to evict and window 2 to have a choice of victim;
`MaxCount` bounds the activation counts. Two turns give appends onto appends,
rewinds by one and by two, and jumps; `MinReuse = 3` stands for the 32 tokens of
`min_reuse_len`, so that both the incremental append and its fallback occur; the
static texts differ in whether they have an upstream placeholder, hence one text
span or two without turns. Three segments have a first, a middle
and a last; drift 1 stands for any excess of ids over positions. In `turn` one
message suffices, since messages meet only in the flags; two prefix layouts
and three toolsets give a branch of another prefix, of another schema, and of the
same schema for another deliverable. In `anchors` the second run may reuse what a dense
one has left, under the other static text or another number of turns, and the third what the second has restored and filed again, which is where a
registration that comes too early does its harm (see `WholeIsTrue` below). One turn tells an old place from a new one, and gives
appends and rewinds; the rewind of a reused request to a turn that is left, which always fails, needs a second. That instance
(two runs, `MaxTurn = 2`) takes too long to be kept. The second consumer needs no turns to seed the first or to be seeded by it. In `graph` three agents give a chain, a fan and
a cycle that the check must break; the second round has memories of the first. In
`loop` seven turns are more than any task needs with one stray and one fault, which is
what `ChainEnds` shows.

Deadlock is checked except in `pool` and `limit` (the pool may run into
`MaxCount` or have measured every message), `graph` (all requests have ended), `loop` and `orders`
(the chain has ended); in the other models the end of the work is an action
of its own (`Returned`, `Over`) or there is none.

Fairness. `FairBatchSpec`: every task of `asyncio.gather` starts (WF of
`StartRun`), and a run ends one way or another (WF of `EndRun \/ FailRun`),
because the awaits of `arun` on the nodes of a round are `wait_for` calls with a
timeout; the decision node is awaited without one, but decodes a bounded number
of tokens (`max_new_tokens`) and waits for no other request. A request is never
assumed to touch the engine. `GraphRun`: WF of the steps of each request, for the same reason; whether a node
finishes or fails stays open. `GenerateTurn`: a turn that has begun is carried on and another is asked for (WF of `Next`),
never which one or with what text. `AgentLoop`: the runtime executes what it is
given and asks again (WF of `Generate` and of `Execute`). No
fairness is assumed of the sidecar's `PrefixLifecycle`, `ConsumerSlots` and `SidecarAnchors`.

The violated runs are disagreements between the code and what the repository says
of it, listed in `PROJECT.json` as findings. Where a property is limited, this is why:

* `ResponsePoolBounded`, `BooksAgree`, `CountsAreReal` and `EvictsLeastUsed` are properties of response placeholders.
  Messages of an input placeholder that were predicted but never, or not yet, materialised have an
  info entry without an anchor. `update_anchor` may take
  such a message for its victim, so that the pool grows past limit + 1, by one anchor each time (`limit`). And the pairing by position is lost: with two
  messages materialised in the other order than they were predicted, TLC finds the selection of one credited to the other. The bound is limit + 1
  for a response too, as a pool is trimmed only when it is above the limit already, while the README of the repository
  calls the limit the maximum.
* `LengthsCurrent` is a property of input placeholders, whose messages are measured once; a response may be generated again
  for a message, and then it does not hold: the update branch of `set_anchor` (line 1234) replaces the tensors and leaves the length.
* `FlushedWhenQuiet` and `CommittedEventually` except a batch in which a run has raised: that run stays
  active, and nothing is ever flushed again.
* `LeftSpansExact` leaves out the last
  span because a rewind gets it wrong (`rewind`), and `TurnsFresh` the token ids of assistant
  turns, which an old slot passes on (`gpt_chat.py` 4046, where the slot gets the new `content_hash`): the oldest turn of a prompt that has become too long
  is dropped and the others are renumbered, so the same number of turns comes back
  with other contents.
* The rebuild of a trim is taken to succeed (`FailForward`): a trim has cleared the
  topology by then, and a failure leaves a prefix that the next request may take
  for its own, a hazard listed in `PROJECT.json`.
* `SlotsCurrent` is claimed where a message is asked with one static text, requests that leave no slots apart (`OneStatic`):
  dense ones without turns, as in `prefix`, may have another. The static text of a message comes from the prompt
  registered for its agent, in which `normalize_run_specific_paths` makes equal what differs between runs. Without that TLC finds a
  violation (with up to three turns asked both ways): a full rebuild, when another message has left no prefix, keeps the
  turn slots and the consumer slots behind the old text, the sets of what was made last keep a placeholder from being looked at again, and
  where a failed fill has given a turn its slot already, the lookup falls back to the KV at the old place.
* `WholeIsTrue` claims nothing once `late` is set, until the pool is emptied again. Seeding and snapshots file old deltas under new coordinates all the time;
  they are harmless because entries put by a snapshot have no embeddings, and because a dense prefill makes the delta of a flagged
  placeholder anew before it is filed. Without a flag it does not, and a consumer that is registered early on an answer of an earlier run has none.
  TLC shows what then happens (`WholeInAnyOrder` as an invariant of `anchors`): the late answer raises the flag, a dense generation gives the old delta, in the dictionary that run and snapshot share,
  its embeddings, and the next run, early again, restores it from the snapshot and files it under the place of today.
* `GatesAgree` leaves out the research task, whose table in `select_canonical_gate` has generic gates only, while the branches of
  `generate` take the browser's first. `orders` shows the first turn in which they differ: role 1 may only
  read, and its forced reply is an edit. The verifier's turn fares no better: after `verify_form` it is to say PASS, while the reply that is forced is the
  exec of pytest, which has not run, and is dropped on a turn without tools.
* `PlaceholdersReady` claims the condition of an agent current in the first round only: `update_condition_anchor`
  keeps the one it has cached for the message. The repository runs `arun` with one round.
* `PassIsTrue` leaves out the browser task in mode "off": with a read of `app.js` and `verify_form` in one
  message, the scan takes the text of the file for the result of the check
  (`openclaw_prefix.py` 717-725): it ends with PASS after a check that did not pass. Nothing is claimed of mode "short" where the canonical
  text of a forced call is dropped.

## 4. What is proved

For all values of the constants, with TLAPS:

* `RequestCommitProofs`: `TypeCorrect`, `NothingIsStranded`, `ViewsAreStable`, `QuietIsFlushed` for
  `BatchSpec`, the batches of `Graph.arun`, from `ScopeAssumption` (a bucket is none of the three markers,
  and the markers of the overlay differ). `NothingStranded` is inductive with
  `TypeOK`: only `Resolve` and `Finalize` change `states` and `active`, together.
  `ViewsAreStable` rests on `BaseChangesAtFlush`: the store changes only in a step
  after which no request is active, hence none is in `states`. `QuietIsFlushed` needs
  the invariant that a request with a state is running or has raised.
  `CopiesAreSnapshots`: that `BatchSpec` implements `SnapshotBatch` under
  the mapping of `RequestCommit`. It needs one invariant more, that a request
  without a state has an untouched overlay. Then every access of a request is a `Use` of the abstract
  batch, `finalize_request` is `Leave`, with a lemma (`CommitMaps`) that the store after a commit
  is the slot-by-slot merge of the effective views of those who used it, and every other step stutters.
* `AnchorPoolProofs`: every property that `pool` checks. The inductive invariant has the
  types, that no key is twice in a bucket, that only anchors have deltas, that the
  stored tensors of an input placeholder have the measured size, and the four invariants. That there is a victim to evict,
  the least of a non-empty window, is shown by the well-foundedness of `<` on the naturals.
* `SegmentMergeProofs`: `TypeCorrect`, `PositionsAreExact`, `ReusedIsWhole` for any `N`
  and any lengths, from `MergeAssumption`. The inductive invariant says: while
  the offsets are computed, `cum` is the sum of the length differences so far, that
  is, `start[i] + before[i]` is where the merged prefix will be; each result in the
  pool carries the positions of `meta`, and no index is there twice; when nothing is pending,
  every index is there; while concatenating, `total` is
  where segment `i` goes. A cardinality argument over `pending` and `results` shows
  that sorting yields one result per segment. `DeltasAreOwn` adds `SpanInv`: no text or message is empty, and what has
  been put has the place and length `meta` gives it. So none of the `N + 1` gaps around the placeholders is
  empty, the recursion of `Gaps` keeps them all (`GapsAreAll`), and its last `N` are the texts behind the placeholders.
* `GenerateTurnProofs`: `TypeCorrect`, `SplicesFit` and `TheReturnedIsLast`, for any messages, layouts and toolsets.
  The invariant relates the turn in progress to the list of its message: behind what
  was there before the turn, the list has at most one rejected response of a reuse, and then what
  the turn has produced so far; and every pooled branch was computed behind the prefix whose fingerprint it is filed under.
* `SidecarAnchorsProofs`: `WholeAlwaysTrue`, that `WholeIsTrue` always holds, for any agents, messages,
  texts and bounds, from `SidecarAssumption`. No order of answers and registrations is
  assumed. What makes it inductive is `FlagWithAnswer`: unless `late`, a registered consumer finds the flag of agent 0's
  answer, or no answer at all, since a registration on an old answer sets `late`, an answer raises the flag, seeding never lowers it, and a release
  blanks all. So a dense prefill that has the answer makes the delta anew, at the place it files it under. The lemmas
  on `Put`, `Contextual`, `WithoutPf` and `SnapshotPut` show that every other way into the pool gives an entry that is true or not whole.
  `TypeCorrect` needs the same invariant and three facts more: the pool has one entry per key, a dictionary shared with a
  snapshot is the run's own entry, and a prefix that is ready has a static text, so that every place filed has one.
* `GraphRunProofs`: `ConstructAcyclic`, `TypeCorrect`, `NodesRunOnce`, `InputsAreCurrent` and `PlaceholdersAreReady`, for any number of agents,
  requests, rounds and tries, from `NAssumption`, `RoundsAssumption`, `TriesAssumption`, `MasksAssumption` and `TeamsAssumption`
  (no programming expert in mmlu, used by the last theorem only). `check_cycle` is a search of `N` rounds: a round finds
  a node more or nothing, so what it has found is closed (`Reach`), and an edge is added only where it closes no cycle. Hence, of a set of nodes not
  yet passed one has no predecessor in it; the in-degree counts the predecessors not passed, such a node has 0 and is in the queue or running, and so
  all are passed when queue and running are empty: `EveryNodeOnce`. For the inputs, what a node has heard
  is what its passed predecessors put out; for the placeholders, every condition was made from a template prepared for
  the same agent, and a template names only what the predecessors and the node itself have prepared by then.

* `PrefixLifecycleProofs`: `TypeCorrect`, `LeftSpansAreExact`, `PrefixAnswersRequest` and `TurnsAreFresh`, for any static texts (also with several
  upstream placeholders or none), contents and messages, any `MaxTurn` and any `MinReuse`, from `PrefixAssumption`; and `SlotsKeepPrefix`,
  the same four for `ConsumerSlots`, each step of which is a step of the prefix or leaves it alone, and `SlotsAreCurrent` under `OneStatic`. The inductive invariant says that a prefix that is there, unless a trim is
  under way, is laid out for its own template (`LaidFor`), its base KV being that of the tokens up to the generation prompt, which a cut gets wrong; that
  a pass in progress for an append still finds the prefix it started from; and that the slots of tool results have the tokens of their content.
  It rests on how prompts of one static text compare (`IdsAgree`, `IdsGoOn`): they agree as far as both have turns, and the longer one goes on with a separator
  and a placeholder, where the shorter ends with the generation prompt. A text span that is not the last ends before a placeholder, hence within what
  two prompts share, unless it was the last one of the old prompt, and that one runs over the place of the next placeholder and so cannot be a span of the new
  one (`SegmentsAreExact`). An append keeps old placeholder records: the place of a placeholder and the number of the span behind it are
  the same in the longer prompt (`PlaceholdersStay`). An incremental append shares no more than the body of the old prompt (`SharedIs`), so the
  wrong KV of the generation prompt is never built upon.
  For the slots the invariant is `SlotsInv`, beside that of the prefix: every slot was made at the place of its placeholder in some prompt that its message is
  asked with, behind the tokens of that prompt, and every turn that has a content has a slot with it, since purges of slots come with the purges of turns.
  In all prompts of one static text a placeholder has one place, behind the same tokens (`PlaceIsOne`), so that whatever slot is found by its
  content is where the prompt has its placeholder now (`StillHere`), and no lookup has to fall back. Neither `made` nor `previous` is in the argument: what they
  keep from being made is there already.
* `AgentLoopProofs`: `TypeCorrect`, `GatesAlwaysAgree`, `PassIsAlwaysTrue`, `AnalysisIsGrounded` and `VerifyAlwaysSeesFix`, for any
  of the tasks and modes and any number of stray replies, failing calls and turns, from `LoopAssumption`. The first needs more than its statement:
  every call that is asked for, forced or bridged in is one the runtime can run on this workspace (`Proper`), and a command goes with
  reads alone (`Alone`), so that a result has a verdict iff its call is a verification (`Judged`).
  The two orders of the gates are compared task by task, for all tasks but the research one (`OrdersAgree` and the lemmas behind it): a gate of the one order is in the other
  behind gates that are not open with it. For two tasks that needs the past: a form that passed was issued, and `Tested`, a pytest run
  of the normalizer's agent that passed ran on a test file that is still usable, in the transcript or on disk.
  For `PassIsTrue` the invariant is `Verified`: what the results at hand say of a verification is what it said last,
  and a verifier whose tests passed has no call to run, as `PassEnds` shows that its only open gate is that of the final text. So nothing can happen between the pass and the claim.
  The browser task has gates that look at the last run only, and one verification is all its canonical replies ask for (`FormVerified`).
  `AnalysisGrounded` rests on `Grounded`: under canonical replies a message of agent 0 has reads alone or none, so that pairing the k-th read with the
  k-th result (`PairedRead`) is right there, although it is not in general. `VerifySeesFix` needs that a copy that is as new as the other is equal to it.

What a recursive function computes for every input is, in these proofs, shown from a least counterexample below a bound (`Climb` in `GraphRunProofs`,
`SegmentMergeProofs` and `PrefixLifecycleProofs`), which needs no induction rule with an operator parameter.

Only model-checked: all liveness (`CommittedEventually`, `RunsEnd`, `DenseEnds`, `ChainEnds`), which is out of the
prover's reach. Every invariant and action property that a passing run checks is a theorem.

## 5. What is not modelled

* Tensors, similarity, entropy and the softmax weights; the weight cache; decoding;
  metrics, logs and latency files.
* `_reconcile_prefix_kv_and_tokens` (the last-resort cut
  of a merged prefix and its ids to the same length): `ReuseIsWhole` shows
  that a reused prefix never needs it.
* The template placeholder bases, which are a function of the prefix; several agents that answer; the
  blend's choice between a pooled delta and those of the request (`SegmentMerge` takes the deltas of a placeholder as given).
* The direct writes to the class-level anchors (`gpt_chat.py` 1572), the count of missing deltas (1390) and
  the blend's reads of entries (`kvcomm_engine.py` 983): they concern the inside of an entry, which is below the buckets of the models.
* The tool KV backend and the semantic index, caches of single texts by content; the HTTP front end; the drivers in `.mjs`.
* Two requests for one node at a time, and a trim whose rebuild fails.
* Of the agent loop: the wording of prompts and hints, parsing and repair of generated text.

Seen while modelling, and not the subject of a run: `blend_failed` pairs the segments of the template with the results of the pool in the order they were
completed (`gpt_chat.py` 4873), so that the deltas of a placeholder that blended may be purged, and those of the one that did not stay
(TLC finds it with three placeholders); `_purge_node_anchor_deltas` and `_scrub_stale_anchor_deltas_for_message`
scrub the class-level anchors (`kvcomm_adapter.py` 827, 909), which the sidecar never fills, and leave the deltas in the run's anchors and in the
snapshots of other nodes; `FinalWriteCode` returns `early_response`, which only the `allow_kv_reuse` branch
assigns (`final_decision.py` 118, 267); the loop over `tries` in `arun` never retries, as its body breaks or
raises (`graph.py` 382).

## 6. Plan

In order of importance: the entries of an anchor
bucket in scoped requests (RequestCommit with AnchorPool's buckets, and the direct
writes to the class-level anchors); a trim whose rebuild fails, as a variant of `PrefixLifecycle` that
checks only what still holds; `SidecarAnchors` with a chain of agents that all answer.
