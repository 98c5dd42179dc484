---------------------------- MODULE GenerateTurn ----------------------------
(***************************************************************************)
(* One turn of a consumer agent of the sidecar: generate_for_agent chooses *)
(* between dense_prefill and kv_reuse, tries again when the text of a tool *)
(* turn has no call, and stores each response (KVCOMM/llm/gpt_chat.py);    *)
(* what kv_reuse found out about the tool schema is kept for later turns:  *)
(* that it is stable, and its KV, to be spliced (sidecar/stores/           *)
(* tool_schema_branch.py). Agent 0 opens each run of the benchmark and     *)
(* makes the first measured one re-seed those branches                     *)
(* (_note_agent0_bench_register of sidecar/kvcomm_adapter.py).             *)
(*                                                                         *)
(* The prefix, the anchors and the text the model generates are inputs of  *)
(* this module: PrefixLifecycle, AnchorPool and SegmentMerge are about the *)
(* first two.                                                              *)
(***************************************************************************)
EXTENDS Integers, Sequences, FiniteSets, SequencesExt

CONSTANTS Messages,     \* message keys
          Layouts,      \* prefixes the node may have
          WithUpstream, \* those with the placeholder of an agent before
          Toolsets      \* tools of a request: schema, deliverable, more than one

NoTools == [schema |-> "", deliverable |-> "", full |-> FALSE]

ASSUME TurnAssumption ==
    /\ WithUpstream \subseteq Layouts
    /\ Toolsets \subseteq [schema : STRING \ {""}, deliverable : STRING, full : BOOLEAN]

VARIABLES pending,      \* _consumer_first_measure_dense_pending
          cleared,      \* _consumer_stable_cleared_for_measure
          registered,   \* _last_agent0_run_id is set
          stable,       \* _consumer_tool_schema_stable, per message
          branches,     \* tool_schema_branches, per message
          responses,    \* the node's response list, per message; the turns
                        \*   before are one response, Older
          job           \* the turn in progress

vars == <<pending, cleared, registered, stable, branches, responses, job>>

(***************************************************************************)
(* Requests, texts and the KV of a prompt.                                 *)
(***************************************************************************)
Modes == {"dense_prefill", "kv_reuse"}

(* The kinds of placeholder that may lack their deltas, and whether some    *)
(* delta does not fit the prefix any more.                                  *)
MissingDeltas == SUBSET {"turn", "other"}
StaleDeltas == BOOLEAN

Requests ==
    [message : Messages, prefix : Layouts, tools : Toolsets \cup {NoTools},
     preferred : Modes \cup {"auto"}, missing : MissingDeltas, stale : StaleDeltas]

(* A text with a call; one whose call does not parse; guideline spam; other. *)
Texts == {"call", "broken", "spam", "prose"}
Unusable(text) == text # "call"
HasMarkup(text) == text \in {"call", "broken"}

PrefixTokens(p) == <<<<p, 1>>, <<p, 2>>>>
SchemaTokens(tools) ==
    IF tools = NoTools THEN <<>> ELSE <<<<tools.schema, 1>>, <<tools.schema, 2>>>>
Prompt(j) == PrefixTokens(j.prefix) \o SchemaTokens(j.tools)

HasUpstream(p) == p \in WithUpstream

(* The KV of tokens a .. b of a prompt: each was computed behind the others. *)
Kv(prompt, a, b) == [i \in 1 .. b - a + 1 |-> SubSeq(prompt, 1, a + i - 1)]

(***************************************************************************)
(* Routing.                                                                *)
(***************************************************************************)
ExactBranches(message, tools) ==
    {b \in branches[message] : b.schema = tools.schema /\ b.deliverable = tools.deliverable}

ResolvedMode(req) ==
    CASE req.preferred = "dense_prefill" -> "dense_prefill"
      [] req.preferred = "auto" -> IF req.missing # {} THEN "dense_prefill" ELSE "kv_reuse"
      [] OTHER -> IF ~req.stale /\ req.missing \subseteq {"turn"} THEN "kv_reuse" ELSE "dense_prefill"

(* _should_force_dense_consumer_tool_schema *)
ForcesDense(req) ==
    /\ req.tools # NoTools
    /\ HasUpstream(req.prefix)
    /\ \/ pending
       \/ /\ ~stable[req.message]
          /\ IF req.tools.full
             THEN ExactBranches(req.message, req.tools) = {}
             ELSE req.missing # {}

Idle == [phase |-> "idle"]

Ask(req) ==
    /\ job = Idle
    /\ job' = [phase |-> "generate",
               how |-> IF ResolvedMode(req) = "kv_reuse" /\ ~ForcesDense(req) THEN "reuse" ELSE "dense",
               message |-> req.message, prefix |-> req.prefix, tools |-> req.tools,
               before |-> responses[req.message], cache |-> <<>>]
    /\ UNCHANGED <<pending, cleared, registered, stable, branches, responses>>

(***************************************************************************)
(* One generation (agen_kvcomm).                                           *)
(***************************************************************************)
(* The branch of the schema and the deliverable, or else of the schema.    *)
Candidates(j) ==
    LET exact == ExactBranches(j.message, j.tools)
    IN  IF exact # {} THEN exact ELSE {b \in branches[j.message] : b.schema = j.tools.schema}

(* Variant: a branch made behind any prefix. *)
FitsAnywhere(b, j) == TRUE

(* The fingerprint of the tokens left of the schema, and so their number.  *)
Fits(b, j) == b.left = PrefixTokens(j.prefix)

(* The schema forwarded behind the prefix, its last token with it. *)
Forwarded(prompt) == Kv(prompt, 1, Len(prompt) - 1)

(* The KV of a branch put behind the same, shortened prefix. *)
Spliced(short, b, j) ==
    short \o Kv(b.left \o SchemaTokens(j.tools),
                Len(b.left) + 1, Len(b.left) + Len(SchemaTokens(j.tools)))

(* The cache the model decodes from. *)
CacheOf(j, b) ==
    LET short == Kv(Prompt(j), 1, Len(PrefixTokens(j.prefix)) - 1)
    IN  IF j.tools = NoTools THEN short
        ELSE IF b # NoTools /\ Fits(b, j) THEN Spliced(short, b, j)
        ELSE Forwarded(Prompt(j))

(* What may come of a kv_reuse attempt: the slot of the agent before, the   *)
(* blend of each placeholder, the length of the merged KV against its ids.  *)
Events == [slot : BOOLEAN, blended : BOOLEAN, kv : {"exact", "short", "long"}, text : Texts]

StaysReuse(j, e) ==
    /\ j.how \in {"reuse", "reuse again"}
    /\ e.slot \/ ~HasUpstream(j.prefix)
    /\ e.blended
    /\ e.kv # "short"
    /\ e.kv = "long" => j.tools = NoTools \/ Candidates(j) # {}

BranchOf(j) ==
    [schema |-> j.tools.schema, deliverable |-> j.tools.deliverable, left |-> PrefixTokens(j.prefix)]

(* Variant: the new branch is put beside the old one of its key. *)
PutBeside(j) == branches[j.message] \cup {BranchOf(j)}

Put(j) == (branches[j.message] \ ExactBranches(j.message, j.tools)) \cup {BranchOf(j)}

(* A dense response with a call in it pools the KV of the schema. *)
Pooled(j, mode, text) ==
    IF mode = "dense_prefill" /\ j.tools # NoTools /\ HasMarkup(text)
    THEN [branches EXCEPT ![j.message] = Put(j)]
    ELSE branches

(* The response of an attempt, the list with it, and without its last.     *)
Exported(mode, text) == [text |-> text, mode |-> mode]
Appended(list, response) == Append(list, response)
Popped(list) == Front(list)

(* The next attempt after a text: none, or how, and whether the response    *)
(* is popped. A rejected first kv_reuse response stays, unless it was spam. *)
Done == [how |-> "", pop |-> FALSE]

(* Variant: the second dense attempt leaves the response of the first. *)
RetryDenseUnpopped(j) ==
    IF j.how = "dense" THEN [how |-> "dense again", pop |-> FALSE] ELSE Done

RetryDense(j) ==
    IF j.how = "dense" THEN [how |-> "dense again", pop |-> TRUE] ELSE Done

RetryReuse(j, mode, text) ==
    CASE j.how = "reuse" /\ mode # "kv_reuse" -> Done
      [] j.how = "reuse" /\ mode = "kv_reuse" /\ text # "spam" -> [how |-> "reuse again", pop |-> FALSE]
      [] OTHER -> [how |-> "dense", pop |-> TRUE]

Retry(j, mode, text) ==
    IF j.tools = NoTools \/ ~Unusable(text) THEN Done
    ELSE IF j.how \in {"dense", "dense again"} THEN RetryDense(j)
    ELSE RetryReuse(j, mode, text)

Attempt(e) ==
    /\ job.phase = "generate"
    /\ LET mode == IF StaysReuse(job, e) THEN "kv_reuse" ELSE "dense_prefill"
           retry == Retry(job, mode, e.text)
           list == Appended(responses[job.message], Exported(mode, e.text))
       IN  /\ \E b \in IF Candidates(job) = {} THEN {NoTools} ELSE Candidates(job) :
                 LET cache == IF mode = "kv_reuse" THEN CacheOf(job, b) ELSE <<>>
                 IN  job' = IF retry = Done
                            THEN [job EXCEPT !.phase = "done", !.how = mode, !.cache = cache]
                            ELSE [job EXCEPT !.how = retry.how, !.cache = cache]
           /\ responses' = [responses EXCEPT ![job.message] =
                               IF retry.pop THEN Popped(list) ELSE list]
           /\ branches' = Pooled(job, mode, e.text)
    /\ UNCHANGED <<pending, cleared, registered, stable>>

(* Between two turns, only that there are responses is kept in mind. *)
Older == [text |-> "call", mode |-> "dense_prefill"]
Kept(message) == [responses EXCEPT ![message] = IF @ = <<>> THEN @ ELSE <<Older>>]

(* Variant: only a turn of kv_reuse makes the schema stable. *)
MarksReuseOnly(j, calls) == calls /\ j.how = "kv_reuse"

(* _finalize_generation: a turn of kv_reuse whose answer has tool calls, or *)
(* the dense one that was asked for, makes the schema stable.               *)
Marks(j, calls) == calls /\ (j.how = "kv_reuse" \/ pending)

(* The answer has calls of the text, or of a bridge that replaces it. *)
Finish(calls) ==
    /\ job.phase = "done"
    /\ calls => job.tools # NoTools
    /\ stable' = [stable EXCEPT ![job.message] = @ \/ Marks(job, calls)]
    /\ pending' = (pending /\ ~Marks(job, calls))
    /\ responses' = Kept(job.message)
    /\ job' = Idle
    /\ UNCHANGED <<cleared, registered, branches>>

(* A generation raises, perhaps after it has pooled the schema KV, or the   *)
(* slots cannot be made again for a retry.                                  *)
Fail ==
    /\ job.phase = "generate"
    /\ \E pooled \in BOOLEAN :
          branches' = IF pooled
                      THEN Pooled(job, "dense_prefill", "call")
                      ELSE branches
    /\ responses' = Kept(job.message)
    /\ job' = Idle
    /\ UNCHANGED <<pending, cleared, registered, stable>>

(***************************************************************************)
(* Between two turns.                                                      *)
(***************************************************************************)
Unstable == [m \in Messages |-> FALSE]

(* Agent 0 registers: another run, or the one it had registered. *)
Register(mode, another) ==
    /\ job = Idle
    /\ registered' = TRUE
    /\ IF mode = "kv_reuse" /\ registered /\ another
       THEN /\ stable' = Unstable
            /\ pending' = ~cleared
            /\ cleared' = TRUE
       ELSE UNCHANGED <<stable, pending, cleared>>
    /\ UNCHANGED <<branches, responses, job>>

(* The model is unloaded: the shared memory and the registries go with it. *)
Release ==
    /\ job = Idle
    /\ stable' = Unstable
    /\ branches' = [m \in Messages |-> {}]
    /\ responses' = [m \in Messages |-> <<>>]
    /\ UNCHANGED <<pending, cleared, registered, job>>

Init ==
    /\ pending = FALSE /\ cleared = FALSE /\ registered = FALSE
    /\ stable = Unstable
    /\ branches = [m \in Messages |-> {}]
    /\ responses = [m \in Messages |-> <<>>]
    /\ job = Idle

Next ==
    \/ \E req \in Requests : Ask(req)
    \/ \E e \in Events : Attempt(e)
    \/ \E calls \in BOOLEAN : Finish(calls)
    \/ Fail
    \/ \E mode \in Modes, another \in BOOLEAN : Register(mode, another)
    \/ Release

(* A turn that has begun is carried on. *)
Spec == Init /\ [][Next]_vars /\ WF_vars(Next)

(***************************************************************************)
(* Properties.                                                             *)
(***************************************************************************)
Branch == [schema : STRING, deliverable : STRING, left : {PrefixTokens(p) : p \in Layouts}]
Response == [text : Texts, mode : Modes]

(* The registry has one branch per schema and deliverable, a finished turn  *)
(* at least its own response.                                               *)
TypeOK ==
    /\ {pending, cleared, registered} \subseteq BOOLEAN
    /\ stable \in [Messages -> BOOLEAN]
    /\ \A m \in Messages :
          /\ branches[m] \subseteq Branch
          /\ \A b, c \in branches[m] : b.schema = c.schema /\ b.deliverable = c.deliverable => b = c
          /\ \A k \in DOMAIN responses[m] : responses[m][k] \in Response
    /\ job.phase \in {"idle", "generate", "done"}
    /\ job.phase = "done" => responses[job.message] # <<>>

(* Whatever was tried, the last response of the list, which the next agent  *)
(* reads as agent_K_current, is the one the turn returns; of the rejected   *)
(* attempts at most one is left below it, of a first kv_reuse attempt that  *)
(* was no spam, and nothing of the turns before is gone.                    *)
ReturnedIsLast ==
    job.phase = "done" =>
        LET list == responses[job.message]
            added == SubSeq(list, Len(job.before) + 1, Len(list))
        IN  /\ IsPrefix(job.before, list)
            /\ Len(added) \in {1, 2}
            /\ Last(added).mode = job.how
            /\ Len(added) = 2 => added[1].mode = "kv_reuse" /\ added[1].text \in {"broken", "prose"}

(* The schema KV a generation decodes from was computed behind the tokens   *)
(* of its own prompt, though branches are kept across turns and runs while  *)
(* the prefix changes under them.                                           *)
SpliceBehindOwnPrefix ==
    job # Idle => \A k \in DOMAIN job.cache : IsPrefix(job.cache[k], Prompt(job))

(* "prefill them into the cache and decode from the last prompt token only" *)
(* (gpt_chat.py:2624): the cache of a generation is that of all tokens of   *)
(* its prompt but the last.                                                 *)
CacheIsWholePrompt ==
    job # Idle /\ job.cache # <<>> => job.cache = Kv(Prompt(job), 1, Len(Prompt(job)) - 1)

CalmRequests ==
    [message : Messages, prefix : WithUpstream, tools : {t \in Toolsets : t.full},
     preferred : {"kv_reuse"}, missing : {{}}, stale : {FALSE}]
CalmStep(req) ==
    \/ Ask(req) \/ Finish(TRUE)
    \/ Attempt([slot |-> TRUE, blended |-> TRUE, kv |-> "exact", text |-> "call"])

(* Dense tool turns do not go on for ever ("otherwise pending stays True    *)
(* and every tool turn falls back to dense", kvcomm_adapter.py:2618): when  *)
(* a consumer is asked for kv_reuse with one set of tools from some point   *)
(* on, and the model answers with calls, its turns become kv_reuse.         *)
DenseEnds ==
    \A req \in CalmRequests :
        <>[][CalmStep(req)]_vars => <>[](job.phase = "done" => job.how = "kv_reuse")

=============================================================================
