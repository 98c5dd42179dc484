------------------------------ MODULE GraphRun ------------------------------
(***************************************************************************)
(* How a graph of agents answers the requests of a batch: Graph.run and    *)
(* Graph.arun of src/KVCOMM/graph/graph.py, Node.execute and async_execute *)
(* of node.py, and what the agents' _process_inputs leave in the shared    *)
(* memory of LLMChat.                                                      *)
(*                                                                         *)
(* Every request works on its own deep copy of the graph (the record       *)
(* g[r]); the prefix templates, the condition caches and the response      *)
(* caches of the agents are class level and shared by all requests.  A     *)
(* request yields only while a node prefills or generates, so an execution *)
(* is a start and a finish, and the other requests run between the two.    *)
(* Outputs are abstracted to the round that produced them.                 *)
(***************************************************************************)
EXTENDS Integers, FiniteSets, Sequences, SequencesExt

CONSTANTS
  N,             \* number of agents, in the order of agent_names
  Requests,      \* the requests of a batch; every request has its own task
  NumRounds,     \* num_rounds of run and arun
  MaxTries,      \* max_tries of run
  Modes,         \* the ways to run explored: "run", "default", "allow_kv_reuse"
  Teams,         \* [domain, class, role]: the agents of the graph
  SpatialMasks,  \* sets of <<out, in>> pairs
  TemporalMasks, \* sets of <<out, in>> pairs
  MayFail        \* requests in which a node may raise or time out

ASSUME NAssumption == N \in Nat \ {0}
ASSUME RoundsAssumption == NumRounds \in Nat \ {0}
ASSUME TriesAssumption == MaxTries \in Nat \ {0}

Nodes == 1 .. N

\* The masks are matrices of the agents, without the decision node; the roles
\* of the prompt set of mmlu have no programming expert.
ASSUME MasksAssumption ==
  /\ SpatialMasks \subseteq SUBSET (Nodes \X Nodes)
  /\ TemporalMasks \subseteq SUBSET (Nodes \X Nodes)
ASSUME TeamsAssumption ==
  \A t \in Teams : t.domain = "mmlu" => \A n \in Nodes : t.role[n] # "Programming Expert"

Decision == N + 1
All == 1 .. N + 1

Never == -1    \* the output of a node that has not produced one

VARIABLES
  mode,      \* how the batch is run
  team,      \* domain, class and role of the nodes, the decision node last
  masks,     \* [spatial, temporal]: the masks of the graph
  built,     \* the edges construct_spatial_connection makes of the masks each time
  g,         \* g[r]: the copy of the graph request r runs on
  inited,    \* LLMChat._initialization
  template,  \* placeholders of the prefix template of a node
  condition, \* condition[p][r]: round whose output the condition KV stands for
  response   \* response[p][r]: rounds of the response KVs stored, in order

vars == <<mode, team, masks, built, g, inited, template, condition, response>>

Reach(edges, n) ==
  LET grow[k \in 0 .. N] ==
        IF k = 0 THEN {n}
        ELSE LET found == grow[k - 1]
             IN found \cup {e[2] : e \in {d \in edges : d[1] \in found}}
  IN grow[N]

\* check_cycle(new_node, {target}), which follows spatial successors only.
CheckCycle(spatial, new, target) == target \in Reach(spatial, new)

\* The k-th pair of potential_spatial_edges, out-node major.
Potential(k) == <<((k - 1) \div N) + 1, ((k - 1) % N) + 1>>

\* Variant: self loops are refused, longer cycles are not.
ConstructNoLoops(mask) == {e \in mask : e[1] # e[2]}

ConstructSpatial(mask) ==
  LET after[k \in 0 .. N * N] ==
        IF k = 0 THEN {}
        ELSE LET e == Potential(k)
                 before == after[k - 1]
             IN IF e \in mask /\ ~CheckCycle(before, e[2], e[1])
                  THEN before \cup {e}
                  ELSE before
  IN after[N * N]

ConstructTemporal(round, spatial) ==
  IF round = 0 THEN {}
  ELSE {e \in masks.temporal : ~CheckCycle(spatial, e[2], e[1])}

ConnectDecision(spatial) == spatial \cup {<<n, Decision>> : n \in Nodes}

Predecessors(edges, n) == {p \in Nodes : <<p, n>> \in edges}

InOrder(S) ==
  LET upTo[k \in 0 .. N] ==
        IF k = 0 THEN <<>>
        ELSE IF k \in S THEN Append(upTo[k - 1], k)
        ELSE upTo[k - 1]
  IN upTo[N]

\* The two constructions, the in-degrees and the queue that open a pass over
\* the nodes.
Open(rec, phase, round) ==
  LET spatial == built
      indeg == [n \in Nodes |-> Cardinality(Predecessors(spatial, n))]
  IN [rec EXCEPT !.phase = phase, !.round = round, !.spatial = spatial,
                 !.temporal = ConstructTemporal(round, spatial), !.indeg = indeg,
                 !.queue = InOrder({n \in Nodes : indeg[n] = 0}), !.ran = <<>>]

\* The decision node, connected to every node, is executed on its own.
OpenDecision(rec, phase) ==
  [rec EXCEPT !.phase = phase, !.spatial = ConnectDecision(rec.spatial),
              !.queue = <<Decision>>]

NewGraph ==
  [phase |-> "idle", round |-> 0, spatial |-> {}, temporal |-> {},
   indeg |-> [n \in Nodes |-> 0], queue |-> <<>>, node |-> 0, tries |-> 0,
   out |-> [n \in All |-> Never], mem |-> [n \in All |-> Never],
   seen |-> [spatial |-> {}, temporal |-> {}], ran |-> <<>>]

NoTemplate == [agents |-> {}, conditions |-> {}]

Init ==
  /\ mode \in Modes
  /\ team \in Teams
  /\ masks \in [spatial : SpatialMasks, temporal : TemporalMasks]
  /\ built = ConstructSpatial(masks.spatial)
  /\ g = [r \in Requests |-> NewGraph]
  /\ inited = [n \in All |-> FALSE]
  /\ template = [n \in All |-> NoTemplate]
  /\ condition = [p \in Nodes |-> [r \in Requests |-> Never]]
  /\ response = [p \in All |-> [r \in Requests |-> <<>>]]

HasDecision == Len(team.class) = N + 1

-----------------------------------------------------------------------------
(* The condition caches of the agents' _process_inputs.                    *)

TestsCode(n, p) ==
  /\ team.role[n] \notin {"Normal Programmer", "Stupid Programmer"}
  /\ team.role[p] # "Algorithm Designer"

MathConditions(n, p) == team.role[p] = "Programming Expert"

WikiConditions(n, p) ==
  /\ team.role[n] = "Wiki Searcher"
  /\ team.role[p] = "Knowledgeable Expert"

CodeConditions(n, p) == TestsCode(n, p)

\* Variant: the decision node forgets humaneval.
FinalConditionsMath(n, p) ==
  /\ team.domain = "gsm8k"
  /\ team.role[p] = "Programming Expert"

FinalConditions(n, p) ==
  \/ /\ team.domain = "gsm8k"
     /\ team.role[p] = "Programming Expert"
  \/ /\ team.domain = "humaneval"
     /\ TestsCode(n, p)

\* The placeholders {condition_p_current} in the template of a decision node.
FinalAsks(n, p) ==
  \/ /\ team.domain \in {"gsm8k", "mmlu"}
     /\ team.role[p] = "Programming Expert"
  \/ /\ team.domain = "humaneval"
     /\ TestsCode(n, p)

AgentConditions(n, p) ==
  \/ team.class[n] = "MathSolver" /\ MathConditions(n, p)
  \/ team.class[n] = "AnalyzeAgent" /\ WikiConditions(n, p)
  \/ team.class[n] = "CodeWriting" /\ CodeConditions(n, p)

IsFinal(n) == team.class[n] \in {"FinalRefer", "FinalWriteCode"}

\* Node n computes the condition cache of its predecessor p; its template has
\* the placeholder of it.
Conditions(n, p) == AgentConditions(n, p) \/ (IsFinal(n) /\ FinalConditions(n, p))
AsksCondition(n, p) == AgentConditions(n, p) \/ (IsFinal(n) /\ FinalAsks(n, p))

-----------------------------------------------------------------------------
(* The inputs of an execution: get_spatial_info and get_temporal_info skip *)
(* a predecessor without an output.                                        *)

SpatialInfo(rec, n) ==
  {<<p, rec.out[p]>> : p \in {q \in Predecessors(rec.spatial, n) : rec.out[q] # Never}}

TemporalInfo(rec, n) ==
  {<<p, rec.mem[p]>> : p \in {q \in Predecessors(rec.temporal, n) : rec.mem[q] # Never}}

\* The node has been executed: its successors lose one predecessor, and those
\* left with none join the queue.
AfterNode(rec, n) ==
  LET succ == {m \in Nodes : <<n, m>> \in rec.spatial}
      indeg == [m \in Nodes |-> IF m \in succ THEN rec.indeg[m] - 1 ELSE rec.indeg[m]]
  IN [rec EXCEPT !.node = 0, !.tries = 0, !.indeg = indeg,
                 !.queue = @ \o InOrder({m \in succ : indeg[m] = 0})]

Idle(r) == g[r].node = 0 /\ g[r].queue = <<>>
Ready(r) == g[r].node = 0 /\ g[r].queue # <<>>
Initializing(r) == g[r].phase \in {"init", "initDecision"}
Answering(r) == g[r].phase \in {"round", "decision"}

Begin(r) ==
  /\ g[r].phase = "idle"
  /\ g' = [g EXCEPT ![r] = IF mode = "allow_kv_reuse" THEN Open(@, "init", 0)
                                                      ELSE Open(@, "round", 0)]
  /\ UNCHANGED <<mode, team, masks, built, inited, template, condition, response>>

\* The initialization pass takes the next node: the prefix of a node that no
\* request has initialized is prefilled, which yields.
StartInit(r) ==
  /\ Ready(r) /\ Initializing(r)
  /\ LET n == Head(g[r].queue)
         taken == [g[r] EXCEPT !.queue = Tail(@), !.node = n, !.out[n] = Never]
     IN g' = [g EXCEPT ![r] = IF inited[n] THEN AfterNode(taken, n) ELSE taken]
  /\ UNCHANGED <<mode, team, masks, built, inited, template, condition, response>>

\* prepare_prefix_kv_segments commits the template and sets the flag.
FinishInit(r) ==
  /\ Initializing(r) /\ g[r].node # 0
  /\ LET n == g[r].node
         preds == Predecessors(g[r].spatial, n)
     IN /\ template' = [template EXCEPT ![n] =
                          [agents |-> preds,
                           conditions |-> {p \in preds : AsksCondition(n, p)}]]
        /\ inited' = [inited EXCEPT ![n] = TRUE]
        /\ g' = [g EXCEPT ![r] = AfterNode(@, n)]
  /\ UNCHANGED <<mode, team, masks, built, condition, response>>

EndInit(r) ==
  /\ Idle(r) /\ g[r].phase = "init"
  /\ g' = [g EXCEPT ![r] = IF HasDecision THEN OpenDecision(@, "initDecision")
                                          ELSE Open(@, "round", 0)]
  /\ UNCHANGED <<mode, team, masks, built, inited, template, condition, response>>

EndInitDecision(r) ==
  /\ Idle(r) /\ g[r].phase = "initDecision"
  /\ g' = [g EXCEPT ![r] = Open(@, "round", 0)]
  /\ UNCHANGED <<mode, team, masks, built, inited, template, condition, response>>

\* An execution resets the outputs of the node and collects its inputs; with
\* KV reuse it also materialises the conditions that are not cached yet for
\* this task (update_condition_anchor returns when the bucket has the task).
Start(r) ==
  /\ Ready(r) /\ Answering(r)
  /\ LET n == Head(g[r].queue)
         reset == [g[r] EXCEPT !.queue = Tail(@), !.node = n, !.out[n] = Never]
         seen == [spatial |-> SpatialInfo(reset, n), temporal |-> TemporalInfo(reset, n)]
     IN /\ g' = [g EXCEPT ![r] = [reset EXCEPT !.seen = seen,
                                               !.ran = Append(@, n)]]
        /\ condition' =
             IF mode = "allow_kv_reuse" /\ inited[n]
               THEN [p \in Nodes |-> [condition[p] EXCEPT ![r] =
                      IF @ = Never /\ Conditions(n, p)
                           /\ \E info \in seen.spatial : info[1] = p
                        THEN g[r].out[p] ELSE @]]
               ELSE condition
  /\ UNCHANGED <<mode, team, masks, built, inited, template, response>>

\* FinalWriteCode._process_inputs returns early_response, which it assigns
\* only with KV reuse: any other mode raises.
Raises(n) ==
  /\ n = Decision
  /\ team.class[n] = "FinalWriteCode"
  /\ mode # "allow_kv_reuse"

Finish(r) ==
  /\ Answering(r) /\ g[r].node # 0
  /\ ~Raises(g[r].node)
  /\ LET n == g[r].node
     IN /\ g' = [g EXCEPT ![r] = AfterNode([@ EXCEPT !.out[n] = g[r].round], n)]
        /\ response' = IF mode = "allow_kv_reuse"
                         THEN [response EXCEPT ![n][r] = Append(@, g[r].round)]
                         ELSE response
  /\ UNCHANGED <<mode, team, masks, built, inited, template, condition>>

\* Variant: one try too many.
RetryOnceMore(r) ==
  /\ mode = "run" /\ g[r].phase = "round" /\ g[r].node # 0
  /\ r \in MayFail
  /\ LET n == g[r].node
         tried == [g[r] EXCEPT !.tries = @ + 1]
     IN g' = [g EXCEPT ![r] = IF tried.tries <= MaxTries THEN tried
                                                         ELSE AfterNode(tried, n)]
  /\ UNCHANGED <<mode, team, masks, built, inited, template, condition, response>>

\* run catches what a node raises, tries again up to max_tries times, and
\* then goes on to the successors.
Retry(r) ==
  /\ mode = "run" /\ g[r].phase = "round" /\ g[r].node # 0
  /\ r \in MayFail
  /\ LET n == g[r].node
         tried == [g[r] EXCEPT !.tries = @ + 1]
     IN g' = [g EXCEPT ![r] = IF tried.tries < MaxTries THEN tried
                                                        ELSE AfterNode(tried, n)]
  /\ UNCHANGED <<mode, team, masks, built, inited, template, condition, response>>

\* arun passes on what a node raises, wait_for's timeout included, and so do
\* both for the decision node: the request ends there.
Fail(r) ==
  /\ g[r].node # 0
  /\ r \in MayFail \/ (Answering(r) /\ Raises(g[r].node))
  /\ mode # "run" \/ g[r].phase = "decision"
  /\ g' = [g EXCEPT ![r].phase = "failed", ![r].node = 0, ![r].queue = <<>>]
  /\ UNCHANGED <<mode, team, masks, built, inited, template, condition, response>>

\* Variant: the outputs are not remembered.
EndRoundForgets(r) ==
  /\ Idle(r) /\ g[r].phase = "round"
  /\ g' = [g EXCEPT ![r] =
          IF g[r].round + 1 < NumRounds THEN Open(@, "round", g[r].round + 1)
          ELSE IF HasDecision THEN OpenDecision(@, "decision")
          ELSE [@ EXCEPT !.phase = "done"]]
  /\ UNCHANGED <<mode, team, masks, built, inited, template, condition, response>>

\* Variant: the round is not advanced.
EndRoundAgain(r) ==
  /\ Idle(r) /\ g[r].phase = "round"
  /\ g' = [g EXCEPT ![r] = IF NumRounds > 1 THEN Open(@, "round", g[r].round)
                           ELSE [@ EXCEPT !.phase = "done"]]
  /\ UNCHANGED <<mode, team, masks, built, inited, template, condition, response>>

\* update_memory, then the next round, the decision node or the end.
EndRound(r) ==
  /\ Idle(r) /\ g[r].phase = "round"
  /\ LET kept == [g[r] EXCEPT !.mem = [n \in All |-> IF n \in Nodes THEN g[r].out[n]
                                                                    ELSE @[n]]]
     IN g' = [g EXCEPT ![r] =
          IF g[r].round + 1 < NumRounds THEN Open(kept, "round", g[r].round + 1)
          ELSE IF HasDecision THEN OpenDecision(kept, "decision")
          ELSE [kept EXCEPT !.phase = "done"]]
  /\ UNCHANGED <<mode, team, masks, built, inited, template, condition, response>>

EndDecision(r) ==
  /\ Idle(r) /\ g[r].phase = "decision"
  /\ g' = [g EXCEPT ![r].phase = "done"]
  /\ UNCHANGED <<mode, team, masks, built, inited, template, condition, response>>

Step(r) ==
  \/ Begin(r) \/ StartInit(r) \/ FinishInit(r) \/ EndInit(r) \/ EndInitDecision(r)
  \/ Start(r) \/ Finish(r) \/ Retry(r) \/ Fail(r) \/ EndRound(r) \/ EndDecision(r)

Next == \E r \in Requests : Step(r)

Spec == Init /\ [][Next]_vars

\* The event loop resumes every request, and wait_for ends every node.
FairSpec == Spec /\ \A r \in Requests : WF_vars(Step(r))

-----------------------------------------------------------------------------
(* Properties                                                              *)

Phases == {"idle", "init", "initDecision", "round", "decision", "done", "failed"}
Outputs == {Never} \cup 0 .. NumRounds - 1

TypeOK ==
  /\ inited \in [All -> BOOLEAN]
  /\ template \in [All -> [agents : SUBSET Nodes, conditions : SUBSET Nodes]]
  /\ condition \in [Nodes -> [Requests -> Outputs]]
  /\ response \in [All -> [Requests -> Seq(0 .. NumRounds - 1)]]
  /\ \A r \in Requests :
       /\ g[r].phase \in Phases
       /\ g[r].round \in 0 .. NumRounds - 1
       /\ g[r].spatial \subseteq Nodes \X All
       /\ g[r].temporal \subseteq Nodes \X Nodes
       /\ g[r].indeg \in [Nodes -> 0 .. N]
       /\ g[r].queue \in Seq(All) /\ Len(g[r].queue) <= N
       /\ g[r].node \in {0} \cup All
       /\ g[r].tries \in 0 .. MaxTries - 1
       /\ g[r].out \in [All -> Outputs]
       /\ g[r].mem \in [All -> Outputs]

\* The topological order of run and arun ("Execute nodes topologically"): in
\* every round a node is executed after its predecessors and once, and no
\* node is left out, whatever cycles the masks ask for.
EveryNodeOnce ==
  \A r \in Requests : Answering(r) =>
    LET ran == g[r].ran
    IN /\ \A i \in 1 .. Len(ran) :
            /\ \A j \in 1 .. i - 1 : ran[j] # ran[i]
            /\ \A p \in Predecessors(g[r].spatial, ran[i]) : \E j \in 1 .. i - 1 : ran[j] = p
       /\ Idle(r) => Nodes \subseteq {ran[i] : i \in 1 .. Len(ran)}

\* What an agent of arun is given: from every spatial predecessor the output
\* of this round, from every temporal one the output of the round before; the
\* decision node hears every agent's last output.
InputsCurrent ==
  \A r \in Requests : Answering(r) /\ g[r].node # 0 =>
    LET n == g[r].node
        spatial == Predecessors(g[r].spatial, n) \X {g[r].round}
        temporal == Predecessors(g[r].temporal, n) \X {g[r].round - 1}
    IN /\ g[r].seen.spatial \subseteq spatial
       /\ g[r].seen.temporal \subseteq temporal
       /\ mode # "run" => g[r].seen = [spatial |-> spatial, temporal |-> temporal]

\* Generation with KV reuse fills every placeholder of the template, which a
\* request may have had prepared by another: the newest response cache of an
\* agent is the one of this round, and the condition that is cached was made,
\* in the first round, from what the agent has just answered.
PlaceholdersReady ==
  \A r \in Requests :
    mode = "allow_kv_reuse" /\ Answering(r) /\ g[r].node # 0 =>
      LET n == g[r].node
      IN /\ inited[n]
         /\ template[n].agents = Predecessors(g[r].spatial, n)
         /\ \A p \in template[n].agents :
              response[p][r] # <<>> /\ Last(response[p][r]) = g[r].round
         /\ \A p \in template[n].conditions :
              condition[p][r] # Never /\ (g[r].round = 0 => condition[p][r] = 0)

\* Every request comes to an answer, or fails with the node that failed.
RunsEnd == \A r \in Requests : <>(g[r].phase \in {"done", "failed"})
=============================================================================
