------------------------------ MODULE AgentLoop ------------------------------
(***************************************************************************)
(* One benchmark task worked on by a chain of three agents.  Each agent    *)
(* talks to the sidecar in turns: KvcommAdapter.generate looks at the      *)
(* transcript, opens gates, answers with text or tool calls (Generate),    *)
(* and the agent runtime runs the calls in the workspace and comes back    *)
(* with their results (Execute).  A turn without calls ends the agent.     *)
(*                                                                         *)
(* mode says where the reply of a gate comes from: "forced" decodes the    *)
(* canonical text of the gate through the model, "short" returns it        *)
(* without the model, and drops it when it is a tool call, "off" leaves    *)
(* every reply to the model.  The model does what the hint of the turn     *)
(* asks for, except in at most Strays turns of a run; at most Faults of    *)
(* the calls fail.  MaxTurns bounds the turns of an agent.                 *)
(***************************************************************************)
EXTENDS BenchGates

CONSTANTS Tasks, Modes, Strays, Faults, MaxTurns

ASSUME LoopAssumption ==
    /\ Tasks \subseteq AllTasks
    /\ Modes \subseteq {"forced", "short", "off"}
    /\ Strays \in Nat /\ Faults \in Nat /\ MaxTurns \in Nat

VARIABLES
    task, mode,
    agent,       \* 0..2, and 3 when the chain is over
    h,           \* transcript of the agent
    pending,     \* tool calls to run
    results,     \* results of the first of them
    ws,          \* the chain workspace, and the deliverable in the default one
    said,        \* the text each agent ended with
    emitted,     \* agents seen to emit a browser call
    strays, faults,
    lastVerify,  \* what the test run really said to this agent, last time
    seen         \* files agent 0 really got to read

vars == <<task, mode, agent, h, pending, results, ws, said, emitted, strays, faults, lastVerify, seen>>

Contents == {"absent", "bad", "good"}

\* The tasks whose files the sidecar keeps in step with the default workspace.
Mirrored == {"config", "browser", "research"}

TypeOK ==
    /\ task \in Tasks /\ mode \in Modes /\ agent \in 0..3
    /\ Len(h) <= MaxTurns
    /\ \A i \in DOMAIN h : Len(h[i].calls) = Len(h[i].results) /\ h[i].calls # <<>>
    /\ Len(results) <= Len(pending) /\ (Len(results) = Len(pending) => pending = <<>>)
    /\ ws.chain \in [WorkFiles(task) -> Contents]
    /\ ws.side \in Contents /\ ws.newer \in {"chain", "side", "same"}
    /\ said \in [0..2 -> {"none", "analysis", "quote", "done", "pass", "fail", "free"}]
    /\ emitted \subseteq 0..2
    /\ strays \in 0..Strays /\ faults \in 0..Faults
    /\ lastVerify \in {"none", "passed", "failed", "broken"}

Init ==
    /\ task \in Tasks /\ mode \in Modes
    /\ agent = 0 /\ h = <<>> /\ pending = <<>> /\ results = <<>>
    /\ ws \in [chain : {[f \in WorkFiles(task) |-> Start(task, f)]},
               side  : IF task \in Mirrored THEN Contents ELSE {"absent"},
               newer : {"chain"}]
    /\ said = [a \in 0..2 |-> "none"] /\ emitted = {}
    /\ strays = 0 /\ faults = 0 /\ lastVerify = "none" /\ seen = {}

-----------------------------------------------------------------------------
(* What generate does to the workspaces before and beside its reply. *)

\* A copy that is missing is made; else agents 0 and 1 only push a newer chain
\* copy out, and agent 2 pulls.
BrowserSync(w) ==
    CASE w.side = "absent" -> [w EXCEPT !.side = w.chain["app"], !.newer = "same"]
      [] w.side # "absent" /\ w.chain["app"] = "absent" ->
           [w EXCEPT !.chain["app"] = w.side, !.newer = "same"]
      [] w.side # "absent" /\ w.chain["app"] # "absent" /\ agent >= 2 /\ w.newer # "chain" ->
           [w EXCEPT !.chain["app"] = w.side, !.newer = "same"]
      [] w.side # "absent" /\ w.chain["app"] # "absent" /\ agent < 2 /\ w.newer = "chain" ->
           [w EXCEPT !.side = w.chain["app"], !.newer = "same"]
      [] OTHER -> w

\* Variant: the newer copy wins, whatever it holds.
NewestSync(w) ==
    CASE w.side = "absent" \/ w.newer = "chain" ->
           [w EXCEPT !.side = w.chain["config_loader"], !.newer = "same"]
      [] w.side # "absent" /\ w.newer = "side" ->
           [w EXCEPT !.chain["config_loader"] = w.side, !.newer = "same"]
      [] OTHER -> w

\* A fixed copy wins in either direction; two broken ones are left alone.
ConfigSync(w) ==
    CASE w.side = "absent" \/ w.chain["config_loader"] = "good" ->
           [w EXCEPT !.side = w.chain["config_loader"], !.newer = "same"]
      [] w.side = "good" /\ w.chain["config_loader"] # "good" ->
           [w EXCEPT !.chain["config_loader"] = "good", !.newer = "same"]
      [] OTHER -> w

\* A missing or unusable test file is replaced by the canonical suite.
RestoreTests(w) == [w EXCEPT !.chain["tests"] = "good"]

\* The redaction can always be made from the contract; the summary needs the
\* analysis of Agent 0.
EnsureDeliverable(w) ==
    IF task = "redact" \/ said[0] = "analysis"
    THEN [w EXCEPT !.chain[Main(task)] = "good"] ELSE w

Prepared(gate, open, calls) ==
    CASE task \in {"browser", "research"} -> BrowserSync(ws)
      [] task = "config" /\ gate \in {"patcher_pytest", "verifier_exec"} -> ConfigSync(ws)
      [] task = "normalizer" /\ (\/ gate \in {"patcher_pytest", "verifier_exec"}
                                 \/ \E c \in ToSet(calls) : IsExec(c)) -> RestoreTests(ws)
      [] task \in {"redact", "summarize"} /\ mode # "off" /\ "verifier_exec" \in open ->
           EnsureDeliverable(ws)
      [] OTHER -> ws

-----------------------------------------------------------------------------
(* The reply. *)

Reply(calls, text, stray) == [calls |-> calls, text |-> text, stray |-> stray]

\* Without a hint the model still knows its role.
Unprompted ==
    CASE agent = 0 /\ task \in {"bugfix", "redact", "summarize"} ->
           <<Call("read", FirstMissing(task, h))>>
      [] agent = 0 /\ task \in {"pipeline", "web"} -> <<Call("read", "input")>>
      [] agent = 1 /\ task = "find"  -> <<Call("exec", "copy")>>
      [] agent = 2 /\ task = "quick" -> <<Call("read", "quick_note")>>
      [] OTHER -> <<>>

\* Other things a model does: stop early, overwrite or edit the deliverable,
\* also in the default workspace, verify unasked, mix calls in one message.
Straying ==
    LET file  == Main(task)
        read  == Call("read", IF Sources[task] = <<>> THEN file ELSE Sources[task][1])
        check == Call("exec", "verify")
        wrong(c) == [c EXCEPT !.good = FALSE]
    IN  {<<>>, <<Call("write", file)>>, <<wrong(Call("write", file))>>,
         <<wrong(Call("edit", file))>>, <<check>>, <<check, read>>, <<read, check>>}
        \cup (IF task \in Mirrored
              THEN {<<[Call("edit", Target(task)) EXCEPT !.at = "side"]>>} ELSE {})
        \cup (IF task = "research" THEN {<<Call("exec", "pytest")>>} ELSE {})

ModelReplies(gate) ==
    {Reply(IF gate = "none" THEN Unprompted ELSE Asked(task, gate, h), Told(task, gate), 0)}
    \cup {Reply(calls, "free", 1) : calls \in IF strays < Strays THEN Straying ELSE {}}

Replies(gate, fixed) ==
    CASE fixed = "none" -> ModelReplies(gate)
      [] fixed # "none" /\ mode = "forced" -> {Reply(Asked(task, fixed, h), Fixed(fixed), 0)}
      [] fixed # "none" /\ mode = "short"  -> {Reply(<<>>, Fixed(fixed), 0)}

\* No tools, no calls.  With tools, three tasks have a reply replaced that does
\* not do what the gate is for.
Verifies(calls) == \E c \in ToSet(calls) : IsExec(c) /\ c.on = "verify"
WritesDeliverable(calls) ==
    LET tools == IF task = "redact" THEN {"edit", "write"} ELSE {"write"}
        hits  == {i \in DOMAIN calls : calls[i].tool \in tools}
    IN  hits # {} /\ calls[Min(hits)].tool = "write" /\ calls[Min(hits)].good

Bridged(gate, calls) ==
    CASE gate \in TextOnly -> <<>>
      [] task = "config" /\ gate \in Editing /\ calls = <<>> -> Asked(task, gate, h)
      [] task \in {"summarize", "redact"} /\ gate = "verifier_exec" /\ ~Verifies(calls) ->
           Asked(task, gate, h)
      [] task \in {"summarize", "redact"} /\ gate = "writer_write"
             /\ ~WritesDeliverable(calls) -> Asked(task, gate, h)
      [] OTHER -> calls

Context ==
    [emitted |-> agent \in emitted,
     quoted  |-> said[0] = "quote",
     onDisk  |-> ws.chain[Main(task)] = "good"]
Open == Gates(task, agent, h, Context)
LadderGate(open) == FirstOpen(Ladder(task), open)
FixedGate(open)  == IF mode = "off" THEN "none" ELSE FirstOpen(Priority(task), open)

\* The flags, and the two gates that follow from them, are computed once.
Generate ==
    /\ agent < 3 /\ pending = <<>> /\ Len(h) < MaxTurns
    /\ \E open \in {Open} :
         \E gate \in {LadderGate(open)}, fixed \in {FixedGate(open)} : \E r \in Replies(gate, fixed) :
             LET calls == Bridged(gate, r.calls)
             IN  /\ ws' = Prepared(gate, open, calls)
                 /\ strays' = strays + r.stray
                 /\ pending' = calls
                 /\ emitted' = emitted \cup
                        {a \in {agent} : \E c \in ToSet(calls) : IsBrowser(c)}
                 /\ IF calls # <<>> THEN UNCHANGED <<agent, h, said, lastVerify>>
                    ELSE /\ said' = [said EXCEPT ![agent] = r.text]
                         /\ agent' = agent + 1 /\ h' = <<>>
                         /\ lastVerify' = IF agent = 2 THEN lastVerify ELSE "none"
    /\ UNCHANGED <<task, mode, results, faults, seen>>

-----------------------------------------------------------------------------
(* The agent runtime. *)

\* What running one call leaves behind.
Outcome(w, result) == [ws |-> w, result |-> result]

DoRead(c) ==
    LET file    == Path(c)
        content == IF file \in DOMAIN ws.chain THEN ws.chain[file] ELSE "good"
    IN  Outcome(ws, IF content = "absent" THEN Result("error", file, FALSE)
                    ELSE Result("text", file, content = "good"))

Stored(c, content) ==
    IF c.at = "side" THEN [ws EXCEPT !.side = content, !.newer = "side"]
    ELSE [ws EXCEPT !.chain[c.on] = content,
                    !.newer = IF c.on = Target(task) THEN "chain" ELSE @]

DoWrite(c) ==
    Outcome(Stored(c, IF c.good THEN "good" ELSE "bad"), Result("wrote", c.on, c.good))

\* The right edit finds its old text only in the broken file.
DoEdit(c) ==
    LET content == IF c.at = "side" THEN ws.side ELSE ws.chain[c.on]
    IN  CASE content = "absent" -> Outcome(ws, Result("error", c.on, FALSE))
          [] content = "good" /\ c.good -> Outcome(ws, Result("current", c.on, TRUE))
          [] content = "bad" /\ c.good ->
               Outcome(Stored(c, "good"), Result("replaced", c.on, TRUE))
          [] content # "absent" /\ ~c.good ->
               Outcome(Stored(c, "bad"), Result("replaced", c.on, FALSE))

\* What a test command looks at: verify_form at the page, pytest at the client.
Checked(command) ==
    IF task = "research" /\ command = "verify" THEN {Target(task)} ELSE ToSet(Deliverables[task])
Verdict(command) ==
    IF \A f \in Checked(command) : ws.chain[f] = "good" THEN "passed" ELSE "failed"

Checks(c) == IsExec(c) /\ c.on \in {"verify", "pytest"}

DoExec(c) ==
    CASE Checks(c) -> Outcome(ws, Result(Verdict(c.on), c.on, TRUE))
      [] c.on = "copy" ->
           Outcome([ws EXCEPT !.chain["desktop_copy"] = "good"], Result("copied", "copy", TRUE))
      [] c.on = "search" -> Outcome(ws, Result("located", "search", TRUE))
      [] c.on = "schema" -> Outcome(ws, Result("text", "schema", TRUE))

DoFail(c) ==
    Outcome(ws, Result(IF Checks(c) THEN "broken" ELSE "error", c.on, FALSE))

Do(c, fails) ==
    CASE fails -> DoFail(c)
      [] ~fails /\ c.tool = "read"    -> DoRead(c)
      [] ~fails /\ c.tool = "write"   -> DoWrite(c)
      [] ~fails /\ c.tool = "edit"    -> DoEdit(c)
      [] ~fails /\ c.tool = "exec"    -> DoExec(c)
      [] ~fails /\ c.tool = "browser" -> Outcome(ws, Result("seen", c.on, TRUE))

\* The calls run one after the other, and each may fail; the results of all of
\* them come back together.
Execute ==
    /\ pending # <<>>
    /\ \E fails \in IF faults < Faults THEN BOOLEAN ELSE {FALSE} :
         LET c   == pending[Len(results) + 1]
             end == Do(c, fails)
             all == Append(results, end.result)
         IN  /\ ws' = end.ws
             /\ faults' = faults + IF fails THEN 1 ELSE 0
             /\ lastVerify' = IF Checks(c) THEN end.result.kind ELSE lastVerify
             /\ seen' = seen \cup {f \in {c.on} : agent = 0 /\ end.result.kind = "text"
                                                   /\ c.tool = "read"}
             /\ IF Len(all) = Len(pending)
                THEN /\ h' = Append(h, [calls |-> pending, results |-> all])
                     /\ pending' = <<>> /\ results' = <<>>
                ELSE results' = all /\ UNCHANGED <<h, pending>>
    /\ UNCHANGED <<task, mode, agent, said, emitted, strays>>

\* Variant: the refused message stays in the transcript, without a result.
GatewayKeeps ==
    /\ agent = 0 /\ results = <<>> /\ \E c \in ToSet(pending) : IsBrowser(c)
    /\ pending' = <<>> /\ h' = <<[calls |-> pending, results |-> <<>>]>>
    /\ UNCHANGED <<task, mode, agent, results, ws, said, emitted, strays, faults, lastVerify, seen>>

\* The gateway may refuse Agent 0 the browser and start it again from nothing.
GatewayReject ==
    /\ agent = 0 /\ results = <<>> /\ \E c \in ToSet(pending) : IsBrowser(c)
    /\ pending' = <<>> /\ h' = <<>>
    /\ UNCHANGED <<task, mode, agent, results, ws, said, emitted, strays, faults, lastVerify, seen>>

Next == Generate \/ Execute \/ GatewayReject

Spec == Init /\ [][Next]_vars
FairSpec == Spec /\ WF_vars(Generate) /\ WF_vars(Execute)

-----------------------------------------------------------------------------
(* Properties. *)

\* The gate whose fixed text is the reply is the gate the ladder acts on:
\* select_canonical_gate and the branches of generate order the same flags by
\* themselves, and where they differ a tool call is forced on a turn without
\* tools, or a text on a turn that asks for a tool.  The research task is the one
\* for which they do differ (RepliesAgree).
GatesAgree ==
    task # "research" /\ agent < 3 /\ pending = <<>> =>
        FirstOpen(Priority(task), Open) \in {"none", LadderGate(Open)}

\* For every task, the fixed reply of a turn is the one its hint asks for: the same
\* calls, and the same text when there are none.  It does not hold of the research
\* task, whose turns go by the branches of the browser family and whose replies go
\* by the gates of the generic tasks.
RepliesAgree ==
    agent < 3 /\ pending = <<>> =>
        \E gate \in {LadderGate(Open)}, fixed \in {FirstOpen(Priority(task), Open)} :
            \/ fixed = "none"
            \/ Asked(task, fixed, h) = Asked(task, gate, h) /\ Fixed(fixed) = Fixed(gate)

\* A verifier that ends with PASS last saw the verification pass, whatever it
\* did between its runs: the gates read that from the transcript.  The
\* quick note is only read, and the generic tasks without pytest only issue
\* the command.
PassIsTrue ==
    (/\ said[2] = "pass"
     /\ \/ task \in VerifiedByPytest \cup {"find", "redact", "summarize"}
        \/ task = "browser" /\ mode # "off")
    => lastVerify = "passed"

\* The forced analysis is only given when the agent really got to read every
\* file it speaks of, with a read failing at any point.
AnalysisGrounded ==
    said[0] = "analysis" /\ mode = "forced" /\ "analyzer_read" \in ToSet(Priority(task))
        => ToSet(Sources[task]) \subseteq seen

\* When a gate sends the agent to the tests, the workspace they run in holds
\* the fix if the newest copy does (form), or any of the two (config).
VerifySeesFix ==
    [][ /\ agent < 3 /\ pending = <<>> /\ task \in Mirrored
        /\ LadderGate(Open) \in {"patcher_pytest", "verifier_exec"}
        /\ IF task = "config" THEN "good" \in {ws.side, ws.chain[Target(task)]}
           ELSE "good" = IF ws.newer = "side" THEN ws.side ELSE ws.chain[Target(task)]
        => ws'.chain[Target(task)] = "good" ]_vars

\* The chain of agents ends when the model does what the hints say, through a
\* call that fails and a refusal of the browser; with canonical replies also
\* through one reply that goes astray, except for the tasks that repair by
\* edit.  (Of the short mode nothing is said: it drops the calls.)
ChainEnds ==
    [](\/ mode \in {"forced", "off"} /\ strays = 0
       \/ mode = "forced" /\ task \notin {"bugfix", "config", "browser", "research"})
        => <>(agent = 3)
=============================================================================
