----------------------------- MODULE Transcript -----------------------------
(***************************************************************************)
(* What the sidecar can tell of an agent's tool use from the messages of a *)
(* request: openclaw_prefix.py and bench_canonical.py scan the transcript  *)
(* with the same loop, which takes the assistant messages one by one,      *)
(* keeps the calls it is interested in, and pairs the k-th call kept with  *)
(* the k-th tool result that follows the message, whichever call that      *)
(* result answers.                                                         *)
(*                                                                         *)
(* A turn is an assistant message with tool calls and its results in the   *)
(* order of the calls.  A call is a tool applied to a file or a command;   *)
(* good says whether the content it carries is right.  A result keeps of   *)
(* its body only what some scan looks for: its kind, the file it names,    *)
(* and whether the file content it shows is right.                         *)
(***************************************************************************)
EXTENDS Integers, Sequences, SequencesExt

Call(tool, on) == [tool |-> tool, on |-> on, good |-> TRUE, at |-> "chain"]
Result(kind, on, good) == [kind |-> kind, on |-> on, good |-> good]

\* thread.txt read from the continuation offset is another read of thread.txt.
Path(c) == IF c.on = "thread_tail" THEN "thread" ELSE c.on

IsExec(c)    == c.tool = "exec"
IsBrowser(c) == c.tool = "browser"

\* What a scan keeps: the calls of some tools, on one file or on any.
On(file, tools) == [file |-> file, tools |-> tools]
Touches(c, target) == c.tool \in target.tools /\ target.file \in {"any", Path(c)}
Reads == On("any", {"read"})
Execs == On("any", {"exec"})

\* Error payloads; an edit that did not match comes back as one that quotes
\* the current contents of the file.
LooksFailed(r) == r.kind \in {"error", "current"}

Kept(turn, target) == {i \in DOMAIN turn.calls : Touches(turn.calls[i], target)}

\* The result a scan takes for the i-th call.
Paired(turn, target, i) == turn.results[Cardinality({j \in Kept(turn, target) : j <= i})]

Answered(turn, target) ==
    {[call |-> turn.calls[i], result |-> Paired(turn, target, i)] : i \in Kept(turn, target)}
Answers(h, target) == UNION {Answered(h[i], target) : i \in DOMAIN h}

\* The last turn with a call that a scan picks out, and the result of its last one.
\* runs has the positions of these calls in each turn.
LastTurn(runs) ==
    LET ran == {i \in DOMAIN runs : runs[i] # {}} IN IF ran = {} THEN 0 ELSE Max(ran)
LastResult(h, target, runs) ==
    LET i == LastTurn(runs) IN Paired(h[i], target, Max(runs[i]))

AllResults(h) == UNION {ToSet(h[i].results) : i \in DOMAIN h}

\* Variant: a read that failed counts as done.
IssuedReads(h) == {Path(p.call) : p \in Answers(h, Reads)}

CompletedReads(h) ==
    {Path(p.call) : p \in {q \in Answers(h, Reads) : ~LooksFailed(q.result)}}

Issued(h, command) ==
    \E i \in DOMAIN h : \E c \in ToSet(h[i].calls) : IsExec(c) /\ c.on = command

\* Of the commands, only the first result after the message is looked at.
FirstAnswers(h, command) ==
    {h[i].results[1] : i \in {j \in DOMAIN h :
        \E c \in ToSet(h[j].calls) : IsExec(c) /\ c.on = command}}

\* The exec calls are paired first; the pytest runs are then picked out.
RunsOf(h, command) ==
    [i \in DOMAIN h |-> {k \in Kept(h[i], Execs) : h[i].calls[k].on = command}]
PytestRuns(h) == RunsOf(h, "verify")
LastPytestTurn(h) == LastTurn(PytestRuns(h))
LastPytest(h) ==
    IF LastPytestTurn(h) = 0 THEN "none" ELSE LastResult(h, Execs, PytestRuns(h)).kind
\* Variant: a run that could not collect its tests counts as passed.
NoTestFailed(h) == LastPytest(h) \notin {"none", "failed"}

PytestPassed(h) == LastPytest(h) = "passed"
CollectionFailed(h) == LastPytest(h) = "broken"

\* The same scan where pytest is not the command that verifies the task.
OtherPytestPassed(h) ==
    /\ LastTurn(RunsOf(h, "pytest")) # 0
    /\ LastResult(h, Execs, RunsOf(h, "pytest")).kind = "passed"

\* The messages behind the latest pytest result.  What is left of its own
\* turn starts with tool results, which no scan attributes to a call.
AfterLastPytest(h) == SubSeq(h, LastPytestTurn(h) + 1, Len(h))

\* The verify_form runs are paired among themselves, with the first results of
\* the turn; a result without a sign of failure counts as a success.
FormScan == On("verify", {"exec"})
FormRuns(h) == [i \in DOMAIN h |-> Kept(h[i], FormScan)]
FormPassed(h) ==
    /\ LastTurn(FormRuns(h)) # 0
    /\ LastResult(h, FormScan, FormRuns(h)).kind \notin {"error", "failed", "broken"}

BrowserExplored(h) == \E p \in Answers(h, On("any", {"browser"})) : ~LooksFailed(p.result)

-----------------------------------------------------------------------------
(* Has the agent produced its deliverable? *)

AnswersOn(h, file, tools) == Answers(h, On(file, tools))

EditReplaced(h, file) ==
    \E p \in AnswersOn(h, file, {"edit", "write"}) : p.result.kind = "replaced"

PricingFixed(h) ==
    \E p \in AnswersOn(h, "pricing", {"edit", "read"}) :
       \/ p.call.tool = "edit" /\ p.result.kind = "replaced"
       \/ p.call.tool = "edit" /\ p.result.kind = "current" /\ p.result.good
       \/ p.call.tool = "read" /\ p.result.kind = "text" /\ p.result.good

\* The latest text of pricing.py, also the text of a failed read, hides what
\* Agent 0 quoted of it in the prompt.
PricingScan == On("pricing", {"edit", "read"})
PricingTexts(h) ==
    [i \in DOMAIN h |-> {k \in Kept(h[i], PricingScan) :
        h[i].calls[k].tool = "read" \/ Paired(h[i], PricingScan, k).kind = "current"}]
PricingInContext(h, quoted) ==
    IF LastTurn(PricingTexts(h)) = 0 THEN quoted
    ELSE LastResult(h, PricingScan, PricingTexts(h)).kind # "error"

TestsWritten(h) ==
    \E p \in AnswersOn(h, "tests", {"edit", "read", "write"}) :
       \/ p.call.tool = "write" /\ p.result.kind # "error" /\ p.call.good
       \/ p.call.tool = "edit" /\ p.result.kind = "current" /\ p.result.good
       \/ p.call.tool = "read" /\ p.result.kind = "text" /\ p.result.good

NoteWritten(h) ==
    \E p \in AnswersOn(h, "quick_note", {"edit", "write"}) :
       \/ p.call.tool = "write" /\ p.result.kind = "wrote" /\ p.call.good
       \/ p.call.tool = "edit" /\ p.result.kind = "replaced"
       \/ p.call.tool = "edit" /\ p.result.kind = "current" /\ p.result.good

SummaryWritten(h) ==
    \E p \in AnswersOn(h, "design_summary", {"edit", "write"}) :
       \/ p.call.tool = "write" /\ p.result.kind = "wrote" /\ p.call.good
       \/ p.call.tool = "edit" /\ p.result.kind \in {"replaced", "current"}

RedactionWritten(h) ==
    \E p \in AnswersOn(h, "contract_redacted", {"write"}) :
       p.result.kind = "wrote" /\ p.call.good

\* The writes of the generic tasks are taken from the results alone.
WrittenFiles(h) == {r.on : r \in {q \in AllResults(h) : q.kind \in {"wrote", "replaced"}}}

-----------------------------------------------------------------------------
(* The design thread is read in two parts when it does not fit in one result. *)
\* Variant: the continuation is not recognised as a read of the thread.
WholeThreadReads(h) == {p \in Answers(h, On("thread", {"read"})) : p.call.on = "thread"}
ThreadReads(h) == Answers(h, On("thread", {"read"}))
ThreadTruncated(h, long) ==
    long /\ \E p \in ThreadReads(h) : p.call.on = "thread" /\ p.result.kind = "text"
TailRead(h) == \E p \in ThreadReads(h) : p.call.on = "thread_tail"
ThreadComplete(h, long) ==
    "thread" \in CompletedReads(h) /\ (ThreadTruncated(h, long) => TailRead(h))

SourceLocated(h) == \E r \in AllResults(h) : r.kind = "located"
SpreadsheetSearchDone(h) == SourceLocated(h) \/ Issued(h, "search")
CopyDone(h) == \E r \in FirstAnswers(h, "copy") : r.kind # "error"
=============================================================================
