----------------------------- MODULE BenchGates -----------------------------
(***************************************************************************)
(* The benchmark tasks as the sidecar knows them, and the gates it puts in *)
(* front of every turn of an agent: bench_canonical.py and the flags       *)
(* force_... of KvcommAdapter.generate.                                    *)
(*                                                                         *)
(* A task is worked on by three agents in a row.  What agent a may do next *)
(* follows from its own transcript h and from the context c: whether this  *)
(* agent has already been seen to emit a browser call, whether Agent 0     *)
(* quoted the code under repair in its analysis, and whether the           *)
(* deliverable on disk is usable.                                          *)
(***************************************************************************)
EXTENDS Transcript

\* thread.txt does not fit in one tool result.
CONSTANT LongThread
ASSUME LongThreadAssumption == LongThread \in BOOLEAN

-----------------------------------------------------------------------------
(* The tasks. *)

\* What agent 0 has to read, in the order of the hints.
Sources ==
    [redact     |-> <<"contract">>,
     summarize  |-> <<"thread">>,
     find       |-> <<"q2_budget", "q3_sales", "q3_budget_v3">>,
     bugfix     |-> <<"pricing", "cart">>,
     config     |-> <<"config_loader", "app_config", "test_config">>,
     normalizer |-> <<"normalizer">>,
     quick      |-> <<"verify_three_items">>,
     browser    |-> <<>>,
     research   |-> <<>>,
     pipeline   |-> <<>>,
     web        |-> <<>>,
     sql        |-> <<>>,
     feature    |-> <<"exporters", "cli", "test_export">>,
     inbox      |-> <<"prefs", "urgent", "phishing", "ambiguous", "legal">>,
     cross      |-> <<"event", "render", "test_schema", "test_client">>,
     delegation |-> <<"billing", "notifications", "test_repairs">>,
     life       |-> <<"profile", "places", "verify_landmark", "verify_constraints">>,
     memory     |-> <<"release_notes", "flags", "test_flags">>,
     halluc     |-> <<"maintenance_notes", "verify_answer">>]

\* The files agent 1 has to leave behind.
Deliverables ==
    [redact     |-> <<"contract_redacted">>,
     summarize  |-> <<"design_summary">>,
     find       |-> <<"desktop_copy">>,
     bugfix     |-> <<"pricing">>,
     config     |-> <<"config_loader">>,
     normalizer |-> <<"tests">>,
     quick      |-> <<"quick_note">>,
     browser    |-> <<"app">>,
     research   |-> <<"report_client">>,
     pipeline   |-> <<"pipeline">>,
     web        |-> <<"explainer">>,
     sql        |-> <<"results">>,
     feature    |-> <<"exporters">>,
     inbox      |-> <<"triage">>,
     cross      |-> <<"event", "render">>,
     delegation |-> <<"billing", "notifications">>,
     life       |-> <<"itinerary">>,
     memory     |-> <<"flags", "handoff", "MEMORY">>,
     halluc     |-> <<"answer", "evidence">>]

AllTasks == DOMAIN Deliverables
Generic  == {"pipeline", "web", "sql", "feature", "inbox", "cross", "delegation",
             "life", "memory", "halluc"}
Main(t)  == Deliverables[t][1]

\* The file that is there and broken when the task starts.
Repairs == {"bugfix", "config", "browser", "research", "pipeline", "feature", "cross",
            "delegation", "memory"}
Start(t, f) == IF t \in Repairs /\ f \notin {"handoff", "MEMORY"} THEN "bad" ELSE "absent"

\* The research task delivers report_client.py, and is taken for the signup page
\* too: like the browser task it is given a broken app.js to repair.
Target(t)    == IF t = "research" THEN "app" ELSE Main(t)
WorkFiles(t) == ToSet(Deliverables[t]) \cup {Target(t)}

VerifiedByPytest == {"bugfix", "config", "normalizer", "feature", "cross", "delegation", "memory"}

\* The one generic task without canonical content writes a stub.
HasContent(t) == t # "web"

-----------------------------------------------------------------------------
(* The gates of an agent.  A gate is open when its flag is set; several may *)
(* be open at once.                                                         *)

Flag(gate, cond) == IF cond THEN {gate} ELSE {}
\* The places in Sources of the files that have not been read.
Missing(t, h) == {i \in DOMAIN Sources[t] : Sources[t][i] \notin CompletedReads(h)}

BrowserGates(a, h, c) ==
    LET explored == BrowserExplored(h) \/ c.emitted
        read     == "app" \in CompletedReads(h)
        applied  == EditReplaced(h, "app")
        issued   == Issued(h, "verify")
    IN     Flag("analyzer_done",    a = 0 /\ explored)
      \cup Flag("analyzer_browser", a = 0 /\ ~explored)
      \cup Flag("patcher_done",     a = 1 /\ applied)
      \cup Flag("patcher_edit",     a = 1 /\ read /\ ~applied)
      \cup Flag("patcher_read",     a = 1 /\ ~read)
      \cup Flag("verifier_pass",    a = 2 /\ FormPassed(h))
      \cup Flag("verifier_fail",    a = 2 /\ issued /\ ~FormPassed(h))
      \cup Flag("verifier_exec",    a = 2 /\ ~issued)

ConfigGates(a, h, c) ==
    LET fixed  == EditReplaced(h, "config_loader")
        read   == "config_loader" \in CompletedReads(h)
        passed == PytestPassed(h)
        ran    == LastPytestTurn(h) > 0
        edited == ran /\ EditReplaced(AfterLastPytest(h), "config_loader")
        reread == ran /\ "config_loader" \in CompletedReads(AfterLastPytest(h))
        failed == ~passed /\ ~CollectionFailed(h) /\ Issued(h, "verify") /\ ~edited
    IN     Flag("analyzer_done",  a = 0 /\ Missing("config", h) = {})
      \cup Flag("analyzer_read",  a = 0 /\ Missing("config", h) # {})
      \cup Flag("patcher_done",   a = 1 /\ fixed /\ passed)
      \cup Flag("patcher_pytest", a = 1 /\ fixed /\ ~passed)
      \cup Flag("patcher_read",   a = 1 /\ ~read)
      \cup Flag("edit_only",      a = 1 /\ read /\ ~fixed)
      \cup Flag("verifier_pass",  a = 2 /\ passed)
      \cup Flag("verifier_exec",
                a = 2 /\ ~passed /\ (CollectionFailed(h) \/ ~Issued(h, "verify") \/ edited))
      \cup Flag("verifier_edit",  a = 2 /\ failed /\ reread)
      \cup Flag("verifier_read",  a = 2 /\ failed /\ ~reread)

BugfixGates(a, h, c) ==
    LET fixed  == PricingFixed(h)
        read   == "pricing" \in CompletedReads(h) \/ PricingInContext(h, c.quoted)
        passed == PytestPassed(h)
        issued == Issued(h, "verify")
    IN     Flag("text_only",      a = 0 /\ Missing("bugfix", h) = {})
      \cup Flag("patcher_done",   a = 1 /\ fixed /\ issued)
      \cup Flag("patcher_pytest", a = 1 /\ fixed /\ ~issued)
      \cup Flag("patcher_read",   a = 1 /\ ~read)
      \cup Flag("edit_only",      a = 1 /\ read /\ ~fixed)
      \cup Flag("verifier_pass",  a = 2 /\ passed)
      \cup Flag("verifier_exec",  a = 2 /\ ~passed /\ (~issued \/ fixed))
      \cup Flag("verifier_edit",  a = 2 /\ ~passed /\ ~fixed /\ issued /\ read)
      \cup Flag("verifier_read",  a = 2 /\ ~passed /\ ~read /\ issued /\ ~fixed)

FindGates(a, h, c) ==
    LET searched == SpreadsheetSearchDone(h)
        copied   == CopyDone(h)
        passed   == \E r \in FirstAnswers(h, "verify") : r.kind = "passed"
    IN     Flag("analyzer_search", a = 0 /\ ~searched)
      \cup Flag("analyzer_read",   a = 0 /\ searched /\ Missing("find", h) # {})
      \cup Flag("extractor_done",  a = 0 /\ searched /\ Missing("find", h) = {})
      \cup Flag("writer_copy",     a = 1 /\ SourceLocated(h) /\ ~copied)
      \cup Flag("writer_done",     a = 1 /\ copied)
      \cup Flag("verifier_exec",   a = 2 /\ ~Issued(h, "verify"))
      \cup Flag("verifier_done",   a = 2 /\ passed)

SummarizeGates(a, h, c) ==
    LET read   == "thread" \in CompletedReads(h)
        passed == \E r \in AllResults(h) : r.kind = "passed"
    IN     Flag("read_tail",
                a = 0 /\ read /\ ThreadTruncated(h, LongThread) /\ ~TailRead(h))
      \cup Flag("extractor_done", a = 0 /\ ThreadComplete(h, LongThread))
      \cup Flag("writer_write",   a = 1 /\ ~SummaryWritten(h))
      \cup Flag("writer_done",    a = 1 /\ SummaryWritten(h))
      \cup Flag("verifier_exec",  a = 2 /\ ~passed)
      \cup Flag("verifier_done",  a = 2 /\ passed)

RedactGates(a, h, c) ==
    LET passed == \E r \in AllResults(h) : r.kind = "passed"
    IN     Flag("extractor_done", a = 0 /\ "contract" \in CompletedReads(h))
      \cup Flag("writer_write",   a = 1 /\ ~RedactionWritten(h))
      \cup Flag("writer_done",    a = 1 /\ RedactionWritten(h))
      \cup Flag("verifier_exec",  a = 2 /\ ~passed)
      \cup Flag("verifier_done",  a = 2 /\ passed)

\* Variant: the tests on disk do not count, only those this agent wrote.
NormalizerGatesOwnTests(a, h, c) ==
    LET read   == "normalizer" \in CompletedReads(h)
        ready  == TestsWritten(h)
        passed == PytestPassed(h)
    IN     Flag("analyzer_done",  a = 0 /\ read)
      \cup Flag("analyzer_read",  a = 0 /\ ~read)
      \cup Flag("patcher_read",   a = 1 /\ ~read)
      \cup Flag("patcher_pytest", a = 1 /\ ready /\ ~passed)
      \cup Flag("patcher_write",  a = 1 /\ read /\ ~ready)
      \cup Flag("patcher_done",   a = 1 /\ passed)
      \cup Flag("verifier_pass",  a = 2 /\ passed)
      \cup Flag("verifier_exec",  a = 2 /\ ~passed)

NormalizerGates(a, h, c) ==
    LET read   == "normalizer" \in CompletedReads(h)
        ready  == TestsWritten(h) \/ c.onDisk
        passed == PytestPassed(h)
    IN     Flag("analyzer_done",  a = 0 /\ read)
      \cup Flag("analyzer_read",  a = 0 /\ ~read)
      \cup Flag("patcher_read",   a = 1 /\ ~read)
      \cup Flag("patcher_pytest", a = 1 /\ ready /\ ~passed)
      \cup Flag("patcher_write",  a = 1 /\ read /\ ~ready)
      \cup Flag("patcher_done",   a = 1 /\ passed)
      \cup Flag("verifier_pass",  a = 2 /\ passed)
      \cup Flag("verifier_exec",  a = 2 /\ ~passed)

QuickNoteGates(a, h, c) ==
    LET probed == "verify_three_items" \in CompletedReads(h)
    IN     Flag("extractor_done", a = 0 /\ probed)
      \cup Flag("extractor_read", a = 0 /\ ~probed)
      \cup Flag("writer_done",    a = 1 /\ NoteWritten(h))
      \cup Flag("writer_write",   a = 1 /\ ~NoteWritten(h))
      \cup Flag("verifier_done",  a = 2 /\ "quick_note" \in CompletedReads(h))

\* The tasks without a bridge of their own.  Those that write several files
\* wait for all of them, the others for any successful write.
Explored(t, h) ==
    CASE t = "sql"              -> Issued(h, "schema")
      [] t = "cross"            -> Issued(h, "search") /\ Missing(t, h) = {}
      [] Sources[t] # <<>> /\ t # "cross" -> Missing(t, h) = {}
      [] OTHER                  -> \E r \in AllResults(h) : ~LooksFailed(r)
AllWritten(t, h) == ToSet(Deliverables[t]) \subseteq WrittenFiles(h)
Written(t, h) ==
    IF Len(Deliverables[t]) > 1 THEN AllWritten(t, h) ELSE WrittenFiles(h) # {}
GenericVerified(t, h) ==
    CASE t \in VerifiedByPytest -> PytestPassed(h)
      [] t = "research" -> OtherPytestPassed(h)
      [] OTHER -> Issued(h, "verify")

GenericGates(t, a, h, c) ==
    LET searched == t = "cross" => Issued(h, "search")
        unread   == Sources[t] # <<>> /\ Missing(t, h) # {}
    IN     Flag("schema_exec",     a = 0 /\ t = "sql" /\ ~Issued(h, "schema"))
      \cup Flag("analyzer_search", a = 0 /\ ~searched)
      \cup Flag("analyzer_read",   a = 0 /\ searched /\ unread)
      \cup Flag("extractor_done",  a = 0 /\ Explored(t, h))
      \cup Flag("writer_write",    a = 1 /\ ~Written(t, h))
      \cup Flag("writer_done",     a = 1 /\ Written(t, h))
      \cup Flag("verifier_exec",   a = 2 /\ ~GenericVerified(t, h))
      \cup Flag("verifier_done",   a = 2 /\ GenericVerified(t, h))

Gates(t, a, h, c) ==
    CASE t = "browser"    -> BrowserGates(a, h, c)
      [] t = "config"     -> ConfigGates(a, h, c)
      [] t = "bugfix"     -> BugfixGates(a, h, c)
      [] t = "find"       -> FindGates(a, h, c)
      [] t = "summarize"  -> SummarizeGates(a, h, c)
      [] t = "redact"     -> RedactGates(a, h, c)
      [] t = "normalizer" -> NormalizerGates(a, h, c)
      [] t = "quick"      -> QuickNoteGates(a, h, c)
      [] t = "research"   -> BrowserGates(a, h, c) \cup GenericGates(t, a, h, c)
      [] t \in Generic    -> GenericGates(t, a, h, c)

-----------------------------------------------------------------------------
(* Which gate is acted on.  generate walks its own ladder of branches to    *)
(* choose the tools and the hint of the turn; select_canonical_gate walks a *)
(* list of its own to choose the fixed text of the turn.                    *)

Editing == {"patcher_edit", "edit_only", "verifier_edit"}
Writing == {"writer_write", "patcher_write"}
TextOnly == {"analyzer_done", "extractor_done", "text_only", "patcher_done", "writer_done",
             "verifier_pass", "verifier_done", "verifier_fail"}

\* The branches of generate, in the order of the code.
BrowserLadder    == <<"analyzer_done", "analyzer_browser", "patcher_done", "patcher_edit",
                      "patcher_read", "verifier_pass", "verifier_fail", "verifier_exec">>
ConfigExplore    == <<"analyzer_done", "analyzer_read", "patcher_done", "patcher_pytest">>
ConfigRepair     == <<"verifier_pass", "verifier_exec", "verifier_edit", "verifier_read",
                      "patcher_read", "edit_only">>
BugfixLadder     == <<"text_only", "patcher_done", "patcher_pytest", "verifier_pass",
                      "verifier_exec", "verifier_edit", "verifier_read", "patcher_read",
                      "edit_only">>
FindLadder       == <<"analyzer_search", "analyzer_read", "extractor_done", "writer_copy",
                      "writer_done", "verifier_exec", "verifier_done">>
SummarizeLadder  == <<"read_tail", "extractor_done", "writer_write", "writer_done",
                      "verifier_exec", "verifier_done">>
RedactLadder     == <<"extractor_done", "writer_write", "writer_done", "verifier_exec",
                      "verifier_done">>
ReadLadder       == <<"analyzer_read">>
ExploreLadder    == <<"analyzer_search">> \o ReadLadder \o <<"schema_exec">>
GenericLadder    == <<"extractor_done", "writer_write", "writer_done", "verifier_exec",
                      "verifier_done">>
QuickNoteLadder  == <<"extractor_done", "extractor_read", "writer_write", "writer_done",
                      "verifier_done">>
NormalizerLadder == <<"analyzer_done", "analyzer_read", "patcher_done", "verifier_pass",
                      "patcher_pytest", "verifier_exec", "patcher_write", "patcher_read">>

Ladder(t) ==
    CASE t = "browser"    -> BrowserLadder
      [] t = "config"     -> ConfigExplore \o ConfigRepair
      [] t = "bugfix"     -> BugfixLadder
      [] t = "find"       -> FindLadder
      [] t = "summarize"  -> SummarizeLadder
      [] t = "redact"     -> RedactLadder
      [] t = "quick"      -> QuickNoteLadder
      [] t = "normalizer" -> NormalizerLadder
      [] t = "research"   -> BrowserLadder \o GenericLadder
      [] t \in Generic    -> ExploreLadder \o GenericLadder

\* The gates with a fixed text, in their order of priority.
Canonical == <<"extractor_done", "writer_write", "writer_done", "verifier_exec", "verifier_done">>
Priority(t) ==
    CASE t \in {"redact", "summarize", "research"} -> Canonical
      [] t \in Generic -> <<"analyzer_search", "analyzer_read", "schema_exec">> \o Canonical
      [] t = "find" -> <<"analyzer_search", "analyzer_read", "extractor_done", "writer_copy",
                         "writer_done", "verifier_exec", "verifier_done">>
      [] t = "bugfix" -> <<"text_only", "edit_only", "patcher_pytest", "patcher_done",
                           "verifier_exec", "verifier_pass">>
      [] t = "config" -> <<"analyzer_done", "edit_only", "patcher_pytest", "patcher_done",
                           "verifier_exec", "verifier_pass">>
      [] t = "normalizer" -> <<"analyzer_done", "patcher_write", "patcher_pytest",
                               "patcher_done", "verifier_exec", "verifier_pass">>
      [] t = "quick" -> <<"extractor_read", "extractor_done", "writer_write", "writer_done",
                          "verifier_done">>
      [] t = "browser" -> <<"analyzer_done", "patcher_edit", "patcher_done", "verifier_exec",
                            "verifier_pass", "verifier_fail">>

FirstOpen(order, open) ==
    LET hits == {i \in DOMAIN order : order[i] \in open}
    IN  IF hits = {} THEN "none" ELSE order[Min(hits)]

-----------------------------------------------------------------------------
(* What a gate asks for: the hint of the turn, and the canonical text. *)

FirstMissing(t, h) == Sources[t][Min(Missing(t, h))]
ReadsAsked(t, h) ==
    IF t = "config" THEN <<Call("read", FirstMissing(t, h))>>
    ELSE LET m == Missing(t, h)
             Nth(k) == CHOOSE i \in m : Cardinality({j \in m : j <= i}) = k
         IN  [k \in 1..Cardinality(m) |-> Call("read", Sources[t][Nth(k)])]
WritesAsked(t) ==
    [i \in 1..Len(Deliverables[t]) |->
        [Call("write", Deliverables[t][i]) EXCEPT !.good = HasContent(t)]]

Asked(t, gate, h) ==
    CASE gate = "analyzer_read" -> ReadsAsked(t, h)
      [] gate = "extractor_read" -> <<Call("read", "verify_three_items")>>
      [] gate = "read_tail" -> <<Call("read", "thread_tail")>>
      [] gate \in {"patcher_read", "verifier_read"} ->
           <<Call("read", IF t = "normalizer" THEN "normalizer" ELSE Target(t))>>
      [] gate \in Editing \/ (t = "research" /\ gate \in Writing) ->
           <<Call("edit", Target(t))>>
      [] gate \in Writing /\ t # "research" -> WritesAsked(t)
      [] gate = "analyzer_search"  -> <<Call("exec", "search")>>
      [] gate = "schema_exec"      -> <<Call("exec", "schema")>>
      [] gate = "writer_copy"      -> <<Call("exec", "copy")>>
      [] gate = "analyzer_browser" -> <<Call("browser", "host")>>
      [] gate \in {"patcher_pytest", "verifier_exec"} -> <<Call("exec", "verify")>>
      [] gate \in TextOnly \cup {"none"} -> <<>>

\* The canonical text of a gate; the hint of two gates asks for another one.
Fixed(gate) ==
    CASE gate \in {"analyzer_done", "extractor_done", "text_only"} -> "analysis"
      [] gate \in {"patcher_done", "writer_done"}  -> "done"
      [] gate \in {"verifier_pass", "verifier_done"} -> "pass"
      [] gate = "verifier_fail" -> "fail"
      [] OTHER -> "free"
Told(t, gate) ==
    CASE gate = "text_only" -> "quote"
      [] t = "quick" /\ gate = "verifier_done" -> "done"
      [] OTHER -> Fixed(gate)
=============================================================================
