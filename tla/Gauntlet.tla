------------------------------ MODULE Gauntlet ------------------------------
(***************************************************************************)
(* Suites of cases (gauntlet/*.py, benchmark.py): a file of cases is read, *)
(* each case is asked, imported or made on a memory of its own, one after  *)
(* the other, and the report compares what came out with what each case    *)
(* expects.  The documents that cases import may be edited meanwhile.      *)
(***************************************************************************)
EXTENDS FileIngest, Generation

CONSTANTS
    CaseFiles,    \* suites: lines that are a case, blank, or malformed
    MaxEdits      \* a bound

ASSUME SuiteBounds == MaxEdits \in Nat

VARIABLES
    suite,     \* the command that runs: its cases, their results, its report
    paths,     \* the document that each file holds
    edits      \* how many edits there were

gauntletVars == <<suite, paths, edits>>

NoSuite == [phase |-> "none"]

VerifiedKinds == {"VERIFIED", "VERIFIED_ARTIFACT"}

-----------------------------------------------------------------------------
(* One case.                                                                *)

Reply(status, answer) == [status |-> status, answer |-> answer, raised |-> FALSE]

Raised == [status |-> "error", answer |-> << >>, raised |-> TRUE]

\* The text of the goal's claim is the answer, if the claim is held.
AskReply(m) ==
    LET g == m.goals[1]
        verdict == Outcome(m)
    IN  Reply(verdict, IF verdict = "VERIFIED" \/ Holds(m, g.subject, g.relation, g.object)
                       THEN <<g.subject, g.relation, g.object>> ELSE << >>)

\* _run_text_case and _run_ask_case of a text: a session of its own that is
\* told the text and asked; one without a goal has no result.
TextReply(text, bundled, unasked) ==
    LET frames == Parsed(text)
        m == ApplyAll(IF bundled THEN WithBundle(EmptyMemory) ELSE EmptyMemory, frames)
    IN  IF Unclear(frames, bundled) THEN Reply("NEEDS_CLARIFICATION", << >>)
        ELSE IF m.goals = << >> THEN Reply(unasked, << >>) ELSE AskReply(m)

\* _run_case and _run_ask_case of facts: state_from_case, then the schemas
\* of the bundle that it lacks.
FactsReply(facts, goal, bundled) ==
    LET stated == FoldLeft(LAMBDA m, t :
                       LET schemas == IF t[2] \in m.schemas THEN m ELSE AddSchema(m, t[2], t[2] = "is_a")
                       IN  AddClaim(schemas, t[1], t[2], t[3], "ASSERTED", << >>),
                   AddSchema(EmptyMemory, "is_a", TRUE), facts)
        m == AddGoal(stated, [subject |-> goal[1], relation |-> goal[2], object |-> goal[3]])
    IN  AskReply(IF bundled THEN WithBundle(m) ELSE m)

\* _map_ingestion_status
IngestVerdict(status) ==
    CASE status \in {"IMPORTED", "PARTIAL"} -> "VERIFIED"
      [] status = "CONTRADICTORY" -> "CONTRADICTORY"
      [] OTHER -> "FAILED_ARTIFACT"

\* _run_ingest_case: a dry run on an empty memory.
DocumentReply(file, bundled) ==
    LET doc == paths[file]
        result == Ingested(doc, Resolved(doc, "", TRUE, bundled), EmptyMemory, bundled)
    IN  Reply(IngestVerdict(result.status), <<result.created>>)

\* _run_generate_case
SpecReply(spec) ==
    IF ~spec.valid THEN Raised ELSE Reply(Generated(spec, Selected(spec)).status, << >>)

\* _run_case; a benchmark knows texts and facts only.
CaseReply(c, kind, bundled) ==
    CASE c.mode = "text" -> TextReply(c.input, bundled, IF kind = "gauntlet" THEN "INCONCLUSIVE" ELSE "NO_RESULT")
      [] c.mode = "facts" -> FactsReply(c.input.facts, c.input.goal, bundled)
      [] c.mode = "ingest" /\ kind = "gauntlet" -> DocumentReply(c.input, bundled)
      [] c.mode = "generate" /\ kind = "gauntlet" -> SpecReply(c.input)
      [] OTHER -> Raised

-----------------------------------------------------------------------------
(* All of them.                                                             *)

Repeats(cases) == \E i, j \in DOMAIN cases : i < j /\ cases[i].id = cases[j].id

\* load_gauntlet_cases: nothing but cases, each with an id of its own, and of
\* a mode there is.  _load_cases: blank lines are skipped, and what a case
\* is is found out when it is run.
Loads(kind, lines) ==
    IF kind = "benchmark" THEN \A i \in DOMAIN lines : lines[i].line # "malformed"
    ELSE /\ \A i \in DOMAIN lines : lines[i].line = "case" /\ lines[i].mode # "unknown"
         /\ ~Repeats(lines)

CasesOf(lines) == SelectSeq(lines, LAMBDA l : l.line = "case")

\* GauntletEvaluator.evaluate, and "passed" of a benchmark's result.
Outcomes(c, r, kind) ==
    IF kind = "gauntlet" /\ c.expected \notin VerifiedKinds /\ r.status \in VerifiedKinds THEN "CRITICAL_FAIL"
    ELSE IF r.status # c.expected \/ (kind = "gauntlet" /\ r.status \in c.failures)
            \/ (c.answer # << >> /\ c.answer # r.answer) THEN "FAIL"
    ELSE "PASS"

\* compute_metrics and run_gauntlet; _summary and the command's exit.
ExitCode(outcomes) ==
    IF \E i \in DOMAIN outcomes : outcomes[i] = "CRITICAL_FAIL" THEN 2
    ELSE IF \E i \in DOMAIN outcomes : outcomes[i] = "FAIL" THEN 1 ELSE 0

GauntletInit == suite = NoSuite /\ paths = Documents /\ edits = 0

\* The command begins: it fails if the file cannot be loaded.
BeginSuite(kind, lines, bundled) ==
    /\ suite = NoSuite
    /\ suite' = IF Loads(kind, lines)
                THEN [phase |-> "running", kind |-> kind, bundled |-> bundled, file |-> lines,
                      cases |-> CasesOf(lines), results |-> << >>]
                ELSE [phase |-> "failed"]
    /\ UNCHANGED <<paths, edits>>

Recorded(c, reply) ==
    [suite EXCEPT !.results = Append(@, [id |-> c.id, status |-> reply.status, answer |-> reply.answer,
                                         read |-> IF c.mode = "ingest" THEN paths[c.input] ELSE << >>])]

\* Mutant: a case that raises is passed over.
PassedOver(c, reply) ==
    IF reply.raised THEN [suite EXCEPT !.cases = SelectSeq(@, LAMBDA d : d # c)] ELSE Recorded(c, reply)

\* An error in one case ends the command: it reports nothing of the others.
AfterCase(c, reply) == IF reply.raised THEN [phase |-> "failed"] ELSE Recorded(c, reply)

RunCase ==
    /\ suite.phase = "running" /\ Len(suite.results) < Len(suite.cases)
    /\ LET c == suite.cases[Len(suite.results) + 1]
       IN  suite' = AfterCase(c, CaseReply(c, suite.kind, suite.bundled))
    /\ UNCHANGED <<paths, edits>>

\* zip pairs cases and results from the first on.
Report ==
    /\ suite.phase = "running" /\ Len(suite.results) = Len(suite.cases)
    /\ LET outcomes == [i \in DOMAIN suite.cases |-> Outcomes(suite.cases[i], suite.results[i], suite.kind)]
       IN  suite' = [phase |-> "reported", outcomes |-> outcomes, exit |-> ExitCode(outcomes)] @@ suite
    /\ UNCHANGED <<paths, edits>>

\* Someone else writes another document to a file that a case reads.
Edit(file) ==
    /\ edits < MaxEdits /\ suite.phase = "running"
    /\ \E i \in DOMAIN suite.cases : suite.cases[i].mode = "ingest" /\ suite.cases[i].input = file
    /\ \E other \in DOMAIN Documents : paths' = [paths EXCEPT ![file] = Documents[other]]
    /\ edits' = edits + 1
    /\ UNCHANGED suite

GauntletNext ==
    \/ \E kind \in {"gauntlet", "benchmark"}, lines \in CaseFiles, bundled \in BOOLEAN : BeginSuite(kind, lines, bundled)
    \/ RunCase \/ Report
    \/ \E file \in DOMAIN Documents : Edit(file)

-----------------------------------------------------------------------------
\* What a case's own input makes true, whatever was run before it.
TrueStatus(c, r, kind, bundled) ==
    LET frames == IF c.mode = "text" THEN Parsed(c.input)
                  ELSE [i \in DOMAIN c.input.facts |-> Frame("claim", c.input.facts[i], {})] \o <<Frame("goal", c.input.goal, {})>>
    IN  IF c.mode = "text" /\ Unclear(frames, bundled) THEN "NEEDS_CLARIFICATION"
        ELSE IF Entailed(frames) = "noted" THEN IF kind = "gauntlet" THEN "INCONCLUSIVE" ELSE "NO_RESULT"
        ELSE Entailed(frames)

Consistent(doc, bundled) ==
    LET read == Extracted(doc, Resolved(doc, "", TRUE, bundled))
    IN  IsLoaded(doc)
        /\ \A i \in DOMAIN read : ValidFrame(read[i].frame)
        /\ ~Clash(FramesOfKind(read, "claim"))

\* A report is of every case of the file, each run once and in the order of
\* the file, and of nothing else; a command that could not run one of them
\* reports none.  One that exits with 0 had every case right: what its facts
\* or text entail, with the answer it has; a document that, as it was when
\* the case read it, is consistent; an artifact that holds.  No case is
\* VERIFIED against what its input entails, expected or not, and one that is
\* so unexpectedly makes a gauntlet exit with 2 (run_gauntlet, run_benchmark).
ReportsTellTruth ==
    suite.phase = "reported" =>
        /\ suite.cases = CasesOf(suite.file) /\ Loads(suite.kind, suite.file)
        /\ [i \in DOMAIN suite.results |-> suite.results[i].id] = [i \in DOMAIN suite.cases |-> suite.cases[i].id]
        /\ \A i \in DOMAIN suite.cases :
             LET c == suite.cases[i]
                 r == suite.results[i]
             IN  /\ suite.exit = 0 => r.status = c.expected /\ (c.answer # << >> => c.answer = r.answer)
                 /\ c.mode \in {"text", "facts"} => r.status = TrueStatus(c, r, suite.kind, suite.bundled)
                 /\ c.mode = "ingest" /\ r.status = "VERIFIED" => Consistent(r.read, suite.bundled)
                 /\ c.mode = "generate" =>
                      r.status = "VERIFIED_ARTIFACT" \/ ArtifactHolds(c.input, Selected(c.input), [status |-> r.status])
                 /\ suite.kind = "gauntlet" /\ c.expected \notin VerifiedKinds /\ r.status \in VerifiedKinds => suite.exit = 2
=============================================================================
