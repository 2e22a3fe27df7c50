# A TLA+ model of VCSE

VCSE answers a question by building explicit world-state memories, extending
them with proposals, judging every one with a stack of verifiers, and searching
over them; around that core it talks in sessions, executes agent tasks in
workspaces, acquires the claims it reasons with from configured sources,
documents and pipelines, promotes, certifies and seals them, keeps them in packs,
makes artifacts, and judges itself by suites of cases. This directory holds TLA+
modules that model these parts, TLC runs that check them on small instances, and
TLAPS proofs of the results that matter most.

    tlc -workers 2 -config MCReasoning.cfg MCReasoning     # any run: module and cfg
    tlapm ReasoningProofs.tla                              # any proof module

## 1. The system

| Component (src/src/vcse) | State it keeps | Operations | Interacts with | What is hard | What makes it correct |
|---|---|---|---|---|---|
| memory/ | claims and their key index, schemas, constraints, bindings, evidence, goals, contradictions | add, find, bind, record, walk dependencies, clone | everything | duplicates are dropped silently; nothing checks dependencies | one claim per triple; dependencies end in the case; append only |
| transitions/ | none | validate, apply on a clone | memory | a refused transition must leave no trace | only valid transitions change a memory |
| proposer/ | none | seven rules, a limit, a goal-first sort | memory, search | rules read truth status unevenly; the limit cuts before the sort | every proposal follows from its dependencies |
| verifier/ | writes contradictions into the memory it judges | four verifiers, averaged score, final status | memory, search | judging changes what is judged; average hides one failure | no false alarm; a conflict is final; VERIFIED is supported |
| search/ (beam, mcts) | frontier or tree, best node, counters | run | proposers, verifiers | three nested limits, best node judged at different times | bounded, ends, sound, gives up for a reason |
| engine.py, interaction/ | session memory and history | load a case, parse and apply frames, solve, fork, reset | search | history re-applied, forks share memory | the answer follows from the turns it was told |
| ingestion/ | the caller's memory | read, validate, apply, verify a document | memory, verifiers | invalid frames, dry runs, evidence paired by position | a document is imported whole or not at all |
| agent/ | plan, execution state, task file | plan, run, resume, save, six tools | workspace, search | failure, crash and resume; shared temporary names; bounds on expressions | each step done once, none skipped; a tool answers its step |
| workspace/ | a directory per workspace: manifest, tasks, sessions, event log; archives | create, delete, export, import | agent | deleted or imported while others write in it | what is in it is its own; an import restores what was exported |
| ledger/ | hash chain in one file | append, verify | trust, workspace | load-change-save by several writers, truncation | what was appended stays |
| trust/ | tiers, reports | evaluate, promote, certify | ledger, packs | climbing several tiers, conflicts, half-written reports | no tier without its evidence |
| cake/ | snapshots, packs | fetch, extract, update, retry | packs, knowledge | snapshot before use, crash between writes | every fetched claim is ingested |
| packs/ | installed directories, registry, index, runtime stores | install, resolve, activate, merge, certify, freeze | everything that reads packs | directories and registry written apart; stale index | registry and disk agree; frozen packs stay |
| packs/integrity.py, integrity/, distribution/ | hashes, manifests, signatures, bundles | seal, sign, verify, bundle | packs | taken and written one after the other while a pack is edited | what verifies was vouched for as it is |
| ingest/ | mappings, candidate packs, state files, reports | ingest, incrementally or not | packs | documents read several times while they change; one bad document of many | a state file describes its pack; a report accounts for every document |
| pipeline/, compiler/ | output directories, the pack index | run | packs | shared root, half-made packs of other runs, failures caught by the wrong stage | PASSED means the pack is there and no other was touched |
| compression/ | seven files beside a pack | compress, verify, decompress, activate | packs, query | files written one by one into a pack in use, trusted for being there | what is VALID restores the claims |
| query/, inference/, cli.py `ask` | none; the pack of promoted claims | ask, plan, infer, promote | packs, stores | many stages with rules of their own, two loads of an edited pack | a fact comes from the pack |
| cmcf/, runtime/, proof/, reasoning/, policy/ | a .csrf file and a proof index | compile, build, query, reason, why | packs | saves in place, a file read twice, a policy | an answer is of one version and its policy |
| generation/ | an artifact | select templates, make, judge, repair, rank | memory | repaired with templates nobody asked about | VERIFIED means the content meets the specification |
| gauntlet/, benchmark.py | results, report | load a suite, run its cases, compare | all of the above | documents change meanwhile, one case fails | a report is of its cases |
| api/, cli.py | none | one handler per operation | all of the above | timeout while the work goes on | - |
| render/, index/, ontology/, conflict/, ... | none that outlives a call | pure functions, reports, encodings | - | - | tested directly |

No part of the source uses threads or locks; concurrency comes from several
processes on the same files, from the API server, and from the freedom the
scores of a search leave.

## 2. The modules

```
WorldState   the memory and its operations            (operators)
  Verifier   the four verifiers, the stack, the final evaluator
    Proposers  rules as sets of instances, transitions, apply
      Reasoning      one memory under every order of steps
        ReasoningProofs   type, well-founded proofs, bindings, growth,
                          soundness, alarms, verified answers, final conflicts
      Conversation   sessions that are told and asked
        AgentTools     the planner's templates and the six tools
        FileIngest     importing a document into a memory
          Gauntlet       suites of cases; with Generation
      Search         what any search backend promises
      SearchBase     the case, the limits, the proposal list, the score
        BeamSearch   search/beam.py turn by turn
        MonteCarlo   search/mcts.py turn by turn       both implement Search: MCSearch
PackCompression   vcse compress: numbers for names, seven files, their readers
  PackAnswers  vcse ask, planned or not, inference, infer promote
    PackProofs     numbers stand for the claims, facts come from the pack
                 these and Reasoning: MCReasoning
TaskRecord     what the saved record of an agent task promises
TaskExecution  executor, run and resume commands, task file; implements it
  TaskProofs     the record tells the truth, and the implementation; of
                 Generation: verified artifacts hold; of FileIngest:
                 imports are whole
Workspace      a workspace's directory and its archive
  WorkspaceProofs  a workspace is its own
Generation     artifacts of templates
                 these, AgentTools and Gauntlet: MCTask
Acquisition    CAKE runs over snapshots and packs
DocumentIngest vcse ingest: documents, state files, reports
PackPipeline   vcse pipeline run: compiler, index, mutation check   all three: MCAcquisition
  AcquisitionProofs  known snapshots are whole, frozen packs stay, packs are
                     traceable and lose nothing, acquisitions, ingests and
                     pipelines report what they made
Ledger         events, links, append, verify       (operators)
TrustLadder    conflicts, clusters, tiers, the certification gate (operators)
  TrustPromotion   both composed: trust promote and trust certify
    MCTrust        its model values
CompiledRuntime  records compiled, indexed, queried, reasoned over
  TrustProofs    of TrustPromotion: readable ledgers verify, promotions are
                 recorded, contradictions are caught, certified packs pass;
                 of CompiledRuntime: answers come from what was asked
PackRegistry   install, uninstall, resolve over registry.json
  LibraryProofs  records of whole packs, dependencies first, of PackWorkflow
                 that a merge can be undone, and of PackSealing that verdicts
                 are vouched for
PackWorkflow   certify, merge, lifecycle over pack directories
  RuntimeStore     the SQLite copy of a pack, beside the workflow
PackSealing    hashes, signatures, bundles
                 MCTrust and these: MCLibrary
OrderProofs    lemmas about orders and numbers: a total order of finitely many
               numbers them, finite sets have least members, members of a set of
               numbers are counted without gaps; the other proof modules use them
```

### WorldState

A memory is a record. A claim id is the position of the claim in insertion
order, so the key index of the code is a lookup in that sequence; a
contradiction, stored by the code under each of its elements, is one record with
a set of elements. Names are taken as already normalised, qualifiers (never used
inside the engine) and ids of contradictions are left out. `AddClaim` keeps the
old claim when the triple is present, as `add_claim` does.

### Verifier

Judging changes the judged: `VerifiedMemory(m)` is the memory after the stack has
recorded what it found, `StackScore(m)` the average in fortieths,
`StackPassed(m)` the conjunction, `Judgement(m)` the final status. The first
constraint with a non-numeric value ends the scan of the constraints
(`ScannedConstraints`), and the goal checker reads the contradictions that the
verifiers before it recorded. Only the first goal is answered.

### Proposers

Each rule is a set of index tuples (`TransitivePairs`, `SubjectPairs`, ...) and
the transition a tuple stands for (`TransitiveStep`, ...), so that `Reasoning`
can take any instance and `BeamSearch` can order them. The guards are those of
the code, including where it does not look: transitive premises, implications
and rewritten claims may have any truth status, and the object of an `is_true`
premise is ignored.

### Reasoning

One memory. `Load` actions build a case as `state_from_case` and the frame
applicator do; `Start` ends loading; after that any rule instance may be applied
and the stack may run at any time (`RunVerifiers`). A memory of any search node,
rollouts of MCTS included, is a state of this specification, which is why its
properties are about all backends at once.

### Search, SearchBase, BeamSearch and MonteCarlo

`Search` is the abstract promise: hold a set of memories, extend it with
proposals judged on the spot, forget any of them, answer with a memory and the
verdict on that same memory. `SearchBase` is what the backends share: the case,
the limits, the ordered proposal list and the score. The scores are scaled by 40
and stay integers. TS3 is left out: it observes, and its one effect needs a
proposal that leaves the version of a memory unchanged, which no built-in rule
makes.

`BeamSearch` has one action per turn of the three nested loops of `run`:
`BeginLevel`, `Visit` (return a verified node, skip a contradictory or too deep
one, or propose), `Expand` (apply one proposal and drop, keep or return the
child), `ExpandEnd`, `EndLevel`, `Finish`. `cut` is a history variable: some
limit discarded something.

`MonteCarlo` has one action per turn of `_select`, `_simulate` and `run`. A tree
is a sequence of nodes, each with its parent, its untried proposals, its visits
and its total reward. UCB1 compares real numbers; the descent may take any child
that no sibling beats both in mean reward and in few visits, and these are the
only ones UCB1 can prefer, whatever the exploration weight.

`MCSearch` composes both: a configuration names its backend. The refinement
mapping sends the memories held (nodes, tree, rollout) and the one that was
judged for the answer to the abstract set. For the tree search that is the
memory at the end of a rollout and not the one it returns: mcts.py:109 pairs the
leaf's memory with the verdict on the rollout below it, whose memory is dropped.
A caller that looks for the goal in the returned memory need not find it
(tests/test_mcts_search.py:52 looks at the status only).

### Conversation

A session turn by turn. A text is a list of statements, a statement a form and two
names; a form stands for all texts that the normaliser and the patterns treat
alike. `Parsed` is `Session.ingest` up to the frames: `FramesOf` a statement,
`IsQuestion`, and the last class claim of a question that has no goal. `Solve` is
`Session.solve`: the schemas of the bundle, the frames of every turn once more
(`ApplyAll`), then clarification (`Unclear`) or a search on a copy. `Outcome` is
what a search answers that no limit cuts. `Open`, `Ingest`, `Reset` and `Fork` are
the other methods. A turn keeps the bundle it was told with and an answer goes by
the bundle of the last turn (`ActiveBundle`), so a fork, which has its parent's
memory and turns but no bundle of its own, reasons with it until its next turn.
`audience` and `applied` are history: which turns a memory's sessions were told,
and which were applied to it.

Seen here and kept out of the properties: the words of a question are looked for
inside other words ("Paris" holds an "is"), and make the statement a goal; "Can
Socrates die?" alone keeps its capital, is not the subject of the facts and is
INCONCLUSIVE; the value of a session's constraint is text, so it is never
checked, ">=" is read as "=", and "=" is rejected; the frames are applied before
the session asks back; the first goal of all turns is answered for ever.

### AgentTools

`Template` is the planner: the first template that has one of the words of the
task makes one step. `Executed` is `ToolRegistry.execute` for the six tools: a
query and the two claim tools search a memory of their own (`QueryTool`,
`AssertTool`, `VerifyTool`), `MathTool` walks the expression for its limits before
it computes fractions, `ReadTool` and `WriteTool` refuse unsafe paths. `RunOrder` is
a planned step, `RunVerify` one a caller makes. A float's precision
is left out.

Seen here and kept out of the properties: a claim that follows from the facts but is none of them is
not verified; the planner gives `verify_claim` no facts, so its answer is always
False, and asserted claims are always verified; a step is COMPLETED whatever its
tool answered; the query's text is ignored, and its goal dropped when the task has
no inputs; "%" is no character of an expression.

### TaskRecord and TaskExecution

A command (`agent run`, `agent resume`) is a process of its own. `run` saves the
untouched plan, executes it and saves the outcome; `resume` loads plan and state,
executes what remains and saves. A plan is a function from the steps it still has
to their status, so its domain shrinks when a tail is dropped. `job[p]` is what
process p holds in memory: the plan, the execution state, the steps completed
before it (`before`), those still to do (`todo`) and those it reached
(`updated`). A step is one action with the outcomes of `execute_step`: the tool
returns (`CompleteStep`), the tool raises (`FailStep`), the validator rejects the
step and the exception takes the failure with it (`RejectStep`). `Conclude` is the
end of `execute_plan` or `resume_task`.

A save is the three calls of `_write_json`: open (which truncates), write,
rename. File names are bound to inodes, so that a process with the temporary
file open keeps writing to it after another has renamed it. `Crash` drops what a
process holds between any two actions; files survive it (power loss, where
unsynced writes may vanish, is not modelled). `starts` bounds the commands.

`TaskRecord` is the promise: the record stays as it is, is submitted afresh, or
moves by one whole attempt. The refinement mapping reads the file: a step absent
from the plan is `DROPPED`. It holds for one command at a time, so commands either
run `alone` or may overlap, which a behaviour settles at its start, and the mapping
keeps the abstract record absent in the second case.

The planner's templates make plans of one step; longer plans come from callers
of `execute_plan` and `save_task` (as in tests/test_agent_executor.py and
tests/test_workspace_persistence.py), and only they can contain a step the
validator rejects. With one step, everything said of failures and crashes
remains, and dropped tails cannot occur.

### Workspace

`place` is the directory: whether it is there, workspace.json, the version of each
task, the sessions, the log of events. A workspace exists when workspace.json
does, which none of the writers in it makes. `order` is what each process does.
Creating makes the directories, then the manifest; deleting (`RemoveEntry`) takes
the entries one after the other in any order; exporting reads tasks, sessions and
events separately and renames an archive into place; importing writes each task,
each session and each event, after deleting what is there if it is forced to.
`SaveTask` and `AppendEvent` are the writes of `agent run` and `agent resume`, which
may begin before a deletion and end after it. A file is written whole here, since
two writers of one file are `TaskExecution`'s subject. `GiveUp` is a death, or a
failure on what another process changed.

`origin`, `troubled` and `restored` are history: what was written since the
manifest was, whether something happened that the code does not cover, and the
last import or export with what it found. `troubled` has four causes: a deletion
was cut off, something was saved where there was no workspace any more, a
workspace was made or deleted under an import, or the archive is of such a one.

Seen here and kept out of the properties: files left by such a deletion or late
save are part of the next workspace of that name; two imports into one directory
double its events, and an archive made of that carries them on; `import --force`
deletes what is there before it has read the tasks and sessions of the archive.

### FileIngest

Importing a document into a memory a caller keeps. `Resolved` chooses the
template, `Extracted` reads rows into frames, `AllOrNone` validates all of them
together, `Application` applies them to a copy, `VerifiedMemory` verifies it, and
the copy replaces the memory unless the run is dry (`Import`). `evidence` pairs the
elements created with the rows of the frames from the first on, as the code does.
A row is a form, two names and a relation.

Seen here and kept out of the properties: only the gauntlet and the tests call
`ingest_file`; a frame that makes nothing shifts the evidence of all behind it
(`ImportsAreWhole` asks for evidence only where no frame of the file does so); a
bundle's template that matches one statement makes the other statements of the
text unread; plural objects stay plural; an exported dry run has the claims of
the old memory and the provenance of the new frames; a structured constraint
without a subject is left out.

### Generation and Gauntlet

`Generation` is `run_generate`. A template is the fields it requires and shows, its
keys and its words; a candidate (`Candidate`) is a template with the fields it
counts as used and those its content was made with. `ArtifactStatus` is the
evaluator, `Repaired` the two repairs, `Evaluated` one candidate with both,
`Generated` the whole with its ranking (`RankKey`). The templates are a set; a
template has its number in the shelf's order by priority and name, and the one by
name alone, and these decide where the code sorts.

Seen here and kept out of the properties: with two templates a repair always
returns to the one it came from; `default_if_missing` is itself counted as an
unsupported constraint; a repair puts another template in the place of the first
(generation/repair.py:40-53) and nobody asks for the fields that one requires, so
that an artifact may be VERIFIED with a placeholder left in its text, although
docs/GENERATION.md:11 says that missing required fields return NEEDS_CLARIFICATION.

`Gauntlet` is `run_gauntlet` and `run_benchmark`: a file of cases is loaded
(`BeginSuite`), each case runs on a memory of its own (`RunCase`, over the modules
before), and the report pairs cases and results by position (`Report`). `Edit` is
somebody who writes another document to a file that cases import. Answers are
triples or counts.

Seen here and kept out of the properties: an empty suite is PASSED; a wrong
answer under an expected VERIFIED makes a gauntlet exit with 1, though
docs/GAUNTLET.md of the repository calls any incorrect VERIFIED critical; one case
that raises loses the results of all; a text document in which nothing can be read
is IMPORTED, so a case that imports it is VERIFIED; without a goal a benchmark says
NO_RESULT where a gauntlet says INCONCLUSIVE; the evaluator's checks of an
artifact's provenance and constraints never trigger.

### Acquisition

`Acquisition` is `run_cake_pipeline` with the snapshot store, the pack updater
and the deduplication it calls. Four variables: `snap` and `described` are the
two files of a snapshot, `pack` the status in `pack.json`, `claims.jsonl` and
`provenance.jsonl` of each pack, `run` the run in progress (its step, flags,
remaining sources, contents fetched, report) or the outcome of the last one.
A content stands for the bytes a source answers with and for their hash; what
the extractor finds in it is a sequence of claim keys, and a row of a file is a
key with the content its provenance cites.

One action per write and per decision: `Fetch` (with the incremental skip),
`SaveSnapshot`, `DescribeSnapshot`, `Extract`, `OpenPack` (create, append, merge
provenance or nothing), `CreatePack`, `WriteClaims`, `WriteProvenance`,
`MergeProvenance`, `SealPack`, `Conclude`. `Failed` is the two except clauses,
with and without `--partial`. `SealPack` and `StampPack` read pack.json and write
it back with a hash, two or three times. `BeginFreeze` and `Freeze` are the two
halves of `pack freeze`, a command that takes no lock: each may fall between any
two steps of a run, and a run may write back the status it read before. `late` is
history: a freeze met an update that had already found the pack writable.

`write_text` and `write_bytes` truncate first, so an interrupted write leaves a
file that cannot be read (`Torn`) or, when it ends between two rows, a shorter
one (`Cuts`). `WriteFails` is an interruption the run survives (an OSError booked
on the source), `Crash` one it does not. Three consequences of the code shape the
model: a truncated `.snap` is never rewritten, because the save looks only at
its existence; a pack whose creation was interrupted before `claims.jsonl` is
created anew, as a candidate, even if it was frozen meanwhile, and `FrozenStays`
excepts it; a provenance file that cannot be read is noticed after the claims
were written.

Left out: metrics, hashes and the pack index (their writes can fail, in
`StampPack`, but nothing reads them here), trust decisions, `constraints.jsonl`
and the other files the builder writes once, archived packs (refused just as
frozen ones). A pack that is updated with duplicates only gets new provenance
while its manifest keeps the old hash; manifests are not modelled.

### DocumentIngest and PackPipeline

`DocumentIngest` is `run_ingest` with `ingest/delta.py`, run by several processes
while somebody edits the documents. A text stands for the bytes of a document and
their hash, its rows for what the adapter and the mapping make of it. A run reads
a document for its rows (`ReadDocument`), again for the name of its mapping
(`MapDocument`) and again for the fingerprint that names its state file
(`OpenState`, `SaveState`), and in between compares with an earlier state
(`Compare`), makes the pack directory (`MakePack`) and fills it (`FillPack`).
`Place` is the place of a state file's name, a hash, in the sorted listing: the
first file that matches the document is taken, or that cannot be parsed,
whatever document it belongs to. `BreakWrite` is an error that is filed on the
document at hand, `Die` the end of the process.

`PackPipeline` is `PackPipelineRunner.run` with the compiler and `build_index`,
several runs over one root beside finished packs, half-made ones and commands
that change finished ones. A directory is its number of files written in order
and whether the next is open. `Look` is what the mutation check keeps of the
other packs, `Mutated` the comparison at the end, which ignores files that
appeared meanwhile. `FailStage` files a failure on the stage the code files it
on.

Seen here and kept out of the properties: an unchanged document is packed again
when the state of an older text sorts first (delta.py:90, against
README.md:386-389 of the repository), one state file torn by a dead writer fails
every later incremental run that comes to it (delta.py:116), two pipelines that
overlap may leave an index without one of the packs (index.py:183), and one that
is refused at the index stage cannot be repeated, because its pack is there.

### Ledger, TrustLadder and TrustPromotion

A hash is the structure it is computed from, so two hashes are equal exactly
when the chains behind them are (no collisions). `Linked` is the relinking of
`append`.

`TrustLadder` holds what is decided about a list of claims, as operators: the
five conflict detectors, clusters by canonical key, the climb (`Rung(t, ...)` is
the condition that takes a claim from tier t to the next, `Climbed` the highest
tier that only satisfied rungs lead to), the override by a conflict, staleness,
and the certification gate with its own conflict detector and the relation
policy. A tier is a number, a score and a threshold are percents. The order of
the decisions is the order of clusters and of claims within one, since the
ledger gets one event for each in that order.

`TrustPromotion` is the two commands as several processes run them. `Promote`
reads and judges everything; then come the three reports, and per decision
`LoadLedger`, `OpenLedger` (which empties the file) and `WriteLedger`, then
`WriteIntegrity`. `Evaluate` is the verdict of `trust certify`; then the output
directory, its files in the order of their names, and the verdict, are written
one by one. Other commands append claims to the pack at any time, and a process
may die anywhere. Two processes with the ledger open write over each other: the
longer text survives or a mixture that does not parse. `alone` in a process is
history: nothing else has acted since the command began.

The detectors of `TrustLadder` take a set of claims, since they ask nothing about
order or repetition; only judging goes by the order of the file (`JudgedBefore`).
`Contradict` says, independently of the detectors, when two claims cannot both be
true. `MCTrust` holds the model values of both.

### CompiledRuntime

Canonical records are compiled into one file with three indexes, that file into
a proof index, and both are asked, as packs are. `canon` are the records, which
are revised at any time; `image` the two files, each saved in place in two steps
(`OpenImage`, `FillImage`), so that a reader may find it cut; `reply` is the last
answer. A query is one step, since its file is read once; `vcse reason` is two
(`ReasonFirst`, `ReasonSecond`), since the service and the command each read
it. A claim id stands for its place in the order of ids. Hashes match or do not;
the order in which rows are printed is left out, and which rows a limit keeps is
any choice of that many. `past` is history.

`CrossPackReason` pairs the claims and keeps one inference for each subject, object
and pair of claim ids, as the code's dictionary does: of several pairs with the same
key the last in the order of the sort counts (`ComesAfter`: the strings of the
objects, and then the place a claim was read from, since sorting is stable).
`Alphabetical` is the order of strings. Which tier an inference has may so depend on
a record of another object or line with the same id.

Seen here: inference over a compiled file never sees the policy of the command
(`bypass`), so `ReasonsFromItsInput` lets it start from what the policy blocked, and
`NoSilentBypass` says that it should not. Kept out of the properties: a pack
directory given as a compiled file loses the mark of its inferred claims.

### PackCompression and PackAnswers

`PackCompression` is `vcse compress pack` and the readers of what it writes. A
file is the rows it was made of and how many of its lines were written, so that
a table and numbers of two compressions can meet. `Table` interns names in the
order of first sight, claim by claim (`InternClaim`), `Numbered` the claims as numbers, `Decoded` what a reader
makes of any table and any numbers. `WriteNext` writes the next of the seven
files; `KillWriter` leaves the one being written empty or cut.

`PackAnswers` adds the questions. `Activate` prefers compressed files to the rows
(activator.py:73), `LoadClaims` falls back when they cannot be read. `StagesOf` is
the fixed stages of `run_ask` on a question the patterns normalised, `PlannedFacts`
the planned one over the runtime store, which is asked whenever it exists.
`Promote`, `Observe` and `MakePromoted` are `infer promote` with its two loads.
Where the code depends on the order of claims (the first of several with equal
keys), the model takes any.

Seen here and kept out of the properties: the canonicalizer makes `part_of` of
`has_part` without exchanging the ends (compression/canonicalizer.py:22), so that a
compressed pack says the whole is part of the part; a planned answer that was
inferred is called explicit (cli.py:484), a store older than the pack is answered from, and
a mixture of two compressions answers with claims of neither (`mixed`).

### PackRegistry, PackWorkflow and RuntimeStore

`PackRegistry` is `PackInstaller`, `PackRegistry` and `DependencyResolver` over
one `registry.json`. Its temporary file has a name per process, so a save is one
step, but `add` and `remove` load first and save what they made of that
(`LoadForAdd`, `LoadForRemove`, `SaveRegistry`). A directory is absent, partial
or whole; a copy may fail, and one that another command removed meanwhile may
get only the rest. The recursion of the resolver is a stack; it reads the
registry anew at every lookup, and the newest version is the one whose string
sorts last (`TextOrder`).

Seen here and kept out of the properties: of a pack that is needed only the version
whose string sorts last is tried (resolver.py:66, registry.py:135), so a requirement
that an installed version meets (docs/PACKS.md:145-147) may be refused.

`PackWorkflow` is the commands on pack directories. A command reads and checks
(`CheckCandidate`, `CheckMerge`, `ReadAndMerge`, `Transition`, `CreateVersion`),
and then has a list of things to do that nothing undoes: make a directory, copy
a file, write a file, take a snapshot. `Truncate` and `Fill` are the two halves
of each write; between them a reader finds an empty file, two writers may leave a
mixture, and a death leaves any beginning of the text. A file is a sequence of
rows and a row of claims has a key and its provenance, or none. `Killed` is a death.

`RuntimeStore` adds the compilation of a pack into
`.vcse/runtime_stores/<id>.sqlite`: check and hash, hash the files, read the
rows, drop the tables, create them, insert in one transaction. Creating the
schema is outside of that transaction, as in the code. `Load` is a command that needs
the claims (`load_runtime_claims_if_valid`), read by read: it hashes the pack
(`MeasurePack`), hashes the two files (`MeasureFiles`), asks the store for its
metadata (`AskMetadata`) and for its rows (`AskRows`), and other commands may come
between any two. `moved` and `restless` are history, and name the exceptions of
`CertifiedWasChecked` and `StoreHoldsPack`: what was certified or merged while it was
written, and the processes under whose reads something was written.

### PackSealing

Who vouches for a pack's files. A hash is what it is taken of: `ContentHash` the
files without the fields that hashes are kept in, `HashedFiles` what a manifest
lists, `Payload` what a bundle's signature covers. Sealing
(`update_pack_integrity_metadata`) reads and hashes, writes pack.json, takes and
writes the manifest, adds its root; signing takes manifest and hash, loads the key
or, if there is none, makes one (`LoadKey`, `MakeKey`) and writes its two halves
(`WritePrivateKey`, `WritePublicKey`), then the manifest and the signature; the
integrity command writes a manifest of another form under the same name; a bundle
is copied file by file, listed (`HashBundle`, `WriteListing`), read back and hashed
again (`RebuildListing`), signed and listed once more, into a directory in which an
earlier bundle's files stay. Reading and writing are separate steps. `EditPack` is any other command
that writes the pack's files, `DamageBundle` what happens to a bundle on its way,
`SealerDies` a death, which may leave the file being written cut. `vouched` and
`fresh` are history: what was signed or listed, who made a key and whether a bundler
read back what another wrote, and what nobody has touched since. A signature names
the process whose key it was made with.

Seen here and excepted by `VerdictsAreVouchedFor`: two that sign first each make a
key, and the halves on disk may be of either, so a signature just made is INVALID;
a bundler that reads back another's scaffold signs a listing of nothing, which
verifies.

Seen here and kept out of the properties: `verify_pack_signature` compares the
signature with the fields of pack.json only; without a manifest the files are
compared with themselves and found VALID; the stale files of an earlier bundle are
listed and signed; a death may leave a key without its public half, after which
nothing can be verified; `diff_packs` sorts claims that cannot be compared and
raises when two or more were added or removed.

### MCLibrary

The sum of the last five: a behaviour is of two processes over the registry, of two
processes over directories and stores with two commands or of one with three, of two
that certify copies, of two that merge and compile and one of them loads, of two over a pack that is
sealed or signed or of one with a command more, of the trust commands, or of
compiled records. Each of these is a world of the run `library`.

## 3. The runs

| Run | Distinct states | Question |
|---|---|---|
| `reasoning` | 424,565 | Is everything derived justified and sound, and is every verdict supported, in every order of steps? Does what is answered of a pack come from it, does what is VALID restore it? |
| `search` | 49,484 | Do both backends keep their limits, end, answer soundly and implement `Search`, does the beam give up for a reason, do the rewards of the tree add up? |
| `task` | 602,323 | With crashes anywhere and with two commands at once, does the saved record tell the truth, is finished work never repeated, is a command alone a whole attempt or nothing? Does a workspace hold its own? Do answers of tools and sessions follow from what they were told, are imports whole, do artifacts hold, do reports tell the truth? |
| `acquisition` | 2,997,948 | Over any sequence of runs, freezes and two faults, does a pack keep what it had, cite stored sources, and hold what a run reports? Does an ingestion's state file describe its pack, does a pipeline that passed have made one? |
| `library` | 609,760 | With two commands at once and deaths, do records point to whole packs, can a merge be undone, was what is certified checked, are the rows taken from a store those of the pack, was what verifies vouched for? Do ledgers verify, are promotions recorded, are contradictory claims kept apart, is what is answered of compiled records of one version? |
| `torn` | a counterexample | Is the task file written atomically? (Not with two writers.) |
| `rejected` | a counterexample | Does a rejected step fail its task? (No.) |
| `unbacked` | a counterexample | Does a VERIFIED answer always rest on a memory the whole stack passed? (No.) |
| `skipped` | a counterexample | After a run that is CAKE_COMPLETE, are the claims of every source in its pack? (No.) |
| `unproved` | a counterexample | Do the tiers T4 and T5 always rest on a verified proof? (No.) |
| `raising` | a counterexample | Does a load that cannot use the store read the files? (Not from a store cut between dropping and creating.) |
| `bypass` | a counterexample | Is nothing inferred from what the policy blocks? (Over a compiled file it is.) |

In every run the processes are alike, and where their names are declared
symmetric no property tells them apart.

**reasoning.** Cases are all choices of up to three out of eight facts and four
constraints, with at most one of four goals: a transitive chain with a REFUTED
link, the same fact stated with two statuses, an equality that rewrites, two
numeric equalities that disagree, an ASSUMED implication with its premise,
bounds that exclude each other, constraints with no numeric value; a bundle may
declare `equals` transitive. `MaxCase = 3` admits every pair of interacting
facts plus one bystander, `MaxClaims = 6` is larger than the closure of almost
every case (three derived claims), `MaxEvidence = 1` caps the one list that
grows for ever, `MaxGoals = 1` because only the first goal is read. Soundness
is judged against the least model of every case: no larger interpretation can
refute more. Compression and answers: two editions of a pack of five and six
rows, with spellings that differ in case, a malformed row, chains of two hops and
a capital said either way round; two processes, four jobs (compressions, edits, questions, promotions,
compiled stores) and one kill, so that a table of one compression meets numbers
of another and a pack is edited between two loads. The processes are alike, and
so interchangeable.

**search.** Cases are all sets of up to three out of nine facts with each of five
goals, those with a numeric equality also with one or two constraints, and a few
without a goal. Beam: one configuration in which no limit matters on most
cases (depth 6, width 8, budget 60), one in which all three bite (depth 2,
width 1, budget 4), and budget 0. Tree: few iterations with short rollouts, so
that every descent, expansion and rollout of a small tree is taken in every
order. `Terminates` needs weak fairness of `Next` only: `run` is one call in one
thread that never waits, so a step that is possible is taken.

**unbacked.** A case whose fact claims to be SUPPORTED by nothing and whose goal
is that fact is answered VERIFIED although ClaimVerifier refused the memory: the
root is judged on its average score (0.75), and only children are gated on
`stack_result.passed`. README.md:29-30 of the repository promises otherwise.

**task.** A behaviour is about one part. *Task:* three steps, none or one of them
rejected, four commands one at a time, enough to submit, crash, resume, crash
again and resume once more, or to submit anew in between; or three of which two
overlap, when one verdict may overwrite another and the file may be torn (`torn`),
but a text that parses is what one command concluded. *Tools:* every
expression of up to two operations over small numbers, queries over two of five
facts, files. *Workspace:* two tasks, two saves, one death; one user gives five
orders, enough to create, work, export, delete and import; two give three to a
workspace that is there. *Imports:* nine documents of every type,
with rows that are not read, make nothing, are not valid or disagree, two imports
in any order, dry or not. *Artifacts:* five templates and about a hundred
specifications with missing, blank and defaulted fields. *Suites:* up to two
cases out of texts, facts, documents and specifications, repeated ids, blank
and malformed lines, one edit of a document. *Short talk:* two sessions, two turns
out of eight texts and two answers; *long talk:* five turns and answers on three
texts about one topic, enough for a fork, a reset and an answer to each side
afterwards. Deadlock is not checked, since commands simply end.

**torn.** workspace/store.py:31 calls the write atomic. All writers of a task
share one temporary name; the counterexample renames a file that the other
process has just truncated.

**rejected.** executor.py:201 says that a step that raised is "marked FAILED
there". The mark is on a copy that the exception discards, and the plan is saved
as COMPLETED.

**acquisition.** Two sources: one may answer with two contents that share a key
(each with a key of its own, so that an update adds some claims and merges the
provenance of others) or with a malformed one, the other with one that has no
claims. Three runs and two faults: an interrupted run, a run that meets what it
left, and one more on top, with a second interruption anywhere. Runs are
incremental or not, partial or not; a dry run is partial. Sources keep answering
anything they are offered, so contents also come back. Every reachable state can
end the third run, after which nothing is left to do; deadlock is not checked.
Documents: two of one stem, one with three texts (one needs a mapping), the other
with a good and an unreadable one; two processes with two runs on one document,
or one process with three runs on one or both; one edit and one break. Two runs
show every overlap of two readings with one edit; three are needed for a state
file, an edit and a comparison with the older of two states. Pipelines: two runs
over two targets, each absent, finished, half-made or empty at first, a source
that repeats a claim and two that are refused; one change by another command
and one failure.

**skipped.** The snapshot is stored before the extraction, and an incremental run
skips a source whose snapshot exists. A run that fails in between (the content is
malformed, here without any fault) leaves a snapshot without claims, and the next
incremental run reports UNCHANGED and CAKE_COMPLETE. docs/CAKE.md promises that
all sources were processed successfully.

**unproved.** trust/promoter.py:192-193 calls a proof for T4 and T5
unconditional, but the check is on one rung of the climb only: a claim that
arrives with tier T5 keeps it without any proof.

**library.** *Installed:* two versions of a pack whose strings sort the other way
round than their numbers, packs that need them and two that need each other, each
installed or not at first; two commands and one death. *Sealed:* two commands of two
processes or three of one, one edit, and one loss, a death or a damaged bundle, with
one key pair; *signed:* three seals and signatures of two processes without bundles,
so that both make the key and one signs again. *Trust:* one pack of two claims on which two processes run two commands,
with one claim added by another command and one death; and every pack of at most
two claims out of a pool of thirteen (two spellings of one triple, a negation,
three equalities, two bounds that exclude each other, two heads of one company,
two ends of one interval, a blank), each under two policies, on which one command
runs. Two writers of a ledger of three events show every overlap; pairs of claims
are what conflicts are about. *Compiled:* two processes, two versions of the
records, three requests and one death; questions with and without a limit, a
policy that allows or blocks by default, trusted rows only or all. The second
version has claims that share an id, with another tier, lifecycle or object, so
that inferences overwrite each other; two of the packs have one id.
*Directories:* three, of which two exist at first, with a claim twice, a claim
without provenance of its own or claims of both; two commands at once and one death.
*Alone:* three commands of one process on a candidate, enough to certify, merge and
merge again. *Copied:* a candidate alone that lacks its provenance rows, and three
commands of two processes that make versions and certify, so that a directory is
certified while it is copied. *Stores:* three commands of two processes that merge
into one pack (once) and compile it, and the death of the merge, and then a load (it
changes nothing, so one is enough, and whether it began before the command it meets
makes no difference): its four reads meet a compilation, and a compilation a merge.
Two commands overlap in every way two processes can.

**raising.** docs/PACKS.md:75-79 says that loading falls back to the JSONL files
whenever the store cannot be used. A store whose tables were dropped and not yet, or
never, made again is asked for its metadata all the same, and sqlite3 raises.

**bypass.** docs/POLICY_ENFORCEMENT.md:61 promises no silent policy bypass. With
`vcse reason --csrf` the policy of the command decides which claims are counted as
input and which as blocked; the inferences come from a service that ran under the
default policy, and one follows from a blocked claim.

### The properties

* `SavedTaskHolds`: a saved FAILED means a failed step, and a saved COMPLETED that
  everything up to the first rejected step was done, though failed ids are stored
  among the completed ones and tails of plans are dropped; only a failed or
  rejected step makes a plan lose its tail; and what is saved as completed was
  executed.
* `NoRepeatedWork`: a resume does not execute again what the file says is done.
* `ImplementsTaskRecord`: write-then-rename makes a command atomic against
  crashes.
* `AnswersAreEntailed`: a session's answer is what its turns make it, applied
  however often, and whoever shares its memory, and counts all of its own turns
  since the reset and none its memory's sessions were not told; a tool says
  VERIFIED of what its own facts entail, and computes only what is within the
  limits, however deep they are hidden.
* `WorkspaceIsItsOwn`: an untroubled workspace holds only what was written since it
  was made, each event once, and what an undisturbed import restores is what its
  archive holds.
* `ImportsAreWhole`: a memory holds what the imports that took effect read, all of
  it and nothing else, in any order; disagreement is found by the later one.
* `ArtifactsHold`: what is VERIFIED, repaired or not, meets its specification, and
  when the answer is not VERIFIED, no candidate met it as it was made.
* `ReportsTellTruth`: a report is of every case of its file, once and in order; exit
  0 means every case was right by its own input, whatever ran before it.
* `WellFounded`: triples are stored once, dependencies are earlier claims and
  justify the claim by a rule, so the proof trace of a claim is a proof. Nothing
  in `add_claim` enforces this.
* `Sound`: no order of rules, bindings and verifier runs derives a triple outside
  the models of the case.
* `NoFalseAlarm`: a recorded contradiction still has its reason, however long
  ago it was made, and the verifiers accept what the proposers support, with one
  exception, an equality rewriting a transitive relation.
* `BindingsJustified`: a bound number still has the equality it was taken from.
* `VerifiedIsSupported`: what the evaluator calls VERIFIED is entailed, or true
  of the bound symbol, if the stack passed.
* `ConflictIsFinal`: a recorded contradiction can never be outlived, which is why
  a search may cut there. What the verifiers *would* find can vanish (binding a
  symbol with a non-numeric constraint hides a later violation); what they
  recorded cannot.
* `AppendOnly`: a stored claim never changes, a contradiction is never forgotten.
* `Bounded`: the three limits are kept; and the visits of a tree's node are those of
  its children and its own, and its untried proposals those no child was made of.
* `AnswersAreOfCase`: what a search answers VERIFIED the case entails, and it
  answers with a conflict only if the case has one, though rollouts run into
  conflicts of their own.
* `Complete`: INCONCLUSIVE without `cut` means the goal does not follow by the
  rules the verifiers let through, or the case entails a conflict.
* `Terminates`, `ImplementsSearch`.
* `PacksTraceable`: a row in a pack can be traced to a stored raw source, and
  deduplication holds across runs, contents and repaired interruptions (not
  within one batch, which the code does not deduplicate).
* `KnownIsWhole`: `has_snapshot` never vouches for truncated bytes, because the
  description is written only by the run that wrote the whole `.snap`.
* `CompleteIsIngested`: a source reported COMPLETE has every extracted claim and
  its provenance in the pack, also when an earlier run was cut off half-way; and
  CAKE_COMPLETE skips only known snapshots.
* `NothingLost`: only a fault during the rewriting of `claims.jsonl` shortens it.
* `FrozenStays`: no run writes to a frozen pack, but for the one update that had found
  it writable when the freeze came. No lock keeps `pack freeze` out of an update: such
  a pack is still written and may become a candidate again, but the exception ends
  with that update.
* `IngestTellsTruth`: a state file names a pack that holds the rows it lists,
  though document, mapping and pack are read and written at different times; an
  ended run reported on every document, and what it calls packed or skipped is
  in a pack in full.
* `PassedMeansMade`: PIPELINE_PASSED is said only of a pack that this run made
  alone and in full, and no finished pack beside it changed meanwhile.
* `LedgerChains`: truncation, overlap and death may lose events but never leave a
  ledger that parses and is broken.
* `PromotionRecorded`: a promotion nothing disturbs keeps the events of before and
  adds one per decision, in order; a second command or a death may take events.
* `ContradictionsNotBothTrusted`: the conflict override beats the climb whatever
  tier, evidence or company the two claims come with.
* `CertifiedPassesGate`: the copy was judged as the source, so what it says of
  itself must hold of what was copied.
* `RuntimeAnswersHold`, of answers (`AnswersComeFromOneVersion`): what is answered of a compiled file is all that one
  version of the records says and nothing else, the proof given is the best of
  that version, every two claims that imply a third have an inference with their ids,
  each inference follows from two claims with the ids it names and is no more trusted
  than those, and no explanation calls VERIFIED what is not proved. Where ids occur
  twice the inference is of one of the claims, and may be more trusted than the
  others.
* and of reasons (`ReasonsFromItsInput`): unless a save came between its two reads, what
  `vcse reason` infers follows from what it counts as its input or, over a compiled
  file, blocks (`bypass`).
* `FactsComeFromPack`: through numbers of an old compression, a planned store and
  two loads, a fact is a claim the pack had at one time, or follows from two. The
  planned store is not validated and has the malformed rows too, so what it answers
  follows of its rows, blank fields and all; and numbers that were cut may lack the
  row that states what is then called inferred. Both exceptions came up in the proof.
* `ValidRestores`: what `verify` calls valid decodes to the canonical claims of
  its originals.
* `RecordsAreWhole`: no overlap of commands leaves a record of a pack that is not
  wholly there, except one that some command set out to remove.
* `DependenciesComeFirst`: the order of a resolution is right although the
  registry changes under it.
* `TargetRecoverable`: what a merge overwrites is in its snapshot.
* `CertifiedWasChecked`: no half-made or hand-made pack passes for one that
  `certify` made, but for one a merge wrote to, and one whose source was written
  between the checks and the end of the copy: `certify` copies the files, not what it
  checked (`create_version` fills a directory that is being certified, lifecycle.py:77).
* `VerdictsAreVouchedFor`: files and a signature that are both VALID were signed as
  they are; a bundle that is BUNDLE_VALID holds what was listed and signed with that
  key; what nobody has touched since it was made is found so. Two promises hold only
  when processes do not meet: that the listing is of all the pack's files (unless a
  bundler read back another's manifest), and that a fresh signature is VALID (unless
  two made the key, or its public half was not written).
* `StoreHoldsPack`: the rows a load takes from a store are the claims of the pack as the
  load hashed it, though hashes, metadata and rows are read one after the other, three
  hashes are taken before the rows are compiled, and the schema is made outside the
  transaction. The exceptions are the two windows the code leaves open: claims written
  while they are compiled, and a store dropped between a load's two questions.

## 4. The proofs

The proof modules prove, for every value of the constants that meets the named
assumptions:

| Theorem | Module | States |
|---|---|---|
| `TypeCorrect` | ReasoningProofs | the type of the memory (`TypeOK`) |
| `ProofsWellFounded` | ReasoningProofs | `WellFounded` |
| `BindingsAreEqualities` | ReasoningProofs | `BindingsJustified` |
| `MemoryGrows` | ReasoningProofs | `AppendOnly` |
| `Soundness` | ReasoningProofs | `Sound` |
| `VerifiedAnswers` | ReasoningProofs | `VerifiedIsSupported` |
| `ConflictFinal` | ReasoningProofs | `ConflictIsFinal` |
| `NoAlarmIsFalse` | ReasoningProofs | `NoFalseAlarm` |
| `SavedTasksHold` | TaskProofs | `SavedTaskHolds` |
| `CompletedStepsAreSkipped` | TaskProofs | `NoRepeatedWork` |
| `FilesImplementTaskRecord` | TaskProofs | `ImplementsTaskRecord` (a refinement) |
| `VerifiedArtifactsHold` | TaskProofs | `ArtifactsHold` |
| `ImportsHold` | TaskProofs | `ImportsAreWhole` |
| `PackAnswersHold` | PackProofs | `FactsComeFromPack` |
| `CompressionRestores` | PackProofs | `ValidRestores` |
| `WorkspacesOwn` | WorkspaceProofs | `WorkspaceIsItsOwn` |
| `SnapshotsTrusted` | AcquisitionProofs | `KnownIsWhole` |
| `FrozenPacksStay` | AcquisitionProofs | `FrozenStays` |
| `PacksAlwaysTraceable` | AcquisitionProofs | `PacksTraceable` |
| `CompletesIngested` | AcquisitionProofs | `CompleteIsIngested` |
| `NoClaimLost` | AcquisitionProofs | `NothingLost` |
| `IngestsTellTruth` | AcquisitionProofs | `IngestTellsTruth` |
| `PipelinesTellTruth` | AcquisitionProofs | `PassedMeansMade` |
| `LedgerVerifies` | TrustProofs | `LedgerChains` |
| `PromotionsRecorded` | TrustProofs | `PromotionRecorded` |
| `ContradictionsCaught` | TrustProofs | `ContradictionsNotBothTrusted` |
| `CertifiedPacksPass` | TrustProofs | `CertifiedPassesGate` |
| `RuntimeAnswers` | TrustProofs | `RuntimeAnswersHold` |
| `RecordsWhole` | LibraryProofs | `RecordsAreWhole` |
| `DependenciesFirst` | LibraryProofs | `DependenciesComeFirst` |
| `VerdictsVouched` | LibraryProofs | `VerdictsAreVouchedFor` |
| `MergesRecoverable` | LibraryProofs | `TargetRecoverable` |

Hardly one of these is inductive alone; each module states its inductive invariant
first, has one lemma per action, and ends with the theorems.

What several modules need about orders and numbers is proved once, in `OrderProofs`. No
induction rule is used there or elsewhere. Where a definition goes through a list
by recursion, the argument is the least counterexample (`LeastNumber`): if a fact about the
first n members failed for some n, it would fail for a least one, which is not 0, and the
fact before it gives it.

**The memory.** `ReasoningProofs` assumes only `NamesAssumption` (numerals are names and denote integers, the reserved relations
exist, the marker of an unbound symbol is no integer) and `CaseAssumption` (the
constants have their types, the bounds are naturals). `Inv` conjoins the type,
uniqueness, earlier dependencies, justification and justified bindings with
`NothingDerived` (while loading, all claims are given and no symbol is bound).
Uniqueness is needed because a claim must be the *only* one with its triple for
an added dependency to denote it; justification is needed because a step must
know that a claim it does not touch keeps its reason, for which it in turn needs
`Grows` (claims are a prefix of the next claims, transitive relations stay once
loading is over). One lemma per action proves `Inv /\ Action => Inv'`
together with `Grows` (loading) or `Derives` (reasoning: at most one claim is
added, and it follows by a rule); four rule actions share the lemma `Conclude`.

Soundness then needs no new induction over derivations: `Derives` says the one
new triple follows by a rule from triples already held, `RuleClosed` that a model
is closed under rules, and that is the step. `VerifiedAnswers` combines `Sound`
with the case analysis of the evaluator (`EvaluationVerified`) and of the
constraint verifier (`ConstraintsHold`); `ConflictFinal` combines `MemoryGrows`
with `ContradictionDecides`: a memory with a contradiction has no other verdict.

`NoAlarmIsFalse` needs `AlarmInv`: every derived claim has a relation with a schema
(so a verifier that refuses it can only do so for the reason excepted), there is
no contradiction while a case is loaded, and every contradiction on record stands
(`Stands`). A contradiction that stands keeps standing because claims are only
appended, constraints are fixed once loading is over, and a bound symbol is never
bound again; what each of the verifiers records, stands when it is recorded.

**Tasks.** `TaskProofs` assumes `NAssumption` and `FilesAssumption` (the marks for an
empty and a torn file are no records, the absent record is no abstract one).
`Good` is said of a record, wherever it is, in a file or in the hands of a process:
the completed ids are those of its done steps, the done steps come before the
pending ones, nothing is pending behind a failure, and a step that was dropped
stands behind a failed or rejected one. `Loaded` and `Going` say of a process that
executes what plan it started from and how far it is, relating `before`, `todo` and
`updated`; that they lead to `Good` at `Conclude` is what the code's three lists
(plan, completed ids, updated steps) make hard to see. `RecordsGood` and `JobsGood`
need nothing about the files, so `SavedTasksHold` covers any overlap of writers.
The other two theorems add `AloneInv`: a single command owns the temporary file,
the task's file is what it was when the command loaded it, and what the command
has concluded is `Attempted` of that. With it every action but `Rename` is a stutter
of `TaskRecord`, and `Rename` one of its actions.

**Artifacts.** `VerifiedArtifactsHold` assumes `GenerationAssumption` (finitely many
templates and conditions, as files have). A candidate is VERIFIED only if the evaluator
says so of what it is in the end (`EvaluatedFits`), whatever repairs it has been
through. That the answer is VERIFIED when some candidate is needs the ranking: the keys are
compared field by field, finitely many of them have a least one, and no status comes
before VERIFIED.

**Imports.** `ImportsHold` assumes `ImportAssumption` (the rows of a document are a list)
and nothing of the names, templates or bundles. The frames are applied one after the
other by a function of how many have been (`Application`), rows are put together by one of
how many there were (`FlattenedIs`), and what the frames make of a memory (`After`) is shown by the least number of frames it would be wrong for: every claim frame's triple is there
and every claim is where it was, each goal frame is one goal more, and if every frame makes
something, the ids are those of the frames one by one. The stack finds two accepted
equalities that disagree if there are two, and records nothing else as severe
(`VerifiedImported`). The invariant `ImportInv` is the property with the evidence tied to a
claim's place in the memory, which no later import moves; so evidence found true when
it is made stays true, and an import that makes nothing of some frame only takes
evidence of its own file out of the promise.

**Questions to packs.** `PackProofs` assumes `CompressionAssumption` (the names are closed
under lowering, lowering twice is lowering once, the relations that rules name are lowered)
and nothing of the questions. That numbers stand for claims goes
through the table claim by claim, by the least counterexample (`TableHasNames`): a table only grows at
its end, so interning a claim once more leaves the final table as it is
(`InternClaimKeeps`) and the number a name got is the number it keeps
(`NumbersStandForClaims`, `DecodedClaims`). `CompressionRestores` adds that without malformed rows the
n-th claim is the n-th row's (`CanonicalsOfWhole`). For `PackAnswersHold` the invariant `Inv` says
that each file on disk and each loaded list of claims is of one edition there has been,
cut or not, unless it is a mixture (`FilesOK`, `RowsOfEdition`), that what is to be promoted
follows of the first load (`Implied`), and that at most one process fills the promoted
pack, with what is founded (`FillOK`). Each stage of a question finds what follows of the claims it was given
(`StagesFind`, `PlansFind`); that something inferred of lowered claims is no row of the
pack either is `InferredIsNew`.

**Workspaces.** `WorkspaceProofs` assumes `WorkspaceBounds`. `Shape` types what every
order holds at every stage. `EventsOnce` says that the events in an untroubled
workspace, and in an archive in the making, are distinct; `SavedOnce` that an event
still to be appended is nowhere yet, since the save it is of has a number of its
own; `AfterDelete` that an untroubled deletion leaves nothing behind;
`OwnContents` relates what is there to `origin`; `OneImport` says that no two
untroubled imports write at once, and that what one has to append is not there;
`ExportsTrue` and `ImportsTrue` relate what an undisturbed export has read, or an
import written so far, to the directory. It was in
this proof that an archive of a troubled workspace turned out to carry doubled
events into the next one: the archive now says whether it is `sound`.

**Acquisition.** `AcquisitionProofs` assumes `SourcesAssumption` (the sources form a
sequence without repetition, offered contents are contents). Its first two
theorems, `SnapshotsTrusted` and `FrozenPacksStay`, depend on what a run knows between its steps. `AtHand`: a run in the middle
of a source has that source at the head of its queue and one of its contents fetched.
`Prepared`: what it is about to describe is stored whole, what it is about to
create has no claims, and what it is about to write is not frozen, nor is the status
it will write back, unless a freeze met this update (`late`). With them `FilesOK`
(types, and described snapshots are whole) is kept by every step. `FrozenStays` is
then about the writes of others: `OnceFrozen` says that a pack which is being frozen
is not frozen yet, and that an update which holds the status frozen has read it
there, so no freeze writes to a frozen pack and no update takes back a freeze it did
not meet.

`PacksAlwaysTraceable`, `CompletesIngested` and `NoClaimLost` assume also
`ExtractedInOrder` (what is extracted from a content is a sequence) and rest on
`AcqInv`. `PackHolds` is about the files: rows that cite stored snapshots, one
content for each key, no rows in a file that cannot be read. `FreshHolds` is about the
writes still to come, and is what makes a cut-off run repairable: before the
claims are written, the fresh rows have no key of the pack and together with
the pack's rows have every key that was extracted; after it the claims alone have
them, whether this run or one that died before its provenance wrote them; and
after the provenance is written it cites the content for each of them, because the
rows that are not fresh are merged into it. `ReportHolds` and `StatusHolds` keep
the reports true while other sources are at work: what is queued is PENDING and
queued once, so no step touches the pack of a source that is COMPLETE, and a source
stays without a report only in a dry run or after a failure. The rows that
deduplication keeps are counted off without gaps (`Without`, `Counting`), so what
they are needs no induction (`WithoutRows`).

`IngestsTellTruth` assumes also `IngestBounds` and `DocumentList` (the documents
form a sequence). `Filed` says that whatever a run has an outcome for, or a state
file records, is so (`Vouched`: the pack was written in full from the rows of that
text) and that each of its targets has an outcome or is still in the queue. For that
to last, a whole pack must never change and no two processes may fill the same
one: `OwnPacks`, with `Partial` packs for what is being filled. `Counts` bounds the packs
a run has made by the documents it is done with, so that the number in the name of
the next one stays within the number of documents.

`PipelinesTellTruth` assumes also the bounds of `PackPipeline` and `FeedRows` (the keys
of a feed form a sequence). `Owns` says of a run and the directory with its id what
it has written at each stage, `Noticed` that a pack it calls disturbed shows a later
edition than at the look before, so a comparison that finds nothing means nothing
happened; `Grows` is what any step of anyone may do to a directory. That the
compiler writes each key once (`CompiledHoldsEachOnce`) needs no induction, because
the n-th compiled claim is the key whose first occurrence is the n-th one, and first
occurrences are counted without gaps (`LeastNumber`, `Counting`).

**Ledgers.** `TrustProofs` assumes `PacksAssumption` and `TrustBounds`. Its invariant
says of every process that the events it has loaded and extended verify, which is
what makes whatever reaches the file verify, and, of a process nothing has
disturbed, where between `before` and `before` plus all decisions the ledger stands
at each of its steps. `alone` is kept by every step of the process itself and lost
by every step of another, so one lemma (`Disturbed`) serves all the steps of others.

**Verdicts.** `ContradictionsCaught` assumes also `NumberAssumption` (what reads as a
number is an integer). Three facts about the operators carry it. Of two
claims that contradict each other one is affected by a conflict that a detector
finds (`ContradictionFound`; for ranges the strongest bounds exist since a finite set of
integers has a greatest and a least member, `Extremes`). Every claim of the file is judged, because the
order of judging, by the first claim of the cluster and then by the line, is total and
a total order of finitely many gives each of them a rank of its own
(`RankOnto`, `EveryClaimJudged`). And a claim shares the conflicts of its cluster, to which it belongs. The invariant only carries
the report from the command that judged to the file. `CertifiedPacksPass` needs to
know that at most one certification makes the output (`OneMaker`: the directory is
made once and never removed), what of the source it has copied at each stage, and
that its verdict is on the source as it still is while nothing has disturbed it
(`GateOK`). An output that was judged is never copied into again, which is what keeps
a source that calls itself certified from passing for a verdict.

**The compiled runtime.** `RuntimeAnswers` assumes `RecordsAssumption` and
`QuestionsAssumption` (ids and tiers are integers, records have their fields,
limits are naturals). `RuntimeInvariant` says that each file on disk is cut off or made of one
version the records had (`MadeOf`), that so is whatever a process is about to save or has
read for the second half of `vcse reason`, and, unless a save came between, that the two
halves were made of the same version. That every pair of claims that join has an
inference, though pairs with the same ids overwrite each other, needs a last one among
them: finitely many pairs have one in the order of strings, directories and lines
(`SomeComeLast`). That a compiled file holds each record of its version at
one place is `SortedPlaces`, again by ranks, so nothing about sorting needs
induction; that its indexes find what a scan would is `IndexedUnderItsValue` and
`CompiledAnswers`. The lemmas `CompiledIsValid` and `CutIsNotWhole` tell the file
that is answered from the one that is refused.

**Installed packs.** `LibraryProofs` assumes the `SourcesAssumption` of `PackRegistry` (a pack
has an id, a version and a list of needs, distinct versions are distinct strings).
`RecordsInv` says that the records in the registry, those a command has loaded and
is about to save, and the pack one has copied are whole on disk, unless a command
set out to remove them. `OrderInv` says of a resolution under way that each pack in
its list has what it needs before it, and of each entry on its stack that the
needs it has been through are in the list, but for the last, which the entry above
it is about. It is kept although the registry may change between two lookups,
because what was found is kept on the stack.

`VerdictsVouched` assumes `MissingIsNothing` (the marks for a missing and for a cut file
are no hashes, signatures or listings). `JobTyped` says of each sealing, signing or
bundling process what it has at hand whatever others do, `JobSees` what of that is
still so while nobody else has written: a hash taken is the hash of the files, a
listing that of the bundle, a bundle a copy as far as the list has been copied.
`Backed` says that every signature and listing on disk was vouched for when it was
written and that each listing has the files a pack must have, or that bundlers have
read each other's manifest, `Intacts` what nobody has touched. `KeysOK` says that the
halves of the key on disk are those of processes that made one, so while only one
has, they belong together or are cut, missing or still to be written. One lemma for what a writer does to the jobs of others
(`DisturbedHolds`) serves all of them.

`MergesRecoverable` assumes `OriginAssumption` (the first packs have each of the files
or lack it). `MergeInv` says of every command's list of things to do that whoever will overwrite claims is
its directory's only kind of writer (`OwnOut`), and does so after what merges found
there was saved, will be saved earlier in the list, or in a directory it will have
made itself (`Careful`). The lists are handled by lemmas on their heads, tails
and concatenations only.

### What is only model-checked, and why

* Liveness (`Terminates`) is out of the prover's reach, and so is `ImplementsSearch`
  with the searches it maps: the proposal lists of `SearchBase` are sorted and
  filtered sequences, whose contents can only be known by induction over data.
  `Bounded`, `AnswersAreOfCase` and `Complete` rest on the same lists and compare
  with recursively computed closures.
* `AnswersAreEntailed` (folds of frames, closures, the recursion over
  expressions) and `ReportsTellTruth` (filters and folds over lists of cases) stay with
  TLC too: the operators of the library that filter and fold are recursive, and
  what they compute for every list is out of the prover's reach unless it is written out
  as a function and proved by a least counterexample, as it was for the table of names
  and for the frames of an import.
* `CertifiedWasChecked` and `StoreHoldsPack` are about what a command has read, over
  commands that read while others write, with their exceptions stated in the
  properties; they are checked and not yet proved. A proof would carry, for every copy
  and compilation under way, which part of its source it has, as `CertifiedPacksPass`
  does for one directory.

## 5. What is not modelled

In the core: external DSL rules of a bundle, retrieval filtering, malformed input,
the JSON form of a memory, `UpdateTruthStatus` and the other transitions that
nothing in the source emits, TS3, text of reasons and traces. Of the session: a
bundle's synonyms and patterns, response modes and wording. Of the agent: the
executor's own ledger events, which nothing reads back. Of the packs: the
validator's checks, activation's reading of artifacts, listing, auditing, and the
store's query planning. Of signatures: making keys for a user and signing single
files, which only print. Of ingestion: adapters, the lexical work of templates and
the inference of schemas, and the stateless way of `intake`. Of generation: the
text bodies render to. Of suites: times, node counts and coverage reports.

Formatting, parsing, normalisation, ranking, rendering and reports are functions of
their input with no order of steps to get wrong, and are left to the tests of the
repository. The API server adds a timeout whose handler goes on in a thread of
the framework; its hazard is that of any two commands at once.
