---------------------------- MODULE PackPipeline ----------------------------
(***************************************************************************)
(* vcse pipeline run (pipeline/runner.py) with the two stages that write   *)
(* into shared places: the compiler (compiler/engine.py), which makes the  *)
(* pack, and the index (packs/index.py).  Several runs may be under way    *)
(* over one root of packs, and other commands change finished packs.       *)
(*                                                                         *)
(* A pack is pack.json, claims.jsonl and four more files, written in this  *)
(* order and the four as one; a write empties its file first.  Files count *)
(* as written, and the next one may be open.  The rows of claims.jsonl are *)
(* the keys of its claims.                                                 *)
(***************************************************************************)
EXTENDS Naturals, Sequences, FiniteSets, SequencesExt

CONSTANTS
    Runners,       \* the processes
    Targets,       \* pack ids, the directories under the root
    Feeds,         \* what a source may hold
    FeedKeys(_),   \* the claim keys the compiler makes of it, in order
    Broken,        \* feeds that the adapter rejects
    Unmapped,      \* feeds that the compiler rejects
    MaxPipelines,  \* bound on the runs
    MaxMeddlings,  \* bound on changes to finished packs
    MaxFailures    \* bound on failed writes and processes that die

ASSUME PipelineBounds == MaxPipelines \in Nat /\ MaxMeddlings \in Nat /\ MaxFailures \in Nat

\* What a source holds comes in an order.
ASSUME FeedRows == \A f \in Feeds : FeedKeys(f) \in Seq(ToSet(FeedKeys(f)))

VARIABLES
    tree,     \* the directory of each pack
    index,    \* index.json: how many claims it counts for a pack
    verdict,  \* the output directory of each run, with its report; a run
              \* whose directory is there already is refused, so they differ
    pipe,     \* the run of each process
    used      \* runs, changes and failures so far

pipelineVars == <<tree, index, verdict, pipe, used>>

Claimless == 1   \* the number of files before claims.jsonl

PackFiles == 3

Unindexed == 1000

Unparsable == 1001

NoTree == [made |-> FALSE, written |-> 0, open |-> FALSE, keys |-> << >>, by |-> 0, edition |-> 0]

Idle == [step |-> "idle"]

RunIds == 1..MaxPipelines

\* Each key once, in the order of the feed (seen_claim_keys).
Compiled(feed) ==
    LET keys == FeedKeys(feed)
        first == {i \in DOMAIN keys : \A j \in 1..(i - 1) : keys[j] # keys[i]}
    IN  [n \in 1..Cardinality(first) |->
            keys[CHOOSE i \in first : Cardinality({j \in first : j <= i}) = n]]

\* A pack of an earlier run: finished, or left when the run died.
Earlier(feed) ==
    {[NoTree EXCEPT !.made = TRUE, !.written = PackFiles, !.keys = Compiled(feed)],
     [NoTree EXCEPT !.made = TRUE, !.written = Claimless, !.open = TRUE],
     [NoTree EXCEPT !.made = TRUE]}

PipelineInit ==
    /\ \E feed \in Feeds \ (Broken \cup Unmapped) : tree \in [Targets -> {NoTree} \cup Earlier(feed)]
    /\ index = [t \in Targets |-> Unindexed]
    /\ verdict = [r \in RunIds |-> [status |-> "none"]]
    /\ pipe = [p \in Runners |-> Idle]
    /\ used = [runs |-> 0, meddlings |-> 0, failures |-> 0]

-----------------------------------------------------------------------------
Staged(p, step) == pipe[p].step = step

Stage(p, step) == pipe' = [pipe EXCEPT ![p].step = step]

\* The files of the other packs, as one look finds them: how many there are,
\* whether the last is cut, and which change of them it is.
Look(target) ==
    [t \in Targets \ {target} |->
        [files |-> tree[t].written, cut |-> tree[t].open, edition |-> tree[t].edition]]

\* _detect_mutation: a file that was there has other bytes.  Files that came
\* later are not looked at; one that was cut and is no longer counts too.
Mutated(before, after) ==
    \E t \in DOMAIN before :
        \/ before[t].edition # after[t].edition
        \/ before[t].cut /\ before[t] # after[t]

\* _finalize: the report is written and the command ends.
Report(p, status, stage) ==
    /\ verdict' = [verdict EXCEPT ![pipe[p].id] =
                     [status |-> status, stage |-> stage, pack |-> pipe[p].pack, feed |-> pipe[p].feed,
                      disturbed |-> pipe[p].disturbed]]
    /\ pipe' = [pipe EXCEPT ![p] = Idle]

\* An exception that no stage catches: the output directory has no report.
Escape(p) == pipe' = [pipe EXCEPT ![p] = Idle] /\ UNCHANGED verdict

\* The output directory is made and the first look at the other packs taken.
StartPipeline(p) ==
    /\ Staged(p, "idle") /\ used.runs < MaxPipelines
    /\ \E t \in Targets, f \in Feeds, checks \in BOOLEAN :
         /\ pipe' = [pipe EXCEPT ![p] =
              [step |-> "adapter", id |-> used.runs + 1, pack |-> t, feed |-> f, checks |-> checks,
               before |-> Look(t), entries |-> index, disturbed |-> {}]]
    /\ used' = [used EXCEPT !.runs = @ + 1]
    /\ UNCHANGED <<tree, index, verdict>>

\* normalized.jsonl goes to the run's own directory.
Adapt(p) ==
    /\ Staged(p, "adapter")
    /\ IF pipe[p].feed \in Broken THEN Report(p, "PIPELINE_FAILED", "adapter")
       ELSE Stage(p, "compile") /\ UNCHANGED verdict
    /\ UNCHANGED <<tree, index, used>>

-----------------------------------------------------------------------------
\* Mutant: a directory that has no files yet will do, as the test before
\* mkdir says.
MakeTreeIfEmpty(p) ==
    LET t == pipe[p].pack
    IN  /\ Staged(p, "compile")
        /\ IF pipe[p].feed \in Unmapped \/ tree[t].written > 0 \/ tree[t].open
           THEN Report(p, "PIPELINE_FAILED", "compiler") /\ UNCHANGED tree
           ELSE /\ tree' = [tree EXCEPT ![t].made = TRUE, ![t].by = pipe[p].id]
                /\ Stage(p, "open") /\ UNCHANGED verdict
        /\ UNCHANGED <<index, used>>

\* The compiler makes the directory, which must be new: the test before mkdir
\* would take an empty one, mkdir does not.
MakeTree(p) ==
    LET t == pipe[p].pack
    IN  /\ Staged(p, "compile")
        /\ IF pipe[p].feed \in Unmapped \/ tree[t].made
           THEN Report(p, "PIPELINE_FAILED", "compiler") /\ UNCHANGED tree
           ELSE /\ tree' = [tree EXCEPT ![t].made = TRUE, ![t].by = pipe[p].id]
                /\ Stage(p, "open") /\ UNCHANGED verdict
        /\ UNCHANGED <<index, used>>

OpenFile(p) ==
    /\ Staged(p, "open")
    /\ tree' = [tree EXCEPT ![pipe[p].pack].open = TRUE]
    /\ Stage(p, "write")
    /\ UNCHANGED <<index, verdict, used>>

WriteFile(p) ==
    LET t == pipe[p].pack  n == tree[t].written
    IN  /\ Staged(p, "write")
        /\ tree' = [tree EXCEPT ![t].open = FALSE, ![t].written = n + 1,
                                ![t].keys = IF n = Claimless THEN Compiled(pipe[p].feed) ELSE @]
        /\ Stage(p, IF n + 1 < PackFiles THEN "open" ELSE "scan")
        /\ UNCHANGED <<index, verdict, used>>

-----------------------------------------------------------------------------
HasClaims(t) == tree[t].written > Claimless \/ (tree[t].written = Claimless /\ tree[t].open)

\* What reading a pack's claims may give: their number, fewer when the file
\* is cut, or no parse.
Counted(t) ==
    IF tree[t].written > Claimless THEN {Len(tree[t].keys)}
    ELSE {Unparsable} \cup (0..1)

\* build_index loads the index and reads every pack that has its claims.
ScanPacks(p) ==
    LET there == {t \in Targets : HasClaims(t)}
    IN  /\ Staged(p, "scan")
        /\ \E counts \in [there -> UNION {Counted(t) : t \in there}] :
             /\ \A t \in there : counts[t] \in Counted(t)
             /\ IF \E t \in there : counts[t] = Unparsable
                THEN Report(p, "PIPELINE_FAILED", "index")
                ELSE /\ pipe' = [pipe EXCEPT ![p].step = "index",
                          ![p].entries = [t \in Targets |-> IF t \in there THEN counts[t] ELSE index[t]]]
                     /\ UNCHANGED verdict
        /\ UNCHANGED <<tree, index, used>>

\* The index is replaced by what was loaded and read, whatever other runs
\* have put there in between.
SaveIndex(p) ==
    /\ Staged(p, "index")
    /\ index' = pipe[p].entries
    /\ Stage(p, IF pipe[p].checks THEN "validate" ELSE "look")
    /\ UNCHANGED <<tree, verdict, used>>

\* _validate_pack: no claim twice; the claims and the provenance are written
\* and changed together.
Validate(p) ==
    /\ Staged(p, "validate")
    /\ IF IsInjective(tree[pipe[p].pack].keys) THEN Stage(p, "look") /\ UNCHANGED verdict
       ELSE Report(p, "PIPELINE_FAILED", "validation")
    /\ UNCHANGED <<tree, index, used>>

\* The second look at the other packs, and the report.
EndPipeline(p) ==
    /\ Staged(p, "look")
    /\ Report(p, IF Mutated(pipe[p].before, Look(pipe[p].pack)) THEN "PIPELINE_FAILED" ELSE "PIPELINE_PASSED", "end")
    /\ UNCHANGED <<tree, index, used>>

-----------------------------------------------------------------------------
\* Another command changes a finished pack, so that a claim is there twice.
Meddle ==
    /\ used.meddlings < MaxMeddlings
    /\ \E t \in Targets :
         /\ tree[t].written = PackFiles /\ tree[t].keys # << >>
         /\ tree' = [tree EXCEPT ![t].edition = @ + 1, ![t].keys = Append(@, Head(@))]
         /\ pipe' = [p \in Runners |->
                       IF Staged(p, "idle") \/ pipe[p].pack = t THEN pipe[p]
                       ELSE [pipe[p] EXCEPT !.disturbed = @ \cup {t}]]
    /\ used' = [used EXCEPT !.meddlings = @ + 1]
    /\ UNCHANGED <<index, verdict>>

\* A read or a write fails.  The first three stages catch it and report;
\* the benchmark cases and the compile report still belong to the compiler,
\* although the pack is complete by then.
FailStage(p) ==
    /\ used.failures < MaxFailures
    /\ \/ Staged(p, "adapter") /\ Report(p, "PIPELINE_FAILED", "adapter")
       \/ pipe[p].step \in {"compile", "open", "write", "scan"} /\ Report(p, "PIPELINE_FAILED", "compiler")
       \/ pipe[p].step \in {"scan", "index"} /\ Report(p, "PIPELINE_FAILED", "index")
       \/ pipe[p].step \in {"validate", "look"} /\ Escape(p)
    /\ used' = [used EXCEPT !.failures = @ + 1]
    /\ UNCHANGED <<tree, index>>

DieInStage(p) ==
    /\ used.failures < MaxFailures
    /\ ~Staged(p, "idle")
    /\ Escape(p)
    /\ used' = [used EXCEPT !.failures = @ + 1]
    /\ UNCHANGED <<tree, index>>

PipelineNext ==
    \/ Meddle
    \/ \E p \in Runners :
         \/ StartPipeline(p) \/ Adapt(p) \/ MakeTree(p) \/ OpenFile(p) \/ WriteFile(p)
         \/ ScanPacks(p) \/ SaveIndex(p) \/ Validate(p) \/ EndPipeline(p)
         \/ FailStage(p) \/ DieInStage(p)

PipelineSpec == PipelineInit /\ [][PipelineNext]_pipelineVars

-----------------------------------------------------------------------------
\* What PIPELINE_PASSED promises, with or without validation: the pack was
\* made by this run alone, is complete, and unless another command changed it
\* since holds each claim of the source once; and no finished pack beside it
\* was changed while the run went on (PackPipelineRunner.run).
PassedMeansMade ==
    \A r \in RunIds :
        verdict[r].status = "PIPELINE_PASSED" =>
            LET t == tree[verdict[r].pack]
            IN  /\ t.by = r /\ t.written = PackFiles /\ ~t.open
                /\ t.edition = 0 => /\ IsInjective(t.keys)
                                    /\ ToSet(t.keys) = ToSet(FeedKeys(verdict[r].feed))
                /\ verdict[r].disturbed = {}
=============================================================================
