----------------------------- MODULE Acquisition -----------------------------
(***************************************************************************)
(* CAKE, the acquisition of claims (cake/pipeline.py, cake/snapshot.py,    *)
(* cake/pack_updater.py): a run takes the enabled sources of its           *)
(* configuration in order; each is fetched, stored as a snapshot,          *)
(* extracted, and appended to the pack that bears its name.                *)
(*                                                                         *)
(* Files survive from run to run.  A write truncates its file first: a     *)
(* fault leaves a prefix, which can be read when it ends between two rows. *)
(* A fault either is an OSError, which run_cake_pipeline catches and books *)
(* on the source, or ends the process.                                     *)
(*                                                                         *)
(* Meanwhile `pack freeze` may run (packs/lifecycle.py): no lock keeps the *)
(* two apart.                                                              *)
(*                                                                         *)
(* A content stands for the bytes fetched and for their hash.  The claims  *)
(* in it are keys (subject|relation|object, normalised); the row of a      *)
(* claim is its key and the content that its provenance cites.             *)
(***************************************************************************)
EXTENDS Naturals, Sequences, FiniteSets, SequencesExt

CONSTANTS
    SourceOrder,   \* the enabled sources, as configured
    Contents,      \* what may be fetched
    Offered(_),    \* the contents that a source may come to have
    ClaimKeys(_),  \* the keys extracted from a content, in order
    Malformed,     \* contents the extractor or the normaliser rejects
    Modes,         \* the flags a run may be given
    MaxRuns,       \* bound on the runs
    MaxFaults      \* bound on the faults

ASSUME SourcesAssumption ==
    /\ SourceOrder \in Seq(ToSet(SourceOrder))
    /\ IsInjective(SourceOrder)
    /\ \A s \in ToSet(SourceOrder) : Offered(s) \subseteq Contents

\* What is extracted from a content comes in an order.
ASSUME ExtractedInOrder == \A c \in Contents : ClaimKeys(c) \in Seq(ToSet(ClaimKeys(c)))

ASSUME BoundsAssumption == MaxRuns \in Nat /\ MaxFaults \in Nat

VARIABLES
    snap,      \* <short_hash>.snap, by source and content
    described, \* the contents whose .snap.meta.json exists, by source
    pack,      \* the files of each source's pack
    run,       \* the run in progress, or the outcome of the last one
    freezing,  \* the source whose pack is being frozen: its status was read
    late       \* history: the pack was frozen while it was being updated

vars == <<snap, described, pack, run, freezing, late>>

Sources == ToSet(SourceOrder)

Row(key, content) == [key |-> key, from |-> content]

Absent == [state |-> "absent", rows |-> << >>]

Torn == [state |-> "torn", rows |-> << >>]

Whole(rows) == [state |-> "whole", rows |-> rows]

\* What a fault leaves of a file that was being rewritten as rows.
Cuts(rows) ==
    IF rows = << >> THEN {}
    ELSE {Torn} \cup {Whole(SubSeq(rows, 1, k)) : k \in 0..(Len(rows) - 1)}

Keys(rows) == {row.key : row \in ToSet(rows)}

\* pack.json (its lifecycle status), claims.jsonl and provenance.jsonl.
NoPack == [meta |-> "absent", claims |-> Absent, prov |-> Absent]

Init ==
    /\ snap = [s \in Sources |-> [c \in Contents |-> "absent"]]
    /\ described = [s \in Sources |-> {}]
    /\ pack = [s \in Sources |-> NoPack]
    /\ run = [step |-> "idle", mode |-> CHOOSE m \in Modes : TRUE, queue |-> << >>,
              fetched |-> << >>, fresh |-> << >>, held |-> "candidate", stamps |-> 0,
              report |-> [s \in Sources |-> "PENDING"],
              status |-> "NONE", number |-> 0, faults |-> 0]
    /\ freezing = {} /\ late = FALSE

-----------------------------------------------------------------------------
S == Head(run.queue)

C == run.fetched[S]

Batch == [i \in DOMAIN ClaimKeys(C) |-> Row(ClaimKeys(C)[i], C)]

At(step) == run.step = step

Goto(step) == run' = [run EXCEPT !.step = step]

Files == <<snap, described, pack>>

\* The report of the source at hand is closed and the next source begins.
Finish(outcome) ==
    run' = [run EXCEPT !.step = "fetch", !.report[S] = outcome,
                       !.queue = Tail(@), !.fresh = << >>,
                       !.held = "candidate", !.stamps = 0]

\* The two except clauses: a failure ends the run unless allow_partial.
Failed(r) ==
    [r EXCEPT !.step = "fetch", !.report[S] = "FAILED", !.fresh = << >>,
              !.held = "candidate", !.stamps = 0,
              !.queue = IF r.mode.partial THEN Tail(@) ELSE << >>]

Fail == run' = Failed(run)

StartRun ==
    /\ At("idle")
    /\ run.number < MaxRuns
    /\ \E m \in Modes :
         run' = [run EXCEPT !.step = "fetch", !.mode = m, !.queue = SourceOrder,
                            !.report = [s \in Sources |-> "PENDING"],
                            !.fetched = << >>, !.status = "RUNNING", !.number = @ + 1]
    /\ UNCHANGED Files

\* CakeSnapshotStore.has_snapshot: both files exist.
HasSnapshot(s, c) == snap[s][c] # "absent" /\ c \in described[s]

\* Mutant: the extraction does not wait for the snapshot.
AfterFetchUnsaved == "extract"

AfterFetch == IF run.mode.dry THEN "extract" ELSE "save"

\* fetched, with the content of the source at hand.
Got(c) ==
    [s \in DOMAIN run.fetched \cup {S} |-> IF s = S THEN c ELSE run.fetched[s]]

\* The source answers: an incremental run stops at a snapshot it knows.
Fetch ==
    /\ At("fetch") /\ run.queue # << >>
    /\ \E c \in Offered(S) :
         IF run.mode.incremental /\ HasSnapshot(S, c)
         THEN run' = [run EXCEPT !.report[S] = "UNCHANGED", !.fetched = Got(c),
                                 !.queue = Tail(@)]
         ELSE run' = [run EXCEPT !.fetched = Got(c), !.step = AfterFetch]
    /\ UNCHANGED Files

\* CakeTransportError: no such file, a refused or a failed download.
FetchFails ==
    /\ At("fetch") /\ run.queue # << >>
    /\ Fail
    /\ UNCHANGED Files

\* Mutant: a snapshot without its description gets one, whatever it holds.
StoredDescribed(s, c) == HasSnapshot(s, c)

Stored(s, c) == snap[s][c] # "absent"

\* CakeSnapshotStore.save: nothing is written when the .snap exists.
SaveSnapshot ==
    /\ At("save")
    /\ IF Stored(S, C)
       THEN Goto("extract") /\ UNCHANGED snap
       ELSE /\ Goto("describe")
            /\ snap' = [snap EXCEPT ![S][C] = IF @ = "absent" THEN "whole" ELSE @]
    /\ UNCHANGED <<described, pack>>

DescribeSnapshot ==
    /\ At("describe")
    /\ described' = [described EXCEPT ![S] = @ \cup {C}]
    /\ Goto("extract")
    /\ UNCHANGED <<snap, pack>>

\* Extraction and normalisation.  A dry run goes on to the next source
\* without filing a report.
Extract ==
    /\ At("extract")
    /\ IF C \in Malformed THEN Fail
       ELSE IF run.mode.dry THEN Finish("PENDING")
       ELSE Goto("update")
    /\ UNCHANGED Files

-----------------------------------------------------------------------------
\* Mutant: the archive is open to all.
WritableAlways(p) == p.meta # "torn"

\* assert_writable, on a pack.json that can be parsed.
Writable(p) == p.meta = "candidate"

\* Mutant: a batch with a duplicate counts as known.
UniqueOrNothing(rows, batch) ==
    IF Keys(rows) \cap Keys(batch) # {} THEN << >> ELSE batch

\* The rows of a batch but for those whose key is among others, in order: the
\* n-th is at the n-th of the places that are kept.
Without(rows, batch) ==
    LET places == {i \in DOMAIN batch : batch[i].key \notin Keys(rows)}
    IN  [n \in 1..Cardinality(places) |->
            batch[CHOOSE i \in places : Cardinality({j \in places : j <= i}) = n]]

\* deduplicate_claims: against the existing claims, not within the batch.
Unique(rows, batch) == Without(rows, batch)

\* The provenance of the duplicates: those whose key is not being added.
Merged(batch, fresh) == Without(fresh, batch)

NewProvenance == pack[S].prov.rows \o run.fresh \o Merged(Batch, run.fresh)

\* update_with_report up to its first write: the pack is created, or gets
\* the unique claims, or only the provenance of the duplicates, or nothing.
OpenPack ==
    /\ At("update")
    /\ LET p     == pack[S]
           fresh == Unique(p.claims.rows, Batch)
       IN  IF p.claims.state = "absent"
           THEN run' = [run EXCEPT !.step = "create", !.fresh = Batch, !.stamps = 3]
           ELSE IF ~Writable(p) \/ p.claims.state = "torn" THEN Fail
           ELSE IF fresh # << >>
           THEN run' = [run EXCEPT !.step = "claims", !.fresh = fresh, !.stamps = 2]
           ELSE IF Batch # << >> THEN Goto("merge")
           ELSE Finish("COMPLETE")
    /\ UNCHANGED Files

\* _create_new_pack writes pack.json, whatever was there.
CreatePack ==
    /\ At("create")
    /\ pack' = [pack EXCEPT ![S].meta = "candidate"]
    /\ Goto("claims")
    /\ UNCHANGED <<snap, described>>

\* Mutant: the new claims replace the old ones.
ClaimsReplaced(p) == run.fresh

Claims(p) == p.claims.rows \o run.fresh

WriteClaims ==
    /\ At("claims")
    /\ pack' = [pack EXCEPT ![S].claims = Whole(Claims(pack[S]))]
    /\ Goto("provenance")
    /\ UNCHANGED <<snap, described>>

\* A provenance.jsonl that cannot be parsed fails the source here, after the
\* claims are in.
WriteProvenance ==
    /\ At("provenance")
    /\ IF pack[S].prov.state = "torn"
       THEN Fail /\ UNCHANGED pack
       ELSE /\ pack' = [pack EXCEPT ![S].prov = Whole(NewProvenance)]
            /\ Goto("seal")
    /\ UNCHANGED <<snap, described>>

\* Only duplicates: the provenance grows and nothing is sealed again.
MergeProvenance ==
    /\ At("merge")
    /\ IF pack[S].prov.state = "torn"
       THEN Fail /\ UNCHANGED pack
       ELSE /\ pack' = [pack EXCEPT ![S].prov = Whole(NewProvenance)]
            /\ Finish("COMPLETE")
    /\ UNCHANGED <<snap, described>>

\* What is put into pack.json beside the hashes: _create_new_pack makes the
\* pack a candidate, update_pack_integrity_metadata leaves the status it read.
StatusRead(p) == IF run.stamps = 3 THEN "candidate" ELSE p.meta

\* pack.json is read, and written with a hash or the status, twice, or three
\* times if the pack is new.  Metrics, hashes and the pack index are not held.
SealPack ==
    /\ At("seal")
    /\ IF pack[S].meta = "torn" THEN Fail
       ELSE run' = [run EXCEPT !.step = "stamp", !.held = StatusRead(pack[S])]
    /\ UNCHANGED Files

StampPack ==
    /\ At("stamp")
    /\ pack' = [pack EXCEPT ![S].meta = run.held]
    /\ IF run.stamps = 1 THEN Finish("COMPLETE")
       ELSE run' = [run EXCEPT !.step = "seal", !.held = "candidate", !.stamps = @ - 1]
    /\ UNCHANGED <<snap, described>>

Some(outcomes) == \E s \in Sources : run.report[s] \in outcomes

RunStatus ==
    IF run.mode.dry THEN "CAKE_DRY_RUN"
    ELSE IF ~Some({"FAILED"}) THEN "CAKE_COMPLETE"
    ELSE IF Some({"COMPLETE", "UNCHANGED"}) THEN "CAKE_PARTIAL"
    ELSE "CAKE_FAILED"

Conclude ==
    /\ At("fetch") /\ run.queue = << >>
    /\ run' = [run EXCEPT !.step = "idle", !.status = RunStatus]
    /\ UNCHANGED Files

-----------------------------------------------------------------------------
\* PackLifecycleManager.transition reads the status; freezing is for candidates.
BeginFreeze ==
    /\ freezing = {}
    /\ \E s \in Sources : pack[s].meta = "candidate" /\ freezing' = {s}
    /\ UNCHANGED <<Files, run, late>>

\* An update has begun: it found the pack writable, or nothing there.
Writing == run.step \in {"create", "claims", "provenance", "merge", "seal", "stamp"}

Updating(s) == Writing /\ s = S

\* What was read is written, whatever has become of pack.json meanwhile.
Freeze ==
    /\ \E s \in freezing :
         /\ pack' = [pack EXCEPT ![s].meta = "frozen"]
         /\ late' = (late \/ Updating(s))
    /\ freezing' = {}
    /\ UNCHANGED <<snap, described, run>>

\* The state in which a fault can leave the file being written.
Damage ==
    \/ UNCHANGED Files
    \/ /\ At("save") /\ ~Stored(S, C)
       /\ snap' = [snap EXCEPT ![S][C] = "torn"]
       /\ UNCHANGED <<described, pack>>
    \/ /\ At("describe")
       /\ described' = [described EXCEPT ![S] = @ \cup {C}]
       /\ UNCHANGED <<snap, pack>>
    \/ /\ run.step \in {"create", "stamp"}
       /\ pack' = [pack EXCEPT ![S].meta = "torn"]
       /\ UNCHANGED <<snap, described>>
    \/ /\ At("claims")
       /\ \E f \in Cuts(Claims(pack[S])) : pack' = [pack EXCEPT ![S].claims = f]
       /\ UNCHANGED <<snap, described>>
    \/ /\ run.step \in {"provenance", "merge"} /\ pack[S].prov.state # "torn"
       /\ \E f \in Cuts(NewProvenance) : pack' = [pack EXCEPT ![S].prov = f]
       /\ UNCHANGED <<snap, described>>

Faulty == run.faults < MaxFaults

\* OSError in a write.
WriteFails ==
    /\ Faulty
    /\ run.step \in {"save", "describe", "create", "claims", "provenance", "merge", "seal", "stamp"}
    /\ Damage
    /\ run' = [Failed(run) EXCEPT !.faults = @ + 1]

\* The process dies; its report dies with it.
Crash ==
    /\ Faulty
    /\ ~At("idle")
    /\ Damage
    /\ run' = [run EXCEPT !.step = "idle", !.queue = << >>, !.fresh = << >>,
                          !.held = "candidate", !.stamps = 0, !.status = "CRASHED", !.faults = @ + 1]

\* The command that freezes fails or dies, and may leave pack.json cut.
FreezeFails ==
    /\ Faulty
    /\ \E s \in freezing : pack' \in {pack, [pack EXCEPT ![s].meta = "torn"]}
    /\ freezing' = {}
    /\ run' = [run EXCEPT !.faults = @ + 1]
    /\ UNCHANGED <<snap, described, late>>

RunStep ==
    \/ StartRun \/ Fetch \/ FetchFails
    \/ SaveSnapshot \/ DescribeSnapshot \/ Extract
    \/ OpenPack \/ CreatePack \/ WriteClaims
    \/ WriteProvenance \/ MergeProvenance \/ SealPack \/ StampPack
    \/ Conclude \/ WriteFails \/ Crash

Next ==
    \/ /\ RunStep
       /\ late' = (late /\ Writing')
       /\ UNCHANGED freezing
    \/ BeginFreeze \/ Freeze \/ FreezeFails

Spec == Init /\ [][Next]_vars

-----------------------------------------------------------------------------
\* A pack never holds a claim whose raw source was not stored first: whatever
\* the faults, the snapshot its provenance cites has a .snap file
\* (run_cake_pipeline saves before it extracts).
ClaimsHaveSnapshots ==
    \A s \in Sources :
        \A row \in ToSet(pack[s].claims.rows \o pack[s].prov.rows) :
            snap[s][row.from] # "absent"

\* What an incremental run takes for known was stored in full: has_snapshot
\* holds of no truncated snapshot, however often the save was interrupted and
\* repeated.
KnownIsWhole ==
    \A s \in Sources, c \in Contents : HasSnapshot(s, c) => snap[s][c] = "whole"

\* Runs do not add a claim that the pack has: two rows of one key come from
\* one content, so from one batch (deduplicate_claims), over any sequence of
\* contents, faults and repeated runs.
OneBatchPerKey ==
    \A s \in Sources :
        LET rows == pack[s].claims.rows
        IN  \A i, j \in DOMAIN rows :
                rows[i].key = rows[j].key => rows[i].from = rows[j].from

\* Every claim of a pack has one origin, and it is on disk.
PacksTraceable == ClaimsHaveSnapshots /\ OneBatchPerKey

\* What a source reported COMPLETE promises: every claim extracted from the
\* content fetched is in the pack, and the pack's provenance cites that
\* content for it; and a run that is CAKE_COMPLETE skipped no source but for
\* a known snapshot.
CompleteIsIngested ==
    /\ \A s \in Sources : run.report[s] = "COMPLETE" =>
         LET c == run.fetched[s]
         IN  \A k \in ToSet(ClaimKeys(c)) :
                /\ k \in Keys(pack[s].claims.rows)
                /\ Row(k, c) \in ToSet(pack[s].prov.rows)
    /\ run.status = "CAKE_COMPLETE" =>
         \A s \in Sources : run.report[s] \in {"COMPLETE", "UNCHANGED"}

\* The pack is append-only (pack_updater.py): claims.jsonl only grows, except
\* that a fault may cut short its rewriting, and one that cannot be read is
\* never written over.
NothingLost ==
    [][\A s \in Sources :
         LET old == pack[s].claims
             new == pack'[s].claims
         IN  /\ run'.faults = run.faults /\ old.state = "whole" => IsPrefix(old.rows, new.rows)
             /\ old.state = "torn" => new = old]_vars

\* A frozen pack that has claims stays as it is, whatever runs and faults
\* follow, unless an update had begun when it was frozen: that one found it
\* writable, asks no more before its writes, and may even make it a candidate
\* again; but no later one does (assert_writable, transition).
FrozenStays ==
    [][\A s \in Sources :
         pack[s].meta = "frozen" /\ pack[s].claims.state # "absent" =>
             pack'[s] = pack[s] \/ (Updating(s) /\ late)]_vars

\* cli.py, "--incremental: Skip unchanged sources by snapshot hash", and
\* docs/CAKE.md, "CAKE_COMPLETE: All sources processed successfully": after
\* such a run the claims of every source are in its pack.
CompleteRunIngested ==
    run.status = "CAKE_COMPLETE" =>
        \A s \in Sources :
            /\ run.fetched[s] \notin Malformed
            /\ ToSet(ClaimKeys(run.fetched[s])) \subseteq Keys(pack[s].claims.rows)
=============================================================================
