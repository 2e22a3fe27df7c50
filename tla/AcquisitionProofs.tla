-------------------------- MODULE AcquisitionProofs --------------------------
(***************************************************************************)
(* Proofs about the three ways in which candidate packs come to be,        *)
(* Acquisition, DocumentIngest and PackPipeline: for every configuration,  *)
(* content, extraction, set of documents, feeds and flags, and number of   *)
(* processes, runs and faults.                                             *)
(***************************************************************************)
EXTENDS Acquisition, DocumentIngest, PackPipeline, OrderProofs, FiniteSetTheorems, TLAPS

RunFields == {"step", "mode", "queue", "fetched", "fresh", "held", "stamps",
              "report", "status", "number", "faults"}

IsRun(r) ==
    /\ r = [f \in RunFields |-> r[f]]
    /\ r.queue \in Seq(Sources)

\* The files: a snapshot is described only when it was stored in full.
FilesOK ==
    /\ snap \in [Sources -> [Contents -> {"absent", "torn", "whole"}]]
    /\ described \in [Sources -> SUBSET Contents]
    /\ pack = [s \in Sources |-> [meta   |-> pack[s].meta,
                                  claims |-> pack[s].claims,
                                  prov   |-> pack[s].prov]]
    /\ \A s \in Sources : \A c \in described[s] : snap[s][c] = "whole"

Busy == run.step \notin {"idle", "fetch"}

\* A run in the middle of a source knows which, and what it fetched.
AtHand ==
    Busy => run.queue # << >> /\ S \in DOMAIN run.fetched /\ C \in Contents

\* What is about to be described has been stored; what is about to be
\* written has no claims yet or was found writable, and is not frozen since,
\* nor is a status that says so about to be written back, unless it was
\* frozen on the way.
Prepared ==
    /\ At("describe") => snap[S][C] = "whole"
    /\ At("create") => pack[S].claims.state = "absent"
    /\ run.step \in {"claims", "provenance", "merge", "seal", "stamp"} =>
         late \/ pack[S].meta # "frozen"
    /\ At("stamp") => late \/ run.held # "frozen"

Inv == IsRun(run) /\ FilesOK /\ AtHand /\ Prepared /\ freezing \in SUBSET Sources

-----------------------------------------------------------------------------
(* What the steps do to the run.                                           *)

LEMMA HeadOfQueue ==
    ASSUME NEW q \in Seq(Sources), q # << >>
    PROVE  Head(q) \in Sources /\ Tail(q) \in Seq(Sources)
  OBVIOUS

LEMMA GotoRun ==
    ASSUME IsRun(run), NEW step, Goto(step)
    PROVE  /\ IsRun(run)'
           /\ run'.step = step
           /\ run'.queue = run.queue
           /\ run'.fetched = run.fetched
  BY DEF Goto, IsRun, RunFields

LEMMA FinishRun ==
    ASSUME IsRun(run), run.queue # << >>, NEW outcome, Finish(outcome)
    PROVE  IsRun(run)' /\ run'.step = "fetch"
  <1>1. run'.queue = Tail(run.queue) /\ run'.step = "fetch"
    BY DEF Finish, IsRun, RunFields
  <1>2. Tail(run.queue) \in Seq(Sources)
    BY HeadOfQueue DEF IsRun
  <1>3. run' = [f \in RunFields |-> run'[f]]
    BY DEF Finish, IsRun, RunFields
  <1> QED
    BY <1>1, <1>2, <1>3 DEF IsRun

LEMMA FailedRun ==
    ASSUME IsRun(run), run.queue # << >>
    PROVE  IsRun(Failed(run)) /\ Failed(run).step = "fetch"
  <1>1. Failed(run).queue \in {Tail(run.queue), << >>} /\ Failed(run).step = "fetch"
    BY DEF Failed, IsRun, RunFields
  <1>2. Tail(run.queue) \in Seq(Sources) /\ << >> \in Seq(Sources)
    BY HeadOfQueue DEF IsRun
  <1>3. Failed(run) = [f \in RunFields |-> Failed(run)[f]]
    BY DEF Failed, IsRun, RunFields
  <1> QED
    BY <1>1, <1>2, <1>3 DEF IsRun

LEMMA Current ==
    ASSUME Inv, Busy \/ run.queue # << >>
    PROVE  run.queue # << >> /\ S \in Sources
  BY HeadOfQueue DEF Inv, IsRun, AtHand, S

-----------------------------------------------------------------------------
(* The inductive invariant.                                                *)

LEMMA InitInv == Init => Inv
  <1> SUFFICES ASSUME Init PROVE Inv
    OBVIOUS
  <1>1. run.queue \in Seq(Sources)
    BY DEF Init
  <1>2. run = [f \in RunFields |-> run[f]]
    <2> DEFINE r(m, report) ==
          [step |-> "idle", mode |-> m, queue |-> << >>, fetched |-> << >>, fresh |-> << >>,
           held |-> "candidate", stamps |-> 0, report |-> report, status |-> "NONE", number |-> 0, faults |-> 0]
    <2>1. \A m, report : r(m, report) = [f \in RunFields |-> r(m, report)[f]]
      BY DEF RunFields
    <2>2. \E m, report : run = r(m, report)
      BY Zenon DEF Init
    <2> HIDE DEF r
    <2> QED
      BY <2>1, <2>2
  <1>3. FilesOK
    BY DEF Init, FilesOK, NoPack
  <1>4. run.step = "idle"
    BY DEF Init
  <1>5. freezing \in SUBSET Sources
    BY DEF Init
  <1> QED
    BY <1>1, <1>2, <1>3, <1>4, <1>5 DEF Inv, IsRun, AtHand, Busy, Prepared, At

\* Between sources nothing is at hand: only the files have to be in order.
LEMMA Between ==
    ASSUME Inv, IsRun(run)', FilesOK', ~Busy', UNCHANGED freezing
    PROVE  Inv'
  BY DEF Inv, AtHand, Busy, Prepared, At

\* A step within a source keeps the source and the content.
LEMMA Within ==
    ASSUME Inv, Busy, IsRun(run)', FilesOK', UNCHANGED freezing,
           run'.queue = run.queue, run'.fetched = run.fetched,
           run'.step = "describe" => snap'[S][C] = "whole",
           run'.step = "create" => pack'[S].claims.state = "absent",
           run'.step \in {"claims", "provenance", "merge", "seal", "stamp"} =>
             late' \/ pack'[S].meta # "frozen",
           run'.step = "stamp" => late' \/ run'.held # "frozen"
    PROVE  Inv'
  <1>1. S' = S /\ C' = C
    BY DEF S, C
  <1>2. AtHand'
    BY <1>1 DEF Inv, AtHand
  <1>3. Prepared'
    BY <1>1 DEF Prepared, At
  <1> QED
    BY <1>2, <1>3 DEF Inv

LEMMA SameFiles == ASSUME FilesOK, UNCHANGED Files PROVE FilesOK'
  BY DEF FilesOK, Files

\* Writing one file of a pack leaves the others alone.
LEMMA PackWritten ==
    ASSUME FilesOK, NEW s \in Sources, NEW v, UNCHANGED <<snap, described>>
    PROVE  /\ pack' = [pack EXCEPT ![s].meta = v] => FilesOK' /\ pack'[s].meta = v
           /\ \/ pack' = [pack EXCEPT ![s].claims = v]
              \/ pack' = [pack EXCEPT ![s].prov = v]
              => FilesOK' /\ pack'[s].meta = pack[s].meta
  <1>1. /\ \/ pack' = [pack EXCEPT ![s].meta = v]
           \/ pack' = [pack EXCEPT ![s].claims = v]
           \/ pack' = [pack EXCEPT ![s].prov = v]
        => FilesOK'
    BY DEF FilesOK
  <1>2. pack[s] = [meta |-> pack[s].meta, claims |-> pack[s].claims, prov |-> pack[s].prov]
    BY DEF FilesOK
  <1>3. s \in DOMAIN pack
    BY DEF FilesOK
  <1>4. pack' = [pack EXCEPT ![s].meta = v] => pack'[s].meta = v
    BY <1>2, <1>3
  <1>5. pack' = [pack EXCEPT ![s].claims = v] => pack'[s].meta = pack[s].meta
    BY <1>2, <1>3
  <1>6. pack' = [pack EXCEPT ![s].prov = v] => pack'[s].meta = pack[s].meta
    BY <1>2, <1>3
  <1> QED
    BY <1>1, <1>4, <1>5, <1>6

\* A step leaves the rows of a source's pack as they are.
SameRows(s) == pack'[s].claims = pack[s].claims /\ pack'[s].prov = pack[s].prov

LEMMA RowsWritten ==
    ASSUME FilesOK, NEW s \in Sources, NEW f
    PROVE  /\ pack' = [pack EXCEPT ![s].claims = f] =>
                /\ pack'[s].claims = f /\ pack'[s].prov = pack[s].prov
                /\ \A t \in Sources : t # s => SameRows(t)
           /\ pack' = [pack EXCEPT ![s].prov = f] =>
                /\ pack'[s].prov = f /\ pack'[s].claims = pack[s].claims
                /\ \A t \in Sources : t # s => SameRows(t)
           /\ pack' = [pack EXCEPT ![s].meta = f] => \A t \in Sources : SameRows(t)
  <1>1. \A t \in Sources :
          pack[t] = [meta |-> pack[t].meta, claims |-> pack[t].claims, prov |-> pack[t].prov]
    BY DEF FilesOK
  <1>2. DOMAIN pack = Sources
    BY DEF FilesOK
  <1>3. \A t \in Sources : t # s =>
           /\ pack' = [pack EXCEPT ![s].claims = f] => pack'[t] = pack[t]
           /\ pack' = [pack EXCEPT ![s].prov = f] => pack'[t] = pack[t]
           /\ pack' = [pack EXCEPT ![s].meta = f] => pack'[t] = pack[t]
    BY <1>2
  <1>4. pack' = [pack EXCEPT ![s].claims = f] => pack'[s].claims = f /\ pack'[s].prov = pack[s].prov
    BY <1>1, <1>2
  <1>5. pack' = [pack EXCEPT ![s].prov = f] => pack'[s].prov = f /\ pack'[s].claims = pack[s].claims
    BY <1>1, <1>2
  <1>6. pack' = [pack EXCEPT ![s].meta = f] => pack'[s].prov = pack[s].prov /\ pack'[s].claims = pack[s].claims
    BY <1>1, <1>2
  <1> QED
    BY <1>3, <1>4, <1>5, <1>6 DEF SameRows

\* Whatever part of a file a fault leaves, the files stay in order: the
\* snapshot that it can tear was absent, so not yet described.
LEMMA DamageFiles ==
    ASSUME Inv, Busy \/ run.queue # << >> \/ UNCHANGED Files, Damage
    PROVE  FilesOK'
  <1>1. CASE UNCHANGED Files
    BY <1>1, SameFiles DEF Inv
  <1>2. CASE At("save") /\ ~Stored(S, C) /\ snap' = [snap EXCEPT ![S][C] = "torn"]
             /\ UNCHANGED <<described, pack>>
    <2>1. S \in Sources /\ C \in Contents /\ snap[S][C] = "absent"
      BY <1>2, Current DEF Inv, Busy, AtHand, At, Stored
    <2>2. C \notin described[S]
      BY <2>1 DEF Inv, FilesOK
    <2> QED
      BY <1>2, <2>1, <2>2 DEF Inv, FilesOK
  <1>3. CASE At("describe") /\ described' = [described EXCEPT ![S] = @ \cup {C}]
             /\ UNCHANGED <<snap, pack>>
    <2>1. S \in Sources /\ C \in Contents /\ snap[S][C] = "whole"
      BY <1>3, Current DEF Inv, Busy, AtHand, At, Prepared
    <2> QED
      BY <1>3, <2>1 DEF Inv, FilesOK
  <1>4. CASE /\ UNCHANGED <<snap, described>>
             /\ \/ pack' = [pack EXCEPT ![S].meta = "torn"]
                \/ \E f : pack' = [pack EXCEPT ![S].claims = f]
                \/ \E f : pack' = [pack EXCEPT ![S].prov = f]
    BY <1>4 DEF Inv, FilesOK
  <1> QED
    BY <1>1, <1>2, <1>3, <1>4 DEF Damage

LEMMA RunStepInv ==
    ASSUME Inv, RunStep, late' = (late /\ Writing'), UNCHANGED freezing
    PROVE  Inv'
  <1> USE DEF At, Writing
  <1>1. CASE StartRun
    <2>1. IsRun(run)'
      BY <1>1, SourcesAssumption DEF StartRun, Inv, IsRun, RunFields, Sources
    <2>2. ~Busy' /\ FilesOK'
      BY <1>1, SameFiles DEF StartRun, Busy, Inv, IsRun, RunFields
    <2> QED
      BY <2>1, <2>2, Between
  <1>2. CASE Fetch
    <2>1. PICK c \in Offered(S) :
            IF run.mode.incremental /\ HasSnapshot(S, c)
            THEN run' = [run EXCEPT !.report[S] = "UNCHANGED", !.fetched = Got(c),
                                    !.queue = Tail(@)]
            ELSE run' = [run EXCEPT !.fetched = Got(c), !.step = AfterFetch]
      BY <1>2 DEF Fetch
    <2>2. run.step = "fetch" /\ run.queue # << >> /\ FilesOK'
      BY <1>2, SameFiles DEF Fetch, Inv
    <2>3. S \in Sources
      BY <2>2, Current
    <2>4. CASE run' = [run EXCEPT !.report[S] = "UNCHANGED", !.fetched = Got(c),
                                  !.queue = Tail(@)]
      <3>1. run'.queue = Tail(run.queue) /\ run'.step = "fetch"
        BY <2>2, <2>4 DEF Inv, IsRun, RunFields
      <3>2. run' = [f \in RunFields |-> run'[f]]
        BY <2>4 DEF Inv, IsRun, RunFields
      <3> QED
        BY <2>2, <3>1, <3>2, HeadOfQueue, Between DEF Inv, IsRun, Busy
    <2>5. CASE run' = [run EXCEPT !.fetched = Got(c), !.step = AfterFetch]
      <3>1. /\ run'.queue = run.queue
            /\ run'.step \in {"extract", "save"}
            /\ run'.fetched = Got(c)
            /\ IsRun(run)'
        BY <2>5 DEF Inv, IsRun, RunFields, AfterFetch
      <3>2. S' = S
        BY <3>1 DEF S
      <3>3. S \in DOMAIN run'.fetched /\ run'.fetched[S] = c
        BY <3>1 DEF Got
      <3>4. C' \in Contents
        BY <2>3, <3>2, <3>3, SourcesAssumption DEF C, Sources
      <3> QED
        BY <2>2, <3>1, <3>2, <3>3, <3>4 DEF Inv, AtHand, Prepared
    <2> QED
      BY <2>1, <2>4, <2>5
  <1>3. CASE FetchFails
    BY <1>3, FailedRun, SameFiles, Between DEF FetchFails, Fail, Inv, Busy
  <1>4. CASE SaveSnapshot
    <2>1. S \in Sources /\ C \in Contents /\ Busy
      BY <1>4, Current DEF SaveSnapshot, Busy, Inv, AtHand
    <2>2. CASE Stored(S, C)
      BY <1>4, <2>1, <2>2, GotoRun, SameFiles, Within DEF SaveSnapshot, Files, Inv
    <2>3. CASE ~Stored(S, C)
      <3>1. /\ snap[S][C] = "absent"
            /\ snap' = [snap EXCEPT ![S][C] = "whole"]
            /\ UNCHANGED <<described, pack>>
            /\ Goto("describe")
        BY <1>4, <2>3 DEF SaveSnapshot, Stored
      <3>2. FilesOK' /\ snap'[S][C] = "whole"
        BY <2>1, <3>1 DEF Inv, FilesOK
      <3> QED
        BY <2>1, <3>1, <3>2, GotoRun, Within DEF Inv
    <2> QED
      BY <2>2, <2>3
  <1>5. CASE DescribeSnapshot
    <2>1. S \in Sources /\ C \in Contents /\ Busy /\ snap[S][C] = "whole"
      BY <1>5, Current DEF DescribeSnapshot, Busy, Inv, AtHand, Prepared
    <2>2. FilesOK'
      BY <1>5, <2>1 DEF DescribeSnapshot, Inv, FilesOK
    <2> QED
      BY <1>5, <2>1, <2>2, GotoRun, Within DEF DescribeSnapshot, Inv
  <1>6. CASE Extract
    <2>1. Busy /\ run.queue # << >> /\ FilesOK'
      BY <1>6, SameFiles, Current DEF Extract, Busy, Inv
    <2>2. CASE Fail \/ Finish("PENDING")
      BY <2>1, <2>2, FailedRun, FinishRun, Between DEF Fail, Inv, Busy
    <2>3. CASE Goto("update")
      BY <1>6, <2>1, <2>3, GotoRun, Within DEF Extract, Files, Inv
    <2> QED
      BY <1>6, <2>2, <2>3 DEF Extract
  <1>7. CASE OpenPack
    <2>1. Busy /\ run.queue # << >> /\ FilesOK' /\ UNCHANGED pack
      BY <1>7, SameFiles, Current DEF OpenPack, Busy, Inv, Files
    <2>2. CASE Fail \/ Finish("COMPLETE")
      BY <2>1, <2>2, FailedRun, FinishRun, Between DEF Fail, Inv, Busy
    <2>3. CASE pack[S].claims.state = "absent"
                 /\ run' = [run EXCEPT !.step = "create", !.fresh = Batch, !.stamps = 3]
      <3>1. /\ IsRun(run)' /\ run'.step = "create"
            /\ run'.queue = run.queue /\ run'.fetched = run.fetched
        BY <2>3 DEF Inv, IsRun, RunFields
      <3> QED
        BY <2>1, <2>3, <3>1, Within
    <2>4. CASE Writable(pack[S])
                 /\ run' = [run EXCEPT !.step = "claims", !.stamps = 2,
                                       !.fresh = Unique(pack[S].claims.rows, Batch)]
      <3>1. /\ IsRun(run)' /\ run'.step = "claims"
            /\ run'.queue = run.queue /\ run'.fetched = run.fetched
        BY <2>4 DEF Inv, IsRun, RunFields
      <3> QED
        BY <2>1, <2>4, <3>1, Within DEF Writable
    <2>5. CASE Writable(pack[S]) /\ Goto("merge")
      BY <2>1, <2>5, GotoRun, Within DEF Writable, Inv
    <2> QED
      BY <1>7, <2>2, <2>3, <2>4, <2>5 DEF OpenPack
  <1>8. CASE CreatePack
    <2>1. Busy /\ S \in Sources
      BY <1>8, Current DEF CreatePack, Busy
    <2>2. FilesOK' /\ pack'[S].meta = "candidate"
      BY <1>8, <2>1, PackWritten DEF CreatePack, Inv
    <2> QED
      BY <1>8, <2>1, <2>2, GotoRun, Within DEF CreatePack, Inv
  <1>9. CASE WriteClaims
    <2>1. Busy /\ S \in Sources /\ (late \/ pack[S].meta # "frozen")
      BY <1>9, Current DEF WriteClaims, Busy, Inv, Prepared
    <2>2. FilesOK' /\ (late \/ pack'[S].meta # "frozen")
      BY <1>9, <2>1, PackWritten DEF WriteClaims, Inv
    <2>3. /\ IsRun(run)' /\ run'.step = "provenance"
          /\ run'.queue = run.queue /\ run'.fetched = run.fetched
      BY <1>9, GotoRun DEF WriteClaims, Inv
    <2>4. late => late'
      BY <1>9, <2>3 DEF WriteClaims
    <2> QED
      BY <2>1, <2>2, <2>3, <2>4, Within
  <1>10. CASE WriteProvenance
    <2>1. Busy /\ S \in Sources /\ run.queue # << >> /\ (late \/ pack[S].meta # "frozen")
      BY <1>10, Current DEF WriteProvenance, Busy, Inv, Prepared
    <2>2. CASE Fail /\ UNCHANGED pack
      BY <1>10, <2>1, <2>2, FailedRun, SameFiles, Between
        DEF WriteProvenance, Fail, Files, Inv, Busy
    <2>3. CASE /\ pack' = [pack EXCEPT ![S].prov = Whole(NewProvenance)]
               /\ Goto("seal")
      <3>1. FilesOK' /\ (late \/ pack'[S].meta # "frozen")
        BY <1>10, <2>1, <2>3, PackWritten DEF WriteProvenance, Inv
      <3>2. /\ IsRun(run)' /\ run'.step = "seal"
            /\ run'.queue = run.queue /\ run'.fetched = run.fetched
        BY <2>3, GotoRun DEF Inv
      <3>3. late => late'
        BY <1>10, <3>2 DEF WriteProvenance
      <3> QED
        BY <2>1, <3>1, <3>2, <3>3, Within
    <2> QED
      BY <1>10, <2>2, <2>3 DEF WriteProvenance
  <1>11. CASE MergeProvenance
    <2>1. S \in Sources /\ run.queue # << >>
      BY <1>11, Current DEF MergeProvenance, Busy
    <2>2. FilesOK'
      BY <1>11, <2>1, SameFiles, PackWritten DEF MergeProvenance, Inv, Files
    <2> QED
      BY <1>11, <2>1, <2>2, FailedRun, FinishRun, Between
        DEF MergeProvenance, Fail, Inv, Busy
  <1>12. CASE SealPack
    <2>1. Busy /\ S \in Sources /\ run.queue # << >> /\ FilesOK' /\ UNCHANGED pack
      BY <1>12, Current, SameFiles DEF SealPack, Busy, Inv, Files
    <2>2. CASE Fail
      BY <2>1, <2>2, FailedRun, Between DEF Fail, Inv, Busy
    <2>3. CASE run' = [run EXCEPT !.step = "stamp", !.held = StatusRead(pack[S])]
      <3>1. /\ IsRun(run)' /\ run'.step = "stamp" /\ run'.held = StatusRead(pack[S])
            /\ run'.queue = run.queue /\ run'.fetched = run.fetched
        BY <2>3 DEF Inv, IsRun, RunFields
      <3>2. late \/ pack[S].meta # "frozen"
        BY <1>12 DEF SealPack, Inv, Prepared
      <3>3. late \/ run'.held # "frozen"
        BY <3>1, <3>2 DEF StatusRead
      <3> QED
        BY <2>1, <3>1, <3>2, <3>3, Within
    <2> QED
      BY <1>12, <2>2, <2>3 DEF SealPack
  <1>18. CASE StampPack
    <2>1. Busy /\ S \in Sources /\ run.queue # << >> /\ (late \/ run.held # "frozen")
      BY <1>18, Current DEF StampPack, Busy, Inv, Prepared
    <2>2. FilesOK' /\ pack'[S].meta = run.held
      BY <1>18, <2>1, PackWritten DEF StampPack, Inv
    <2>3. CASE Finish("COMPLETE")
      BY <2>1, <2>2, <2>3, FinishRun, Between DEF Inv, Busy
    <2>4. CASE run' = [run EXCEPT !.step = "seal", !.held = "candidate", !.stamps = @ - 1]
      <3>1. /\ IsRun(run)' /\ run'.step = "seal"
            /\ run'.queue = run.queue /\ run'.fetched = run.fetched
        BY <2>4 DEF Inv, IsRun, RunFields
      <3> QED
        BY <2>1, <2>2, <3>1, Within
    <2> QED
      BY <1>18, <2>3, <2>4 DEF StampPack
  <1>13. CASE Conclude
    <2>1. IsRun(run)' /\ run'.step = "idle"
      BY <1>13 DEF Conclude, Inv, IsRun, RunFields
    <2> QED
      BY <1>13, <2>1, SameFiles, Between DEF Conclude, Inv, Busy
  <1>15. CASE WriteFails
    <2>1. Busy /\ run.queue # << >> /\ FilesOK'
      BY <1>15, Current, DamageFiles DEF WriteFails, Busy
    <2>2. IsRun(run)' /\ run'.step = "fetch"
      BY <1>15, <2>1, FailedRun DEF WriteFails, Inv, IsRun, RunFields
    <2> QED
      BY <2>1, <2>2, Between DEF Busy
  <1>16. CASE Crash
    <2>1. Busy \/ UNCHANGED Files
      BY <1>16 DEF Crash, Damage, Busy
    <2>2. FilesOK'
      BY <1>16, <2>1, DamageFiles DEF Crash
    <2>3. IsRun(run)' /\ run'.step = "idle"
      <3>1. run'.queue = << >> /\ run'.step = "idle"
        BY <1>16 DEF Crash, Inv, IsRun, RunFields
      <3>2. run' = [f \in RunFields |-> run'[f]]
        BY <1>16 DEF Crash, Inv, IsRun, RunFields
      <3> QED
        BY <3>1, <3>2 DEF IsRun
    <2> QED
      BY <2>2, <2>3, Between DEF Busy
  <1> QED
    BY <1>1, <1>2, <1>3, <1>4, <1>5, <1>6, <1>7, <1>8, <1>9, <1>10, <1>11,
       <1>12, <1>13, <1>15, <1>16, <1>18 DEF RunStep

\* A freeze disturbs what an update found only when it makes it late.
LEMMA FreezeInv == ASSUME Inv, Freeze PROVE Inv'
  <1>1. PICK s \in freezing : pack' = [pack EXCEPT ![s].meta = "frozen"] /\ late' = (late \/ Updating(s))
    BY DEF Freeze
  <1>2. UNCHANGED <<snap, described, run>> /\ freezing' = {} /\ s \in Sources
    BY DEF Freeze, Inv
  <1>3. FilesOK'
    BY <1>1, <1>2, PackWritten DEF Inv
  <1>4. S' = S /\ C' = C
    BY <1>2 DEF S, C
  <1>5. \A t \in Sources : SameRows(t) /\ (t # s => pack'[t] = pack[t])
    BY <1>1, RowsWritten DEF Inv, FilesOK
  <1>6. ASSUME run.step \in {"claims", "provenance", "merge", "seal", "stamp"}
        PROVE  late' \/ pack'[S].meta # "frozen"
    <2>1. S \in Sources /\ (late \/ pack[S].meta # "frozen")
      BY <1>6, Current DEF Inv, Prepared, Busy
    <2>2. CASE S = s
      BY <1>1, <1>6, <2>2 DEF Updating, Writing
    <2>3. CASE S # s
      BY <1>1, <1>5, <2>1, <2>3
    <2> QED
      BY <2>2, <2>3
  <1>7. At("create") => pack'[S].claims.state = "absent"
    BY <1>5, Current DEF Inv, Prepared, SameRows, Busy, At
  <1>8. Prepared'
    BY <1>1, <1>2, <1>4, <1>6, <1>7 DEF Inv, Prepared, At
  <1> QED
    BY <1>2, <1>3, <1>4, <1>8 DEF Inv, AtHand, Busy, IsRun

\* Nor does one that fails, whatever it leaves of pack.json.
LEMMA FreezeFailsInv == ASSUME Inv, FreezeFails PROVE Inv'
  <1>1. PICK s \in freezing : pack' \in {pack, [pack EXCEPT ![s].meta = "torn"]}
    BY DEF FreezeFails
  <1>2. /\ UNCHANGED <<snap, described, late>> /\ freezing' = {} /\ s \in Sources
        /\ run' = [run EXCEPT !.faults = @ + 1]
    BY DEF FreezeFails, Inv
  <1>3. /\ IsRun(run)' /\ run'.step = run.step /\ run'.queue = run.queue
        /\ run'.fetched = run.fetched /\ run'.held = run.held
    BY <1>2 DEF Inv, IsRun, RunFields
  <1>4. FilesOK' /\ \A t \in Sources : SameRows(t) /\ (t # s => pack'[t] = pack[t])
    <2>1. CASE UNCHANGED pack
      BY <1>2, <2>1 DEF Inv, FilesOK, SameRows
    <2>2. CASE pack' = [pack EXCEPT ![s].meta = "torn"]
      BY <1>2, <2>2, PackWritten, RowsWritten DEF Inv, FilesOK
    <2> QED
      BY <1>1, <2>1, <2>2
  <1>5. pack'[s].meta \in {pack[s].meta, "torn"}
    BY <1>1, <1>2, PackWritten DEF Inv
  <1>6. S' = S /\ C' = C
    BY <1>3 DEF S, C
  <1>7. Busy => S \in Sources
    BY Current
  <1>8. Prepared'
    BY <1>2, <1>3, <1>4, <1>5, <1>6, <1>7 DEF Inv, Prepared, SameRows, Busy, At
  <1> QED
    BY <1>2, <1>3, <1>4, <1>6, <1>8 DEF Inv, AtHand, Busy

LEMMA StepInv == Inv /\ [Next]_vars => Inv'
  <1> SUFFICES ASSUME Inv, [Next]_vars PROVE Inv'
    OBVIOUS
  <1>1. CASE BeginFreeze
    BY <1>1 DEF BeginFreeze, Files, Inv, IsRun, FilesOK, AtHand, Busy, Prepared, At, S, C
  <1>2. CASE UNCHANGED vars
    BY <1>2 DEF vars, Inv, IsRun, FilesOK, AtHand, Busy, Prepared, At, S, C
  <1> QED
    BY <1>1, <1>2, RunStepInv, FreezeInv, FreezeFailsInv DEF Next

LEMMA Invariance == Spec => []Inv
  BY InitInv, StepInv, PTL DEF Spec

-----------------------------------------------------------------------------
\* An incremental run skips a source only for a snapshot that was stored in
\* full (CakeSnapshotStore.save, has_snapshot), after any faults.
THEOREM SnapshotsTrusted == Spec => []KnownIsWhole
  <1>1. Inv => KnownIsWhole
    BY DEF Inv, FilesOK, KnownIsWhole, HasSnapshot
  <1> QED
    BY <1>1, Invariance, PTL

\* What a step of a run writes into a pack.json, if anything.
LEMMA MetaOfRun ==
    ASSUME Inv, RunStep, NEW s \in Sources
    PROVE  \/ pack'[s].meta \in {pack[s].meta, "candidate", "torn"}
           \/ StampPack /\ s = S /\ pack'[s].meta = run.held
  <1>1. CASE UNCHANGED pack
    BY <1>1
  <1>2. CASE Busy /\ \E v \in {"candidate", "torn"} : pack' = [pack EXCEPT ![S].meta = v]
    BY <1>2, Current DEF Inv, FilesOK
  <1>3. CASE Busy /\ UNCHANGED <<snap, described>>
             /\ \E v : \/ pack' = [pack EXCEPT ![S].claims = v]
                       \/ pack' = [pack EXCEPT ![S].prov = v]
    <2>1. S \in Sources /\ FilesOK
      BY <1>3, Current DEF Inv
    <2>2. pack'[S].meta = pack[S].meta
      BY <1>3, <2>1, PackWritten
    <2>3. s # S => pack'[s] = pack[s]
      BY <1>3, <2>1 DEF FilesOK
    <2> QED
      BY <2>2, <2>3
  <1>4. CASE StampPack
    BY <1>4, Current DEF StampPack, Inv, FilesOK, Busy, At
  <1> QED
    BY <1>1, <1>2, <1>3, <1>4
      DEF RunStep, StartRun, Fetch, FetchFails, SaveSnapshot, DescribeSnapshot, Extract,
          OpenPack, CreatePack, WriteClaims, WriteProvenance, MergeProvenance, SealPack,
          Conclude, WriteFails, Crash, Damage, Files, Busy, At

\* Who freezes a pack read that it was a candidate, and no update makes it
\* frozen: one that holds the status frozen read it there.
OnceFrozen ==
    /\ \A s \in freezing : pack[s].meta # "frozen"
    /\ At("stamp") /\ run.held = "frozen" => pack[S].meta = "frozen"

LEMMA OnceFrozenStep == Inv /\ OnceFrozen /\ [Next]_vars => OnceFrozen'
  <1> SUFFICES ASSUME Inv, OnceFrozen, [Next]_vars PROVE OnceFrozen'
    OBVIOUS
  <1>1. CASE RunStep /\ UNCHANGED freezing
    <2>1. ASSUME NEW s \in freezing PROVE pack'[s].meta # "frozen"
      <3>1. s \in Sources /\ pack[s].meta # "frozen"
        BY DEF Inv, OnceFrozen
      <3>2. StampPack /\ s = S => run.held # "frozen"
        BY <3>1 DEF StampPack, OnceFrozen
      <3> QED
        BY <1>1, <3>1, <3>2, MetaOfRun
    <2>2. ASSUME run'.step = "stamp" PROVE run'.held = "frozen" => pack'[S'].meta = "frozen"
      <3>1. SealPack
        <4>1. IsRun(run)
          BY DEF Inv
        <4>2. \A step : Goto(step) => run'.step = step
          BY <4>1, GotoRun
        <4>3. \A outcome : Finish(outcome) => run'.step = "fetch"
          BY <4>1 DEF Finish, IsRun, RunFields
        <4>4. Fail => run'.step = "fetch"
          BY <4>1 DEF Fail, Failed, IsRun, RunFields
        <4>5. ~StartRun /\ ~Conclude /\ ~Crash
          BY <2>2, <4>1 DEF StartRun, Conclude, Crash, IsRun, RunFields
        <4>6. ~WriteFails
          BY <2>2, <4>1 DEF WriteFails, Failed, IsRun, RunFields
        <4>7. ~Fetch /\ ~FetchFails
          BY <2>2, <4>1, <4>4 DEF Fetch, FetchFails, AfterFetch, At, IsRun, RunFields
        <4>8. ~OpenPack
          BY <2>2, <4>1, <4>2, <4>3, <4>4 DEF OpenPack, IsRun, RunFields
        <4>9. ~StampPack
          BY <2>2, <4>1, <4>3 DEF StampPack, IsRun, RunFields
        <4>10. /\ ~SaveSnapshot /\ ~DescribeSnapshot /\ ~Extract /\ ~CreatePack
               /\ ~WriteClaims /\ ~WriteProvenance /\ ~MergeProvenance
          BY <2>2, <4>2, <4>3, <4>4 DEF SaveSnapshot, DescribeSnapshot, Extract, CreatePack,
               WriteClaims, WriteProvenance, MergeProvenance
        <4> QED
          BY <1>1, <4>5, <4>6, <4>7, <4>8, <4>9, <4>10 DEF RunStep
      <3>2. run' = [run EXCEPT !.step = "stamp", !.held = StatusRead(pack[S])] /\ UNCHANGED pack
        BY <2>2, <3>1 DEF SealPack, Fail, Failed, Inv, IsRun, RunFields, Files
      <3>3. run'.queue = run.queue /\ run'.held = StatusRead(pack[S])
        BY <3>2 DEF Inv, IsRun, RunFields
      <3> QED
        BY <3>2, <3>3 DEF StatusRead, S
    <2> QED
      BY <1>1, <2>1, <2>2 DEF OnceFrozen, At
  <1>2. CASE BeginFreeze
    BY <1>2 DEF BeginFreeze, Files, OnceFrozen, At, S
  <1>3. CASE Freeze
    <2>1. PICK s \in freezing : pack' = [pack EXCEPT ![s].meta = "frozen"]
      BY <1>3 DEF Freeze
    <2>2. UNCHANGED run /\ freezing' = {} /\ s \in Sources
      BY <1>3 DEF Freeze, Inv
    <2>3. At("stamp") => S \in Sources
      BY Current DEF Inv, Busy, At
    <2> QED
      BY <2>1, <2>2, <2>3 DEF OnceFrozen, At, S, Inv, FilesOK
  <1>4. CASE FreezeFails
    <2>1. PICK s \in freezing : pack' \in {pack, [pack EXCEPT ![s].meta = "torn"]}
      BY <1>4 DEF FreezeFails
    <2>2. /\ freezing' = {} /\ s \in Sources /\ pack[s].meta # "frozen"
          /\ run' = [run EXCEPT !.faults = @ + 1]
      BY <1>4 DEF FreezeFails, Inv, OnceFrozen
    <2>3. run'.step = run.step /\ run'.queue = run.queue /\ run'.held = run.held
      BY <2>2 DEF Inv, IsRun, RunFields
    <2>4. At("stamp") => S \in Sources
      BY Current DEF Inv, Busy, At
    <2>5. \A t \in Sources : t # s => pack'[t] = pack[t]
      BY <2>1, <2>2 DEF Inv, FilesOK
    <2> QED
      BY <2>2, <2>3, <2>4, <2>5 DEF OnceFrozen, At, S
  <1>5. CASE UNCHANGED vars
    BY <1>5 DEF vars, OnceFrozen, At, S
  <1> QED
    BY <1>1, <1>2, <1>3, <1>4, <1>5 DEF Next

\* A step writes the pack of the source at hand, and only one that was found
\* writable or has no claims, or was frozen since.
LEMMA WriteOnlyWritable ==
    ASSUME Inv, OnceFrozen, [Next]_vars, NEW s \in Sources,
           pack[s].meta = "frozen", pack[s].claims.state # "absent"
    PROVE  pack'[s] = pack[s] \/ (Updating(s) /\ late)
  <1>1. CASE Freeze
    <2>1. PICK t \in Sources : pack' = [pack EXCEPT ![t].meta = "frozen"]
      BY <1>1 DEF Freeze, Inv
    <2>2. pack[s] = [meta |-> "frozen", claims |-> pack[s].claims, prov |-> pack[s].prov]
      BY DEF Inv, FilesOK
    <2>3. DOMAIN pack = Sources
      BY DEF Inv, FilesOK
    <2>4. CASE t = s
      BY <2>1, <2>2, <2>3, <2>4
    <2>5. CASE t # s
      BY <2>1, <2>3, <2>5
    <2> QED
      BY <2>4, <2>5
  <1>2. CASE FreezeFails
    <2>1. PICK t \in freezing : pack' \in {pack, [pack EXCEPT ![t].meta = "torn"]}
      BY <1>2 DEF FreezeFails
    <2>2. t # s /\ t \in Sources
      BY DEF OnceFrozen, Inv
    <2> QED
      BY <2>1, <2>2 DEF Inv, FilesOK
  <1>3. CASE RunStep /\ Writing
    <2>1. S \in Sources /\ (S = s => late)
      BY <1>3, Current DEF Writing, Busy, Inv, Prepared, At
    <2>2. \/ UNCHANGED pack
          \/ \E v : \/ pack' = [pack EXCEPT ![S].meta = v]
                    \/ pack' = [pack EXCEPT ![S].claims = v]
                    \/ pack' = [pack EXCEPT ![S].prov = v]
      BY <1>3 DEF RunStep, StartRun, Fetch, FetchFails, SaveSnapshot, DescribeSnapshot,
                  Extract, OpenPack, CreatePack, WriteClaims, WriteProvenance,
                  MergeProvenance, SealPack, StampPack, Conclude, WriteFails, Crash,
                  Damage, Files, At, Writing
    <2>3. CASE S # s
      BY <2>1, <2>2, <2>3 DEF Inv, FilesOK
    <2> QED
      BY <1>3, <2>1, <2>3 DEF Updating
  <1>4. CASE RunStep /\ ~Writing
    BY <1>4 DEF RunStep, StartRun, Fetch, FetchFails, SaveSnapshot, DescribeSnapshot,
                Extract, OpenPack, CreatePack, WriteClaims, WriteProvenance,
                MergeProvenance, SealPack, StampPack, Conclude, WriteFails, Crash,
                Damage, Files, At, Writing
  <1> QED
    BY <1>1, <1>2, <1>3, <1>4 DEF Next, BeginFreeze, Files, vars

\* A pack that is frozen with claims in it is written by no update that comes
\* after, whatever runs, freezes and faults follow, though the pipeline asks
\* only once, before the first of several writes: only by one that was under
\* way when it was frozen.
THEOREM FrozenPacksStay == Spec => FrozenStays
  <1>1. Init => OnceFrozen
    BY DEF Init, OnceFrozen, At
  <1>2. Spec => []OnceFrozen
    BY <1>1, OnceFrozenStep, Invariance, PTL DEF Spec
  <1>3. Inv /\ OnceFrozen /\ [Next]_vars =>
          [\A s \in Sources : pack[s].meta = "frozen" /\ pack[s].claims.state # "absent"
                                => pack'[s] = pack[s] \/ (Updating(s) /\ late)]_vars
    BY WriteOnlyWritable
  <1> QED
    BY <1>2, <1>3, Invariance, PTL DEF Spec, FrozenStays

-----------------------------------------------------------------------------
(* The rows of claims.                                                     *)

\* The rows that a content gives, and those that any content gives.
RowsOf(c) == {Row(k, c) : k \in ToSet(ClaimKeys(c))}

ClaimRows == UNION {RowsOf(c) : c \in Contents}

LEMMA RowsTyped ==
    ASSUME NEW c \in Contents
    PROVE  /\ RowsOf(c) \subseteq ClaimRows
           /\ \A r \in RowsOf(c) : r.from = c /\ r.key \in ToSet(ClaimKeys(c)) /\ r = Row(r.key, c)
           /\ \A k \in ToSet(ClaimKeys(c)) : Row(k, c) \in RowsOf(c) /\ Row(k, c).key = k
  BY DEF RowsOf, ClaimRows, Row

LEMMA RowsCite ==
    ASSUME NEW r \in ClaimRows
    PROVE  r.from \in Contents
  BY RowsTyped DEF ClaimRows

\* The batch of the content at hand has its rows.
LEMMA BatchRows ==
    ASSUME C \in Contents
    PROVE  /\ Batch \in Seq(ClaimRows) /\ ToSet(Batch) = RowsOf(C)
           /\ Batch = << >> => ToSet(ClaimKeys(C)) = {}
  <1> DEFINE keys == ClaimKeys(C)
             c == C
  <1>1. keys \in Seq(ToSet(keys))
    BY ExtractedInOrder
  <1>2. DOMAIN keys = 1..Len(keys) /\ Len(keys) \in Nat
    BY <1>1
  <1>3. Batch = [i \in 1..Len(keys) |-> Row(keys[i], c)]
    BY <1>2 DEF Batch
  <1>4. \A i \in 1..Len(keys) : Row(keys[i], c) \in RowsOf(c)
    BY <1>2 DEF RowsOf, ToSet
  <1>5. ToSet(Batch) = RowsOf(c)
    <2>1. ToSet(Batch) = {Row(keys[i], c) : i \in 1..Len(keys)}
      BY <1>3 DEF ToSet
    <2>2. ToSet(keys) = {keys[i] : i \in 1..Len(keys)}
      BY <1>2 DEF ToSet
    <2> QED
      BY <2>1, <2>2 DEF RowsOf
  <1>6. Batch \in Seq(ClaimRows)
    <2>1. \A i \in 1..Len(keys) : Row(keys[i], c) \in ClaimRows
      BY <1>4, RowsTyped
    <2> HIDE DEF keys, c
    <2> QED
      BY <1>2, <1>3, <2>1
  <1>7. Batch = << >> => ToSet(keys) = {}
    BY <1>2, <1>3 DEF ToSet
  <1> QED
    BY <1>5, <1>6, <1>7

\* Taking from a batch what is not among other rows keeps rows of the batch,
\* and all of those.
LEMMA WithoutRows ==
    ASSUME NEW T, NEW rows, NEW batch \in Seq(T)
    PROVE  /\ Without(rows, batch) \in Seq(T)
           /\ ToSet(Without(rows, batch)) = {r \in ToSet(batch) : r.key \notin Keys(rows)}
  <1> DEFINE places == {i \in DOMAIN batch : batch[i].key \notin Keys(rows)}
             pos(n) == CHOOSE i \in places : Cardinality({j \in places : j <= i}) = n
             m == Cardinality(places)
  <1>1. DOMAIN batch = 1..Len(batch) /\ Len(batch) \in Nat /\ \A i \in 1..Len(batch) : batch[i] \in T
    OBVIOUS
  <1>2. places \in SUBSET Nat /\ IsFiniteSet(places)
    <2>1. places \in SUBSET (1..Len(batch))
      BY <1>1
    <2>2. IsFiniteSet(1..Len(batch))
      BY <1>1, FS_Interval
    <2> HIDE DEF places
    <2>3. IsFiniteSet(places)
      BY <2>1, <2>2, FS_Subset
    <2> QED
      BY <1>1, <2>1, <2>3
  <1>3. Without(rows, batch) = [n \in 1..m |-> batch[pos(n)]]
    BY DEF Without
  <1>4. \A r : r \in ToSet(batch) /\ r.key \notin Keys(rows) <=> \E i \in places : batch[i] = r
    BY DEF ToSet
  <1>5. \A i \in places : batch[i] \in T
    BY <1>1
  <1> HIDE DEF places
  <1>6. /\ m \in Nat
        /\ \A i \in places : Cardinality({j \in places : j <= i}) \in 1..m
        /\ \A i, k \in places : Cardinality({j \in places : j <= i}) = Cardinality({j \in places : j <= k}) => i = k
        /\ \A n \in 1..m : \E i \in places : Cardinality({j \in places : j <= i}) = n
    BY <1>2, Counting
  <1>7. ASSUME NEW n \in 1..m
        PROVE  pos(n) \in places /\ Cardinality({j \in places : j <= pos(n)}) = n
    BY <1>6
  <1>8. \A i \in places : \E n \in 1..m : pos(n) = i
    <2> TAKE i \in places
    <2> DEFINE n == Cardinality({j \in places : j <= i})
    <2>1. n \in 1..m
      BY <1>6
    <2>2. pos(n) = i
      <3>1. pos(n) \in places /\ Cardinality({j \in places : j <= pos(n)}) = n
        BY <1>7, <2>1
      <3> HIDE DEF pos
      <3> QED
        BY <1>6, <3>1
    <2> QED
      BY <2>1, <2>2
  <1> HIDE DEF pos, m
  <1>9. Without(rows, batch) \in Seq(T)
    <2> DEFINE g == [n \in 1..m |-> batch[pos(n)]]
    <2>1. \A n \in 1..m : batch[pos(n)] \in T
      BY <1>5, <1>7
    <2>2. g \in Seq(T)
      BY ONLY <1>6, <2>1
    <2> QED
      BY ONLY <1>3, <2>2
  <1>10. ToSet(Without(rows, batch)) = {batch[pos(n)] : n \in 1..m}
    BY <1>3 DEF ToSet
  <1>11. \A r : r \in ToSet(Without(rows, batch)) <=> \E i \in places : batch[i] = r
    BY <1>7, <1>8, <1>10
  <1> QED
    BY <1>4, <1>9, <1>11

\* A sequence without members is empty.
LEMMA EmptyRows ==
    ASSUME NEW T, NEW batch \in Seq(T)
    PROVE  /\ batch = << >> <=> ToSet(batch) = {}
           /\ ToSet(batch) \subseteq T
  <1>1. DOMAIN batch = 1..Len(batch) /\ Len(batch) \in Nat
    OBVIOUS
  <1>2. batch = << >> => ToSet(batch) = {}
    BY DEF ToSet
  <1>3. ASSUME ToSet(batch) = {} PROVE batch = << >>
    <2>1. 1..Len(batch) = {}
      BY <1>1, <1>3 DEF ToSet
    <2>2. Len(batch) = 0
      BY <1>1, <2>1
    <2> QED
      BY <2>2
  <1>4. ToSet(batch) \subseteq T
    BY <1>1 DEF ToSet
  <1> QED
    BY <1>2, <1>3, <1>4

\* What two sequences of rows hold, they hold together.
LEMMA Joined ==
    ASSUME NEW T, NEW x \in Seq(T), NEW y \in Seq(T)
    PROVE  /\ x \o y \in Seq(T) /\ ToSet(x \o y) = ToSet(x) \cup ToSet(y)
           /\ Keys(x \o y) = Keys(x) \cup Keys(y)
           /\ IsPrefix(x, x \o y)
  <1>1. /\ DOMAIN x = 1..Len(x) /\ Len(x) \in Nat /\ DOMAIN y = 1..Len(y) /\ Len(y) \in Nat
        /\ x \o y \in Seq(T) /\ DOMAIN (x \o y) = 1..(Len(x) + Len(y)) /\ Len(x \o y) = Len(x) + Len(y)
        /\ \A i \in 1..Len(x) : (x \o y)[i] = x[i]
    OBVIOUS
  <1>2. \A i \in 1..Len(y) : (x \o y)[Len(x) + i] = y[i] /\ Len(x) + i \in 1..(Len(x) + Len(y))
    BY <1>1
  <1>3. ToSet(x) \subseteq ToSet(x \o y)
    <2>1. 1..Len(x) \subseteq 1..(Len(x) + Len(y))
      BY <1>1
    <2> QED
      BY <1>1, <2>1 DEF ToSet
  <1>4. ToSet(y) \subseteq ToSet(x \o y)
    BY <1>1, <1>2 DEF ToSet
  <1>5. ASSUME NEW i \in 1..(Len(x) + Len(y)) PROVE (x \o y)[i] \in ToSet(x) \cup ToSet(y)
    <2>1. CASE i <= Len(x)
      BY <1>1, <2>1 DEF ToSet
    <2>2. CASE ~(i <= Len(x))
      <3>1. i - Len(x) \in 1..Len(y) /\ Len(x) + (i - Len(x)) = i
        BY <1>1, <2>2
      <3>2. (x \o y)[i] = y[i - Len(x)]
        BY <1>2, <3>1
      <3> QED
        BY <1>1, <3>1, <3>2 DEF ToSet
    <2> QED
      BY <2>1, <2>2
  <1>6. ToSet(x \o y) \subseteq ToSet(x) \cup ToSet(y)
    BY <1>1, <1>5 DEF ToSet
  <1>7. Keys(x \o y) = Keys(x) \cup Keys(y)
    BY <1>3, <1>4, <1>6 DEF Keys
  <1>8. IsPrefix(x, x \o y)
    <2>1. Len(x) <= Len(x \o y)
      BY <1>1
    <2>2. /\ SubSeq(x, 1, Len(x)) = [i \in 1..Len(x) |-> x[i]]
          /\ SubSeq(x \o y, 1, Len(x)) = [i \in 1..Len(x) |-> (x \o y)[i]]
      BY <1>1
    <2> QED
      BY <1>1, <2>1, <2>2 DEF IsPrefix
  <1> QED
    BY <1>1, <1>3, <1>4, <1>6, <1>7, <1>8

\* A fault leaves a file that cannot be read, or some of its rows.
LEMMA CutShort ==
    ASSUME NEW T, NEW x \in Seq(T), NEW f \in Cuts(x)
    PROVE  \/ f = Torn
           \/ \E y \in Seq(T) : f = Whole(y) /\ ToSet(y) \subseteq ToSet(x)
  <1>1. x # << >> /\ (f = Torn \/ \E k \in 0..(Len(x) - 1) : f = Whole(SubSeq(x, 1, k)))
    BY DEF Cuts
  <1>2. ASSUME NEW k \in 0..(Len(x) - 1)
        PROVE  SubSeq(x, 1, k) \in Seq(T) /\ ToSet(SubSeq(x, 1, k)) \subseteq ToSet(x)
    <2>1. Len(x) \in Nat /\ DOMAIN x = 1..Len(x) /\ \A i \in 1..Len(x) : x[i] \in T
      OBVIOUS
    <2>2. k \in Nat /\ k <= Len(x) /\ 1..k \subseteq 1..Len(x)
      BY <2>1
    <2>3. SubSeq(x, 1, k) = [i \in 1..k |-> x[i]]
      BY <2>1, <2>2
    <2>4. [i \in 1..k |-> x[i]] \in Seq(T) /\ DOMAIN [i \in 1..k |-> x[i]] = 1..k
      BY <2>1, <2>2
    <2>5. ToSet([i \in 1..k |-> x[i]]) \subseteq ToSet(x)
      BY <2>1, <2>2 DEF ToSet
    <2> QED
      BY <2>3, <2>4, <2>5
  <1> QED
    BY <1>1, <1>2

\* A file of a pack: rows when it is whole, and none when it cannot be read.
IsFile(f) ==
    /\ f.state \in {"absent", "torn", "whole"}
    /\ f.rows \in Seq(ClaimRows)
    /\ f.state # "whole" => f.rows = << >>

\* The rows of a key come from one content.
OneOrigin(rows) == \A x, y \in ToSet(rows) : x.key = y.key => x.from = y.from

\* What a pack holds has been stored.
StoredRows(s, rows) == \A r \in ToSet(rows) : snap[s][r.from] # "absent"

PackHolds(s) ==
    /\ IsFile(pack[s].claims) /\ IsFile(pack[s].prov)
    /\ OneOrigin(pack[s].claims.rows)
    /\ StoredRows(s, pack[s].claims.rows) /\ StoredRows(s, pack[s].prov.rows)

Writes == run.step \in {"create", "claims", "provenance", "seal", "stamp"}

\* A source whose rows may be added has been stored.
Safe == At("describe") \/ At("update") \/ At("merge") \/ Writes \/ (At("extract") /\ ~run.mode.dry)

\* What is to be added is new and, with the claims of the pack, all of what
\* was extracted; later the claims hold all of it; and at last the provenance
\* does too.
FreshHolds ==
    /\ run.fresh \in Seq(ClaimRows)
    /\ ~Writes => run.fresh = << >>
    /\ Writes => ToSet(run.fresh) \subseteq RowsOf(C)
    /\ Safe => snap[S][C] # "absent"
    /\ At("create") \/ At("claims") =>
         /\ pack[S].claims.state # "torn"
         /\ Keys(run.fresh) \cap Keys(pack[S].claims.rows) = {}
         /\ ToSet(ClaimKeys(C)) \subseteq Keys(run.fresh) \cup Keys(pack[S].claims.rows)
    /\ At("provenance") \/ At("merge") \/ At("seal") \/ At("stamp") =>
         ToSet(ClaimKeys(C)) \subseteq Keys(pack[S].claims.rows)
    /\ At("seal") \/ At("stamp") => RowsOf(C) \subseteq ToSet(pack[S].prov.rows)

\* A pack has all that was extracted from a content, and cites it.
Ingested(p, c) ==
    \A k \in ToSet(ClaimKeys(c)) : k \in Keys(p.claims.rows) /\ Row(k, c) \in ToSet(p.prov.rows)

\* What is queued is still to be reported; what is COMPLETE was ingested; a
\* source goes without a report only while it is queued, in a dry run, or
\* after a failure.
ReportHolds ==
    /\ run.report = [s \in Sources |-> run.report[s]]
    /\ \A s \in Sources : run.report[s] \in {"PENDING", "COMPLETE", "UNCHANGED", "FAILED"}
    /\ IsInjective(run.queue)
    /\ \A s \in ToSet(run.queue) : run.report[s] = "PENDING"
    /\ \A s \in Sources :
         run.report[s] = "COMPLETE" => s \in DOMAIN run.fetched /\ Ingested(pack[s], run.fetched[s])

StatusHolds ==
    /\ run.faults \in Nat
    /\ ~At("idle") => run.status = "RUNNING"
    /\ ~At("idle") => \A s \in Sources :
         run.report[s] = "PENDING" => s \in ToSet(run.queue) \/ run.mode.dry \/ Some({"FAILED"})
    /\ run.status = "CAKE_COMPLETE" =>
         \A s \in Sources : run.report[s] \in {"COMPLETE", "UNCHANGED"}

\* The invariant of the acquisition.
AcqInv ==
    /\ Inv
    /\ \A s \in Sources : PackHolds(s)
    /\ FreshHolds /\ ReportHolds /\ StatusHolds

-----------------------------------------------------------------------------
(* The packs after a write to one of them.                                 *)

\* No snapshot is taken away.
SnapGrows == \A s \in Sources, c \in Contents : snap[s][c] # "absent" => snap'[s][c] # "absent"

LEMMA PackKept ==
    ASSUME NEW s \in Sources, PackHolds(s), SnapGrows, SameRows(s)
    PROVE  PackHolds(s)'
  <1>1. ASSUME NEW f, IsFile(f), StoredRows(s, f.rows)
        PROVE  \A r \in ToSet(f.rows) : snap'[s][r.from] # "absent"
    <2>1. ToSet(f.rows) \subseteq ClaimRows
      BY <1>1, EmptyRows DEF IsFile
    <2> QED
      BY <1>1, <2>1, RowsCite DEF StoredRows, SnapGrows
  <1>2. /\ StoredRows(s, pack[s].claims.rows)' /\ StoredRows(s, pack[s].prov.rows)'
    BY <1>1 DEF PackHolds, SameRows, StoredRows
  <1> QED
    BY <1>2 DEF PackHolds, SameRows, IsFile, OneOrigin

LEMMA ClaimsKept ==
    ASSUME NEW s \in Sources, PackHolds(s), UNCHANGED snap, NEW f,
           pack'[s].claims = f, pack'[s].prov = pack[s].prov,
           IsFile(f), OneOrigin(f.rows), StoredRows(s, f.rows)
    PROVE  PackHolds(s)'
  BY DEF PackHolds, IsFile, OneOrigin, StoredRows

LEMMA ProvenanceKept ==
    ASSUME NEW s \in Sources, PackHolds(s), UNCHANGED snap, NEW f,
           pack'[s].prov = f, pack'[s].claims = pack[s].claims,
           IsFile(f), StoredRows(s, f.rows)
    PROVE  PackHolds(s)'
  BY DEF PackHolds, IsFile, OneOrigin, StoredRows

\* What the two writes of rows leave, when they succeed or are cut short.
LEMMA ClaimsWritten ==
    ASSUME AcqInv, At("claims")
    PROVE  /\ Claims(pack[S]) \in Seq(ClaimRows)
           /\ OneOrigin(Claims(pack[S])) /\ StoredRows(S, Claims(pack[S]))
           /\ Keys(Claims(pack[S])) = Keys(pack[S].claims.rows) \cup Keys(run.fresh)
           /\ IsPrefix(pack[S].claims.rows, Claims(pack[S]))
  <1> DEFINE old == pack[S].claims.rows
  <1>1. S \in Sources /\ C \in Contents
    BY Current DEF AcqInv, Inv, Busy, AtHand, At
  <1>2. old \in Seq(ClaimRows) /\ run.fresh \in Seq(ClaimRows)
    BY <1>1 DEF AcqInv, PackHolds, IsFile, FreshHolds
  <1>3. /\ ToSet(run.fresh) \subseteq RowsOf(C) /\ Keys(run.fresh) \cap Keys(old) = {}
        /\ snap[S][C] # "absent"
    BY DEF AcqInv, FreshHolds, Writes, Safe, At
  <1>4. Claims(pack[S]) = old \o run.fresh
    BY DEF Claims
  <1>5. OneOrigin(old) /\ StoredRows(S, old)
    BY <1>1 DEF AcqInv, PackHolds
  <1> HIDE DEF old
  <1>6. /\ old \o run.fresh \in Seq(ClaimRows)
        /\ ToSet(old \o run.fresh) = ToSet(old) \cup ToSet(run.fresh)
        /\ Keys(old \o run.fresh) = Keys(old) \cup Keys(run.fresh)
        /\ IsPrefix(old, old \o run.fresh)
    BY <1>2, Joined
  <1>7. \A r \in ToSet(run.fresh) : r.from = C
    BY <1>1, <1>3, RowsTyped
  <1>8. \A x, y \in ToSet(old) \cup ToSet(run.fresh) : x.key = y.key => x.from = y.from
    <2>1. \A x \in ToSet(old), y \in ToSet(run.fresh) : x.key # y.key
      BY <1>3 DEF Keys
    <2> QED
      BY <1>5, <1>7, <2>1 DEF OneOrigin
  <1>9. \A r \in ToSet(old) \cup ToSet(run.fresh) : snap[S][r.from] # "absent"
    BY <1>3, <1>5, <1>7 DEF StoredRows
  <1> QED
    BY <1>4, <1>6, <1>8, <1>9 DEF OneOrigin, StoredRows, old

LEMMA ProvenanceWritten ==
    ASSUME AcqInv, At("provenance") \/ At("merge")
    PROVE  /\ NewProvenance \in Seq(ClaimRows) /\ StoredRows(S, NewProvenance)
           /\ RowsOf(C) \subseteq ToSet(NewProvenance)
  <1> DEFINE old == pack[S].prov.rows
             more == Merged(Batch, run.fresh)
  <1>1. S \in Sources /\ C \in Contents
    BY Current DEF AcqInv, Inv, Busy, AtHand, At
  <1>2. old \in Seq(ClaimRows) /\ run.fresh \in Seq(ClaimRows)
    BY <1>1 DEF AcqInv, PackHolds, IsFile, FreshHolds
  <1>3. ToSet(run.fresh) \subseteq RowsOf(C) /\ snap[S][C] # "absent"
    <2>1. CASE At("provenance")
      BY <2>1 DEF AcqInv, FreshHolds, Writes, Safe, At
    <2>2. CASE At("merge")
      <3>1. run.fresh = << >> /\ snap[S][C] # "absent"
        BY <2>2 DEF AcqInv, FreshHolds, Writes, Safe, At
      <3>2. ToSet(run.fresh) = {}
        BY <1>2, <3>1, EmptyRows
      <3> QED
        BY <3>1, <3>2
    <2> QED
      BY <2>1, <2>2
  <1>4. Batch \in Seq(ClaimRows) /\ ToSet(Batch) = RowsOf(C)
    BY <1>1, BatchRows
  <1>5. /\ more \in Seq(ClaimRows)
        /\ ToSet(more) = {r \in RowsOf(C) : r.key \notin Keys(run.fresh)}
    BY <1>4, WithoutRows DEF Merged
  <1>6. NewProvenance = (old \o run.fresh) \o more
    BY DEF NewProvenance
  <1>7. StoredRows(S, old)
    BY <1>1 DEF AcqInv, PackHolds
  <1> HIDE DEF old, more
  <1>8. old \o run.fresh \in Seq(ClaimRows) /\ ToSet(old \o run.fresh) = ToSet(old) \cup ToSet(run.fresh)
    BY <1>2, Joined
  <1>9. /\ NewProvenance \in Seq(ClaimRows)
        /\ ToSet(NewProvenance) = (ToSet(old) \cup ToSet(run.fresh)) \cup ToSet(more)
    <2>1. \A x \in Seq(ClaimRows) :
            x \o more \in Seq(ClaimRows) /\ ToSet(x \o more) = ToSet(x) \cup ToSet(more)
      BY <1>5, Joined
    <2> QED
      BY ONLY <1>6, <1>8, <2>1
  <1>10. \A r \in RowsOf(C) : r.from = C /\ r = Row(r.key, C)
    BY <1>1, RowsTyped
  <1>11. \A r \in ToSet(NewProvenance) : snap[S][r.from] # "absent"
    BY <1>3, <1>5, <1>7, <1>9, <1>10 DEF StoredRows
  <1>12. ASSUME NEW r \in RowsOf(C) PROVE r \in ToSet(NewProvenance)
    <2>1. CASE r.key \in Keys(run.fresh)
      <3>1. PICK x \in ToSet(run.fresh) : x.key = r.key
        BY <2>1 DEF Keys
      <3>2. x = r
        BY <1>3, <1>10, <3>1
      <3> QED
        BY <1>9, <3>1, <3>2
    <2>2. CASE r.key \notin Keys(run.fresh)
      BY <1>5, <1>9, <2>2
    <2> QED
      BY <2>1, <2>2
  <1> QED
    BY <1>9, <1>11, <1>12 DEF StoredRows

LEMMA CutFile ==
    ASSUME NEW s, NEW rows \in Seq(ClaimRows), StoredRows(s, rows), NEW f \in Cuts(rows)
    PROVE  IsFile(f) /\ StoredRows(s, f.rows) /\ (OneOrigin(rows) => OneOrigin(f.rows))
  <1>1. CASE f = Torn
    <2>1. f.rows = << >> /\ f.state = "torn" /\ << >> \in Seq(ClaimRows)
      BY <1>1 DEF Torn
    <2>2. ToSet(f.rows) = {}
      BY <2>1, EmptyRows
    <2> QED
      BY <2>1, <2>2 DEF IsFile, StoredRows, OneOrigin
  <1>2. CASE \E y \in Seq(ClaimRows) : f = Whole(y) /\ ToSet(y) \subseteq ToSet(rows)
    BY <1>2 DEF Whole, IsFile, StoredRows, OneOrigin
  <1> QED
    BY <1>1, <1>2, CutShort

-----------------------------------------------------------------------------
(* The reports.                                                            *)

\* The head of the queue, and what follows it.
LEMMA QueueGoesOn ==
    ASSUME NEW q \in Seq(Sources), q # << >>, IsInjective(q)
    PROVE  /\ Head(q) \in ToSet(q) /\ IsInjective(Tail(q))
           /\ ToSet(q) = {Head(q)} \cup ToSet(Tail(q))
           /\ Head(q) \notin ToSet(Tail(q))
  <1>1. /\ DOMAIN q = 1..Len(q) /\ Len(q) \in Nat \ {0} /\ Head(q) = q[1]
        /\ DOMAIN Tail(q) = 1..(Len(q) - 1)
        /\ \A i \in 1..(Len(q) - 1) : Tail(q)[i] = q[i + 1]
    OBVIOUS
  <1>2. 1 \in DOMAIN q /\ \A i \in 1..(Len(q) - 1) : i + 1 \in DOMAIN q /\ i + 1 # 1
    BY <1>1
  <1>3. \A i \in DOMAIN q : i = 1 \/ \E j \in 1..(Len(q) - 1) : i = j + 1
    <2> TAKE i \in DOMAIN q
    <2>1. i = 1 \/ (i - 1 \in 1..(Len(q) - 1) /\ i = (i - 1) + 1)
      BY <1>1
    <2> QED
      BY <2>1
  <1>4. IsInjective(Tail(q))
    <2> SUFFICES ASSUME NEW i \in 1..(Len(q) - 1), NEW j \in 1..(Len(q) - 1), Tail(q)[i] = Tail(q)[j]
                 PROVE  i = j
      BY <1>1 DEF IsInjective
    <2>1. q[i + 1] = q[j + 1] /\ i + 1 \in DOMAIN q /\ j + 1 \in DOMAIN q
      BY <1>1, <1>2
    <2>2. i + 1 = j + 1
      BY <2>1 DEF IsInjective
    <2> QED
      BY <1>1, <2>2
  <1>5. Head(q) \notin ToSet(Tail(q))
    <2> SUFFICES ASSUME NEW i \in 1..(Len(q) - 1), Head(q) = Tail(q)[i] PROVE FALSE
      BY <1>1 DEF ToSet
    <2>1. q[1] = q[i + 1] /\ i + 1 \in DOMAIN q /\ i + 1 # 1
      BY <1>1, <1>2
    <2> QED
      BY <1>2, <2>1 DEF IsInjective
  <1>6. ToSet(Tail(q)) \subseteq ToSet(q) /\ Head(q) \in ToSet(q)
    BY <1>1, <1>2 DEF ToSet
  <1>7. ASSUME NEW i \in DOMAIN q PROVE q[i] = Head(q) \/ q[i] \in ToSet(Tail(q))
    <2>1. \A j \in 1..(Len(q) - 1) : q[j + 1] \in ToSet(Tail(q))
      BY <1>1 DEF ToSet
    <2> QED
      BY <1>1, <1>3, <2>1
  <1>8. ToSet(q) \subseteq {Head(q)} \cup ToSet(Tail(q))
    BY <1>7 DEF ToSet
  <1> QED
    BY <1>4, <1>5, <1>6, <1>8

LEMMA NoQueue == IsInjective(<< >>) /\ ToSet(<< >>) = {}
  BY DEF IsInjective, ToSet

\* Within a source: what is reported stays.
Ahead(step) ==
    /\ run'.step = step
    /\ run'.mode = run.mode /\ run'.queue = run.queue /\ run'.fetched = run.fetched
    /\ run'.report = run.report /\ run'.status = run.status /\ run'.faults = run.faults

\* Only the pack of the source at hand may change.
OthersKeep == \A s \in Sources : s # S => SameRows(s)

\* The source at hand is still to be reported, and no other in the queue.
LEMMA AtHandReported ==
    ASSUME AcqInv, run.queue # << >>
    PROVE  /\ S \in Sources /\ run.report[S] = "PENDING" /\ IsInjective(Tail(run.queue))
           /\ ToSet(run.queue) = {S} \cup ToSet(Tail(run.queue)) /\ S \notin ToSet(Tail(run.queue))
  BY QueueGoesOn, HeadOfQueue DEF AcqInv, Inv, IsRun, ReportHolds, S

LEMMA AheadReports ==
    ASSUME AcqInv, Busy, NEW step, step # "idle", Ahead(step), OthersKeep
    PROVE  ReportHolds' /\ StatusHolds'
  <1>1. run.queue # << >> /\ run.step # "idle"
    BY DEF AcqInv, Inv, AtHand, Busy
  <1>2. S \in Sources /\ run.report[S] = "PENDING"
    BY <1>1, AtHandReported
  <1>3. ASSUME NEW s \in Sources, run.report[s] = "COMPLETE"
        PROVE  s \in DOMAIN run'.fetched /\ Ingested(pack'[s], run'.fetched[s])
    <2>1. SameRows(s) /\ s \in DOMAIN run.fetched /\ Ingested(pack[s], run.fetched[s])
      BY <1>2, <1>3 DEF OthersKeep, AcqInv, ReportHolds
    <2> QED
      BY <2>1 DEF Ahead, SameRows, Ingested
  <1>4. ReportHolds'
    BY <1>3 DEF AcqInv, ReportHolds, Ahead
  <1>5. StatusHolds'
    BY <1>1 DEF AcqInv, StatusHolds, Ahead, At, Some
  <1> QED
    BY <1>4, <1>5

\* The end of a source: it is reported.
Closed(outcome) ==
    /\ run'.step = "fetch" /\ run'.fresh = << >>
    /\ run'.mode = run.mode /\ run'.fetched = run.fetched /\ run'.status = run.status
    /\ run'.report = [run.report EXCEPT ![S] = outcome]
    /\ run'.queue = Tail(run.queue) \/ (run'.queue = << >> /\ outcome = "FAILED")
    /\ run'.faults \in Nat

\* What the end of a source, with such a report, does to the other reports.
LEMMA Reporting ==
    ASSUME AcqInv, ~At("idle"), run.queue # << >>, NEW outcome,
           outcome \in {"PENDING", "COMPLETE", "UNCHANGED", "FAILED"},
           outcome = "PENDING" => run.mode.dry,
           outcome = "COMPLETE" => S \in DOMAIN run'.fetched /\ Ingested(pack'[S], run'.fetched[S]),
           OthersKeep,
           run'.step = "fetch", run'.mode = run.mode, run'.status = run.status,
           DOMAIN run.fetched \subseteq DOMAIN run'.fetched,
           \A s \in DOMAIN run.fetched : s # S => run'.fetched[s] = run.fetched[s],
           run'.report = [run.report EXCEPT ![S] = outcome],
           run'.queue = Tail(run.queue) \/ (run'.queue = << >> /\ outcome = "FAILED"),
           run'.faults \in Nat
    PROVE  ReportHolds' /\ StatusHolds'
  <1>1. /\ S \in Sources /\ run.report[S] = "PENDING" /\ IsInjective(Tail(run.queue))
        /\ ToSet(run.queue) = {S} \cup ToSet(Tail(run.queue)) /\ S \notin ToSet(Tail(run.queue))
    BY AtHandReported
  <1>2. /\ run.report = [s \in Sources |-> run.report[s]]
        /\ \A s \in Sources : run'.report[s] = IF s = S THEN outcome ELSE run.report[s]
        /\ run'.report = [s \in Sources |-> run'.report[s]]
    BY <1>1 DEF AcqInv, ReportHolds
  <1>3. /\ IsInjective(run'.queue)
        /\ ToSet(run'.queue) \subseteq ToSet(Tail(run.queue))
        /\ outcome # "FAILED" => ToSet(run'.queue) = ToSet(Tail(run.queue))
    BY <1>1, NoQueue
  <1>4. ToSet(run.queue) \subseteq Sources
    BY EmptyRows DEF AcqInv, Inv, IsRun
  <1>5. \A s \in ToSet(run'.queue) : run'.report[s] = "PENDING"
    BY <1>1, <1>2, <1>3, <1>4 DEF AcqInv, ReportHolds
  <1>6. ASSUME NEW s \in Sources, run'.report[s] = "COMPLETE"
        PROVE  s \in DOMAIN run'.fetched /\ Ingested(pack'[s], run'.fetched[s])
    <2>1. CASE s = S
      BY <1>2, <1>6, <2>1
    <2>2. CASE s # S
      <3>1. SameRows(s) /\ s \in DOMAIN run.fetched /\ Ingested(pack[s], run.fetched[s])
        BY <1>2, <1>6, <2>2 DEF OthersKeep, AcqInv, ReportHolds
      <3>2. run'.fetched[s] = run.fetched[s]
        BY <2>2, <3>1
      <3> QED
        BY <3>1, <3>2 DEF SameRows, Ingested
    <2> QED
      BY <2>1, <2>2
  <1>7. \A s \in Sources : run'.report[s] \in {"PENDING", "COMPLETE", "UNCHANGED", "FAILED"}
    BY <1>2 DEF AcqInv, ReportHolds
  <1>8. ReportHolds'
    BY <1>2, <1>3, <1>5, <1>6, <1>7 DEF ReportHolds
  <1>9. run'.status = "RUNNING"
    BY DEF AcqInv, StatusHolds
  <1>10. ASSUME NEW s \in Sources, run'.report[s] = "PENDING", ~run.mode.dry, ~Some({"FAILED"})'
         PROVE  s \in ToSet(run'.queue)
    <2>1. \A x \in Sources : run'.report[x] # "FAILED"
      BY <1>10 DEF Some
    <2>2. outcome # "FAILED" /\ s # S /\ run.report[s] = "PENDING"
      BY <1>1, <1>2, <1>10, <2>1
    <2>3. ~Some({"FAILED"})
      BY <1>1, <1>2, <2>1 DEF Some
    <2>4. s \in ToSet(run.queue)
      BY <1>10, <2>2, <2>3 DEF AcqInv, StatusHolds
    <2> QED
      BY <1>1, <1>3, <2>2, <2>4
  <1>11. StatusHolds'
    BY <1>9, <1>10 DEF StatusHolds, At
  <1> QED
    BY <1>8, <1>11

LEMMA ClosedReports ==
    ASSUME AcqInv, ~At("idle"), run.queue # << >>, NEW outcome,
           outcome \in {"PENDING", "COMPLETE", "UNCHANGED", "FAILED"}, Closed(outcome),
           outcome = "PENDING" => run.mode.dry,
           outcome = "COMPLETE" => S \in DOMAIN run.fetched /\ Ingested(pack'[S], C),
           OthersKeep
    PROVE  ReportHolds' /\ StatusHolds' /\ FreshHolds'
  <1>1. outcome = "COMPLETE" => S \in DOMAIN run'.fetched /\ Ingested(pack'[S], run'.fetched[S])
    <2>1. ASSUME outcome = "COMPLETE" PROVE Ingested(pack'[S], run'.fetched[S])
      BY <2>1 DEF Closed, C, Ingested
    <2> QED
      BY <2>1 DEF Closed
  <1>2. FreshHolds'
    BY DEF Closed, FreshHolds, Writes, Safe, At
  <1> QED
    BY <1>1, <1>2, Reporting DEF Closed

LEMMA NoneFresh ==
    ASSUME run'.fresh = << >>, run'.step \in {"idle", "fetch", "save"}
    PROVE  FreshHolds'
  BY DEF FreshHolds, Writes, Safe, At

-----------------------------------------------------------------------------
(* What the steps keep.                                                    *)

LEMMA GotoAhead ==
    ASSUME IsRun(run), NEW step, Goto(step)
    PROVE  Ahead(step) /\ run'.fresh = run.fresh
  BY DEF Goto, IsRun, RunFields, Ahead

LEMMA FinishClosed ==
    ASSUME AcqInv, NEW outcome, Finish(outcome)
    PROVE  Closed(outcome)
  BY DEF AcqInv, Inv, StatusHolds, Finish, IsRun, RunFields, Closed

LEMMA FailedClosed ==
    ASSUME AcqInv, run' = Failed(run) \/ run' = [Failed(run) EXCEPT !.faults = @ + 1]
    PROVE  Closed("FAILED")
  <1> DEFINE r == Failed(run)
  <1>1. IsRun(run) /\ run.faults \in Nat
    BY DEF AcqInv, Inv, StatusHolds
  <1>2. /\ r.step = "fetch" /\ r.fresh = << >> /\ r.mode = run.mode /\ r.fetched = run.fetched
        /\ r.status = run.status /\ r.report = [run.report EXCEPT ![S] = "FAILED"]
        /\ r.queue \in {Tail(run.queue), << >>} /\ r.faults = run.faults
    BY <1>1 DEF Failed, IsRun, RunFields
  <1>3. r = [f \in RunFields |-> r[f]]
    BY <1>1 DEF Failed, IsRun, RunFields
  <1> HIDE DEF r
  <1>4. CASE run' = r
    BY <1>1, <1>2, <1>4 DEF Closed
  <1>5. CASE run' = [r EXCEPT !.faults = @ + 1]
    <2>1. /\ run'.step = r.step /\ run'.fresh = r.fresh /\ run'.mode = r.mode /\ run'.fetched = r.fetched
          /\ run'.status = r.status /\ run'.report = r.report /\ run'.queue = r.queue
          /\ run'.faults = r.faults + 1
      BY <1>3, <1>5 DEF RunFields
    <2>2. run'.faults \in Nat
      BY ONLY <1>1, <1>2, <2>1
    <2> QED
      BY ONLY <1>2, <2>1, <2>2 DEF Closed
  <1> QED
    BY <1>4, <1>5 DEF r

\* The packs are in order.
PacksHold == \A s \in Sources : PackHolds(s)

LEMMA RowsKept ==
    ASSUME AcqInv, SnapGrows, \A s \in Sources : SameRows(s)
    PROVE  PacksHold' /\ OthersKeep
  BY PackKept DEF AcqInv, PacksHold, OthersKeep

LEMMA FilesKept ==
    ASSUME UNCHANGED Files
    PROVE  SnapGrows /\ \A s \in Sources : SameRows(s)
  BY DEF Files, SnapGrows, SameRows

LEMMA SnapWritten ==
    ASSUME AcqInv, S \in Sources, C \in Contents, snap[S][C] = "absent", NEW v, v # "absent",
           snap' = [snap EXCEPT ![S][C] = v], UNCHANGED pack
    PROVE  SnapGrows /\ (\A s \in Sources : SameRows(s)) /\ snap'[S][C] = v
  BY DEF AcqInv, Inv, FilesOK, SnapGrows, SameRows

LEMMA SameAtHand ==
    ASSUME NEW step, Ahead(step)
    PROVE  S' = S /\ C' = C
  BY DEF Ahead, S, C

LEMMA MetaWritten ==
    ASSUME AcqInv, S \in Sources, NEW v, pack' = [pack EXCEPT ![S].meta = v], UNCHANGED snap
    PROVE  SnapGrows /\ \A s \in Sources : SameRows(s)
  BY RowsWritten DEF AcqInv, Inv, SnapGrows

\* Writing one file of rows.
LEMMA ClaimsChanged ==
    ASSUME AcqInv, S \in Sources, NEW f, pack' = [pack EXCEPT ![S].claims = f], UNCHANGED snap,
           IsFile(f), OneOrigin(f.rows), StoredRows(S, f.rows)
    PROVE  PacksHold' /\ OthersKeep /\ pack'[S].claims = f /\ pack'[S].prov = pack[S].prov
  <1>1. pack'[S].claims = f /\ pack'[S].prov = pack[S].prov /\ OthersKeep
    BY RowsWritten DEF AcqInv, Inv, OthersKeep
  <1>2. SnapGrows
    BY DEF SnapGrows
  <1>3. ASSUME NEW s \in Sources PROVE PackHolds(s)'
    <2>1. CASE s = S
      BY <1>1, <2>1, ClaimsKept DEF AcqInv
    <2>2. CASE s # S
      BY <1>1, <1>2, <2>2, PackKept DEF AcqInv, OthersKeep
    <2> QED
      BY <2>1, <2>2
  <1> QED
    BY <1>1, <1>3 DEF PacksHold

LEMMA ProvenanceChanged ==
    ASSUME AcqInv, S \in Sources, NEW f, pack' = [pack EXCEPT ![S].prov = f], UNCHANGED snap,
           IsFile(f), StoredRows(S, f.rows)
    PROVE  PacksHold' /\ OthersKeep /\ pack'[S].prov = f /\ pack'[S].claims = pack[S].claims
  <1>1. pack'[S].prov = f /\ pack'[S].claims = pack[S].claims /\ OthersKeep
    BY RowsWritten DEF AcqInv, Inv, OthersKeep
  <1>2. SnapGrows
    BY DEF SnapGrows
  <1>3. ASSUME NEW s \in Sources PROVE PackHolds(s)'
    <2>1. CASE s = S
      BY <1>1, <2>1, ProvenanceKept DEF AcqInv
    <2>2. CASE s # S
      BY <1>1, <1>2, <2>2, PackKept DEF AcqInv, OthersKeep
    <2> QED
      BY <2>1, <2>2
  <1> QED
    BY <1>1, <1>3 DEF PacksHold

LEMMA WholeFile ==
    ASSUME NEW rows \in Seq(ClaimRows)
    PROVE  IsFile(Whole(rows)) /\ Whole(rows).rows = rows /\ Whole(rows).state = "whole"
  BY DEF IsFile, Whole

\* A fault spoils no more than the file being written, and no claims that
\* could not be read.
LEMMA DamageKeeps ==
    ASSUME AcqInv, Busy \/ UNCHANGED Files, Damage
    PROVE  /\ PacksHold'
           /\ Busy => OthersKeep
           /\ ~Busy => \A s \in Sources : SameRows(s)
           /\ \A s \in Sources : pack[s].claims.state = "torn" => pack'[s].claims = pack[s].claims
  <1>0. Busy => S \in Sources /\ C \in Contents
    BY Current DEF AcqInv, Inv, AtHand
  <1> DEFINE TornStay == \A s \in Sources :
               pack[s].claims.state = "torn" => pack'[s].claims = pack[s].claims
  <1>a. (\A s \in Sources : SameRows(s)) => TornStay
    BY DEF SameRows
  <1>1. CASE UNCHANGED Files
    BY <1>1, <1>a, FilesKept, RowsKept
  <1>2. CASE At("save") /\ ~Stored(S, C) /\ snap' = [snap EXCEPT ![S][C] = "torn"]
             /\ UNCHANGED <<described, pack>>
    <2>1. Busy /\ snap[S][C] = "absent"
      BY <1>2 DEF Busy, At, Stored
    <2>2. SnapGrows /\ \A s \in Sources : SameRows(s)
      BY <1>0, <1>2, <2>1, SnapWritten
    <2> QED
      BY <2>2, <1>a, RowsKept
  <1>3. CASE At("describe") /\ UNCHANGED <<snap, pack>>
    <2>1. SnapGrows /\ \A s \in Sources : SameRows(s)
      BY <1>3 DEF SnapGrows, SameRows
    <2> QED
      BY <2>1, <1>a, RowsKept
  <1>4. CASE run.step \in {"create", "stamp"} /\ pack' = [pack EXCEPT ![S].meta = "torn"]
             /\ UNCHANGED <<snap, described>>
    <2>1. SnapGrows /\ \A s \in Sources : SameRows(s)
      BY <1>0, <1>4, MetaWritten DEF Busy
    <2> QED
      BY <2>1, <1>a, RowsKept
  <1>5. CASE At("claims") /\ (\E f \in Cuts(Claims(pack[S])) : pack' = [pack EXCEPT ![S].claims = f])
             /\ UNCHANGED <<snap, described>>
    <2>1. PICK f \in Cuts(Claims(pack[S])) : pack' = [pack EXCEPT ![S].claims = f]
      BY <1>5
    <2>2. Busy /\ S \in Sources
      BY <1>0, <1>5 DEF Busy, At
    <2>3. IsFile(f) /\ OneOrigin(f.rows) /\ StoredRows(S, f.rows)
      BY <1>5, ClaimsWritten, CutFile
    <2>4. PacksHold' /\ OthersKeep
      BY <1>5, <2>1, <2>2, <2>3, ClaimsChanged
    <2>5. pack[S].claims.state # "torn"
      BY <1>5 DEF AcqInv, FreshHolds
    <2>6. TornStay
      BY <2>4, <2>5 DEF OthersKeep, SameRows
    <2> QED
      BY <2>2, <2>4, <2>6
  <1>6. CASE /\ run.step \in {"provenance", "merge"}
             /\ \E f \in Cuts(NewProvenance) : pack' = [pack EXCEPT ![S].prov = f]
             /\ UNCHANGED <<snap, described>>
    <2>1. PICK f \in Cuts(NewProvenance) : pack' = [pack EXCEPT ![S].prov = f]
      BY <1>6
    <2>2. Busy /\ S \in Sources
      BY <1>0, <1>6 DEF Busy
    <2>3. NewProvenance \in Seq(ClaimRows) /\ StoredRows(S, NewProvenance)
      BY <1>6, ProvenanceWritten DEF At
    <2>4. IsFile(f) /\ StoredRows(S, f.rows)
      BY <2>3, CutFile
    <2>5. PacksHold' /\ OthersKeep /\ pack'[S].claims = pack[S].claims
      BY <1>6, <2>1, <2>2, <2>4, ProvenanceChanged
    <2>6. TornStay
      BY <2>5 DEF OthersKeep, SameRows
    <2> QED
      BY <2>2, <2>5, <2>6
  <1> QED
    BY <1>1, <1>2, <1>3, <1>4, <1>5, <1>6 DEF Damage

\* What AcqInv adds to Inv; the steps keep it one by one.
Rest == PacksHold /\ FreshHolds /\ ReportHolds /\ StatusHolds

LEMMA StartRunRest ==
    ASSUME AcqInv, StartRun PROVE Rest'
  <1>1. IsRun(run) /\ run.step = "idle" /\ UNCHANGED Files /\ run.faults \in Nat
    BY DEF StartRun, AcqInv, Inv, StatusHolds, At
  <1>2. PICK m \in Modes :
          run' = [run EXCEPT !.step = "fetch", !.mode = m, !.queue = SourceOrder,
                             !.report = [s \in Sources |-> "PENDING"],
                             !.fetched = << >>, !.status = "RUNNING", !.number = @ + 1]
    BY DEF StartRun
  <1>3. /\ run'.step = "fetch" /\ run'.queue = SourceOrder /\ run'.status = "RUNNING"
        /\ run'.report = [s \in Sources |-> "PENDING"]
        /\ run'.fresh = run.fresh /\ run'.faults = run.faults
    BY <1>1, <1>2 DEF IsRun, RunFields
  <1>4. PacksHold'
    BY <1>1, FilesKept, RowsKept
  <1>5. run'.fresh = << >>
    BY <1>1, <1>3 DEF AcqInv, FreshHolds, Writes, At
  <1>6. FreshHolds'
    BY <1>3, <1>5, NoneFresh
  <1>7. ReportHolds' /\ StatusHolds'
    BY <1>1, <1>3, SourcesAssumption DEF ReportHolds, StatusHolds, At, Sources
  <1> QED
    BY <1>4, <1>6, <1>7 DEF Rest

LEMMA FetchRest ==
    ASSUME AcqInv, Fetch PROVE Rest'
  <1>1. IsRun(run) /\ run.step = "fetch" /\ run.queue # << >> /\ UNCHANGED Files /\ run.faults \in Nat
    BY DEF Fetch, AcqInv, Inv, StatusHolds, At
  <1>2. PICK c \in Offered(S) :
          IF run.mode.incremental /\ HasSnapshot(S, c)
          THEN run' = [run EXCEPT !.report[S] = "UNCHANGED", !.fetched = Got(c), !.queue = Tail(@)]
          ELSE run' = [run EXCEPT !.fetched = Got(c), !.step = AfterFetch]
    BY DEF Fetch
  <1>3. PacksHold' /\ OthersKeep
    BY <1>1, FilesKept, RowsKept
  <1>4. run.fresh = << >>
    BY <1>1 DEF AcqInv, FreshHolds, Writes, At
  <1>5. /\ DOMAIN run.fetched \subseteq DOMAIN Got(c)
        /\ \A s \in DOMAIN run.fetched : s # S => Got(c)[s] = run.fetched[s]
    BY DEF Got
  <1>6. S \in Sources /\ run.report[S] = "PENDING"
    BY <1>1, AtHandReported
  <1>7. CASE run' = [run EXCEPT !.report[S] = "UNCHANGED", !.fetched = Got(c), !.queue = Tail(@)]
    <2>1. /\ run'.step = "fetch" /\ run'.fresh = << >> /\ run'.mode = run.mode
          /\ run'.fetched = Got(c) /\ run'.status = run.status /\ run'.faults = run.faults
          /\ run'.report = [run.report EXCEPT ![S] = "UNCHANGED"] /\ run'.queue = Tail(run.queue)
      BY <1>1, <1>4, <1>7 DEF IsRun, RunFields
    <2>2. ReportHolds' /\ StatusHolds'
      BY <1>1, <1>3, <1>5, <2>1, Reporting DEF At
    <2> QED
      BY <1>3, <2>1, <2>2, NoneFresh DEF Rest
  <1>8. CASE run' = [run EXCEPT !.fetched = Got(c), !.step = AfterFetch]
    <2>1. /\ run'.step = AfterFetch /\ run'.fresh = << >> /\ run'.mode = run.mode
          /\ run'.fetched = Got(c) /\ run'.status = run.status /\ run'.faults = run.faults
          /\ run'.report = run.report /\ run'.queue = run.queue
      BY <1>1, <1>4, <1>8 DEF IsRun, RunFields
    <2>2. AfterFetch = "save" \/ (AfterFetch = "extract" /\ run.mode.dry)
      BY DEF AfterFetch
    <2>3. ASSUME NEW s \in Sources, run.report[s] = "COMPLETE"
          PROVE  s \in DOMAIN run'.fetched /\ Ingested(pack'[s], run'.fetched[s])
      <3>1. s # S /\ SameRows(s) /\ s \in DOMAIN run.fetched /\ Ingested(pack[s], run.fetched[s])
        BY <1>3, <1>6, <2>3 DEF OthersKeep, AcqInv, ReportHolds
      <3>2. run'.fetched[s] = run.fetched[s] /\ s \in DOMAIN run'.fetched
        BY <1>5, <2>1, <3>1
      <3> QED
        BY <3>1, <3>2 DEF SameRows, Ingested
    <2>4. ReportHolds'
      BY <2>1, <2>3 DEF AcqInv, ReportHolds
    <2>5. StatusHolds'
      BY <1>1, <2>1, <2>2 DEF AcqInv, StatusHolds, At, Some
    <2>6. FreshHolds'
      BY <2>1, <2>2 DEF FreshHolds, Writes, Safe, At
    <2> QED
      BY <1>3, <2>4, <2>5, <2>6 DEF Rest
  <1> QED
    BY <1>2, <1>7, <1>8

LEMMA FailedRest ==
    ASSUME AcqInv, ~At("idle"), run.queue # << >>, Fail, UNCHANGED Files
    PROVE  Rest'
  <1>1. PacksHold' /\ OthersKeep
    BY FilesKept, RowsKept
  <1>2. Closed("FAILED")
    BY FailedClosed DEF Fail
  <1> QED
    BY <1>1, <1>2, ClosedReports DEF Rest

LEMMA SaveSnapshotRest ==
    ASSUME AcqInv, SaveSnapshot PROVE Rest'
  <1>1. Busy /\ IsRun(run) /\ run.step = "save" /\ UNCHANGED <<described, pack>>
    BY DEF SaveSnapshot, AcqInv, Inv, Busy, At
  <1>2. S \in Sources /\ C \in Contents /\ run.fresh = << >>
    BY <1>1, Current DEF AcqInv, Inv, AtHand, FreshHolds, Writes, At
  <1>3. PICK step \in {"extract", "describe"} :
          Goto(step) /\ SnapGrows /\ (\A s \in Sources : SameRows(s)) /\ snap'[S][C] # "absent"
    <2>1. CASE Stored(S, C)
      <3>1. Goto("extract") /\ UNCHANGED Files
        BY <1>1, <2>1 DEF SaveSnapshot, Files
      <3>2. SnapGrows /\ (\A s \in Sources : SameRows(s)) /\ snap'[S][C] # "absent"
        BY <2>1, <3>1, FilesKept DEF Stored, Files
      <3> QED
        BY <3>1, <3>2
    <2>2. CASE ~Stored(S, C)
      <3>1. Goto("describe") /\ snap[S][C] = "absent" /\ snap' = [snap EXCEPT ![S][C] = "whole"]
        BY <2>2 DEF SaveSnapshot, Stored
      <3>2. SnapGrows /\ (\A s \in Sources : SameRows(s)) /\ snap'[S][C] = "whole"
        BY <1>1, <1>2, <3>1, SnapWritten
      <3> QED
        BY <3>1, <3>2
    <2> QED
      BY <2>1, <2>2
  <1>4. Ahead(step) /\ run'.fresh = << >>
    BY <1>1, <1>2, <1>3, GotoAhead
  <1>5. PacksHold' /\ OthersKeep
    BY <1>3, RowsKept
  <1>6. ReportHolds' /\ StatusHolds'
    BY <1>1, <1>4, <1>5, AheadReports
  <1>7. S' = S /\ C' = C
    BY <1>4, SameAtHand
  <1>8. FreshHolds'
    BY <1>3, <1>4, <1>7 DEF FreshHolds, Writes, At, Ahead
  <1> QED
    BY <1>5, <1>6, <1>8 DEF Rest

LEMMA DescribeSnapshotRest ==
    ASSUME AcqInv, DescribeSnapshot PROVE Rest'
  <1>1. Busy /\ IsRun(run) /\ run.step = "describe" /\ UNCHANGED <<snap, pack>> /\ Goto("extract")
    BY DEF DescribeSnapshot, AcqInv, Inv, Busy, At
  <1>2. run.fresh = << >> /\ snap[S][C] # "absent"
    BY <1>1 DEF AcqInv, FreshHolds, Writes, Safe, At
  <1>3. SnapGrows /\ \A s \in Sources : SameRows(s)
    BY <1>1 DEF SnapGrows, SameRows
  <1>4. Ahead("extract") /\ run'.fresh = << >>
    BY <1>1, <1>2, GotoAhead
  <1>5. PacksHold' /\ OthersKeep
    BY <1>3, RowsKept
  <1>6. ReportHolds' /\ StatusHolds'
    BY <1>1, <1>4, <1>5, AheadReports
  <1>7. S' = S /\ C' = C
    BY <1>4, SameAtHand
  <1>8. FreshHolds'
    BY <1>1, <1>2, <1>4, <1>7 DEF FreshHolds, Writes, At, Ahead
  <1> QED
    BY <1>5, <1>6, <1>8 DEF Rest

LEMMA ExtractRest ==
    ASSUME AcqInv, Extract PROVE Rest'
  <1>1. Busy /\ IsRun(run) /\ run.step = "extract" /\ UNCHANGED Files /\ run.queue # << >>
    BY Current DEF Extract, AcqInv, Inv, Busy, At
  <1>2. run.fresh = << >>
    BY <1>1 DEF AcqInv, FreshHolds, Writes, At
  <1>3. PacksHold' /\ OthersKeep
    BY <1>1, FilesKept, RowsKept
  <1>4. CASE Fail
    BY <1>1, <1>4, FailedRest DEF At
  <1>5. CASE run.mode.dry /\ Finish("PENDING")
    <2>1. Closed("PENDING")
      BY <1>5, FinishClosed
    <2> QED
      BY <1>1, <1>3, <1>5, <2>1, ClosedReports DEF Rest, At
  <1>6. CASE ~run.mode.dry /\ Goto("update")
    <2>1. Ahead("update") /\ run'.fresh = << >>
      BY <1>1, <1>2, <1>6, GotoAhead
    <2>2. ReportHolds' /\ StatusHolds'
      BY <1>1, <1>3, <2>1, AheadReports
    <2>3. S' = S /\ C' = C
      BY <2>1, SameAtHand
    <2>4. snap[S][C] # "absent"
      BY <1>1, <1>6 DEF AcqInv, FreshHolds, Safe, At
    <2>5. FreshHolds'
      BY <1>1, <2>1, <2>3, <2>4 DEF FreshHolds, Writes, At, Ahead, Files
    <2> QED
      BY <1>3, <2>2, <2>5 DEF Rest
  <1> QED
    BY <1>4, <1>5, <1>6 DEF Extract

LEMMA OpenPackRest ==
    ASSUME AcqInv, OpenPack PROVE Rest'
  <1> DEFINE old == pack[S].claims.rows
             fresh == Unique(old, Batch)
  <1>1. Busy /\ IsRun(run) /\ run.step = "update" /\ UNCHANGED Files /\ run.queue # << >>
    BY Current DEF OpenPack, AcqInv, Inv, Busy, At
  <1>2. S \in Sources /\ C \in Contents /\ S \in DOMAIN run.fetched
        /\ run.fresh = << >> /\ snap[S][C] # "absent"
    BY <1>1, Current DEF AcqInv, Inv, AtHand, FreshHolds, Writes, Safe, At
  <1>3. PacksHold' /\ OthersKeep
    BY <1>1, FilesKept, RowsKept
  <1>4. PackHolds(S)
    BY <1>2 DEF AcqInv
  <1>5. /\ Batch \in Seq(ClaimRows) /\ ToSet(Batch) = RowsOf(C)
        /\ Batch = << >> => ToSet(ClaimKeys(C)) = {}
    BY <1>2, BatchRows
  <1>6. fresh \in Seq(ClaimRows) /\ ToSet(fresh) = {r \in RowsOf(C) : r.key \notin Keys(old)}
    BY <1>5, WithoutRows DEF Unique
  <1>7. \A k \in ToSet(ClaimKeys(C)) : Row(k, C) \in RowsOf(C) /\ Row(k, C).key = k
    BY <1>2, RowsTyped
  <1>8. /\ Keys(fresh) \cap Keys(old) = {}
        /\ ToSet(ClaimKeys(C)) \subseteq Keys(fresh) \cup Keys(old)
        /\ ToSet(fresh) \subseteq RowsOf(C)
    <2>1. \A k \in ToSet(ClaimKeys(C)) : k \in Keys(old) \/ Row(k, C) \in ToSet(fresh)
      BY <1>6, <1>7
    <2>2. ToSet(ClaimKeys(C)) \subseteq Keys(fresh) \cup Keys(old)
      BY <1>7, <2>1 DEF Keys
    <2> QED
      BY <1>6, <2>2 DEF Keys
  <1> HIDE DEF fresh
  <1>9. CASE pack[S].claims.state = "absent" /\ run' = [run EXCEPT !.step = "create", !.fresh = Batch, !.stamps = 3]
    <2>1. Ahead("create") /\ run'.fresh = Batch
      BY <1>1, <1>9 DEF IsRun, RunFields, Ahead
    <2>2. ReportHolds' /\ StatusHolds'
      BY <1>1, <1>3, <2>1, AheadReports
    <2>3. S' = S /\ C' = C
      BY <2>1, SameAtHand
    <2>4. Keys(old) = {}
      <3>1. ToSet(old) = {}
        BY <1>4, <1>9, EmptyRows DEF PackHolds, IsFile
      <3> QED
        BY <3>1 DEF Keys
    <2>5. ToSet(ClaimKeys(C)) \subseteq Keys(Batch)
      BY <1>5, <1>7 DEF Keys
    <2>6. FreshHolds'
      <3>1. /\ Batch \in Seq(ClaimRows) /\ ToSet(Batch) \subseteq RowsOf(C)
            /\ snap[S][C] # "absent" /\ pack[S].claims.state # "torn"
            /\ Keys(Batch) \cap Keys(old) = {}
            /\ ToSet(ClaimKeys(C)) \subseteq Keys(Batch) \cup Keys(old)
        BY <1>2, <1>5, <1>9, <2>4, <2>5
      <3> QED
        BY <1>1, <2>1, <2>3, <3>1 DEF FreshHolds, Writes, At, Ahead, Files
    <2> QED
      BY <1>3, <2>2, <2>6 DEF Rest
  <1>10. CASE Fail
    BY <1>1, <1>10, FailedRest DEF At
  <1>11. CASE pack[S].claims.state # "torn" /\ run' = [run EXCEPT !.step = "claims", !.fresh = fresh, !.stamps = 2]
    <2>1. Ahead("claims") /\ run'.fresh = fresh
      BY <1>1, <1>11 DEF IsRun, RunFields, Ahead
    <2>2. ReportHolds' /\ StatusHolds'
      BY <1>1, <1>3, <2>1, AheadReports
    <2>3. S' = S /\ C' = C
      BY <2>1, SameAtHand
    <2>4. FreshHolds'
      BY <1>1, <1>2, <1>6, <1>8, <1>11, <2>1, <2>3 DEF FreshHolds, Writes, At, Ahead, Files
    <2> QED
      BY <1>3, <2>2, <2>4 DEF Rest
  <1>12. CASE fresh = << >> /\ Goto("merge")
    <2>1. Ahead("merge") /\ run'.fresh = << >>
      BY <1>1, <1>2, <1>12, GotoAhead
    <2>2. ReportHolds' /\ StatusHolds'
      BY <1>1, <1>3, <2>1, AheadReports
    <2>3. S' = S /\ C' = C
      BY <2>1, SameAtHand
    <2>4. ToSet(ClaimKeys(C)) \subseteq Keys(old)
      <3>1. ToSet(fresh) = {}
        BY <1>6, <1>12, EmptyRows
      <3> QED
        BY <1>8, <3>1 DEF Keys
    <2>5. FreshHolds'
      BY <1>1, <1>2, <2>1, <2>3, <2>4 DEF FreshHolds, Writes, At, Ahead, Files
    <2> QED
      BY <1>3, <2>2, <2>5 DEF Rest
  <1>13. CASE Batch = << >> /\ Finish("COMPLETE")
    <2>1. Closed("COMPLETE")
      BY <1>13, FinishClosed
    <2>2. Ingested(pack'[S], C)
      BY <1>5, <1>13 DEF Ingested
    <2> QED
      BY <1>1, <1>2, <1>3, <2>1, <2>2, ClosedReports DEF Rest, At
  <1> QED
    BY <1>9, <1>10, <1>11, <1>12, <1>13 DEF OpenPack, fresh

LEMMA CreatePackRest ==
    ASSUME AcqInv, CreatePack PROVE Rest'
  <1>1. /\ Busy /\ IsRun(run) /\ run.step = "create" /\ UNCHANGED <<snap, described>>
        /\ pack' = [pack EXCEPT ![S].meta = "candidate"] /\ Goto("claims")
    BY DEF CreatePack, AcqInv, Inv, Busy, At
  <1>2. S \in Sources
    BY <1>1, Current DEF AcqInv
  <1>3. SnapGrows /\ \A s \in Sources : SameRows(s)
    BY <1>1, <1>2, MetaWritten
  <1>4. PacksHold' /\ OthersKeep
    BY <1>3, RowsKept
  <1>5. Ahead("claims") /\ run'.fresh = run.fresh
    BY <1>1, GotoAhead
  <1>6. ReportHolds' /\ StatusHolds'
    BY <1>1, <1>4, <1>5, AheadReports
  <1>7. S' = S /\ C' = C
    BY <1>5, SameAtHand
  <1>8. pack'[S].claims = pack[S].claims
    BY <1>2, <1>3 DEF SameRows
  <1>9. FreshHolds'
    BY <1>1, <1>5, <1>7, <1>8 DEF AcqInv, FreshHolds, Writes, Safe, At, Ahead
  <1> QED
    BY <1>4, <1>6, <1>9 DEF Rest

LEMMA WriteClaimsRest ==
    ASSUME AcqInv, WriteClaims PROVE Rest'
  <1> DEFINE rows == Claims(pack[S])
  <1>1. /\ Busy /\ IsRun(run) /\ run.step = "claims" /\ UNCHANGED <<snap, described>>
        /\ pack' = [pack EXCEPT ![S].claims = Whole(rows)] /\ Goto("provenance")
    BY DEF WriteClaims, AcqInv, Inv, Busy, At
  <1>2. S \in Sources
    BY <1>1, Current DEF AcqInv
  <1>3. /\ rows \in Seq(ClaimRows) /\ OneOrigin(rows) /\ StoredRows(S, rows)
        /\ Keys(rows) = Keys(pack[S].claims.rows) \cup Keys(run.fresh)
    BY <1>1, ClaimsWritten DEF At
  <1> HIDE DEF rows
  <1>4. PacksHold' /\ OthersKeep /\ pack'[S].claims = Whole(rows)
    BY <1>1, <1>2, <1>3, WholeFile, ClaimsChanged
  <1>5. Ahead("provenance") /\ run'.fresh = run.fresh
    BY <1>1, GotoAhead
  <1>6. ReportHolds' /\ StatusHolds'
    BY <1>1, <1>4, <1>5, AheadReports
  <1>7. S' = S /\ C' = C
    BY <1>5, SameAtHand
  <1>8. /\ run.fresh \in Seq(ClaimRows) /\ ToSet(run.fresh) \subseteq RowsOf(C)
        /\ snap[S][C] # "absent" /\ ToSet(ClaimKeys(C)) \subseteq Keys(rows)
    BY <1>1, <1>3 DEF AcqInv, FreshHolds, Writes, Safe, At
  <1>9. pack'[S].claims.rows = rows
    BY <1>3, <1>4, WholeFile
  <1>10. FreshHolds'
    BY <1>1, <1>5, <1>7, <1>8, <1>9 DEF FreshHolds, Writes, Safe, At, Ahead
  <1> QED
    BY <1>4, <1>6, <1>10 DEF Rest

\* The provenance is extended, at the end of an addition or alone.
LEMMA ProvenanceExtended ==
    ASSUME AcqInv, At("provenance") \/ At("merge"), UNCHANGED snap,
           pack' = [pack EXCEPT ![S].prov = Whole(NewProvenance)]
    PROVE  /\ PacksHold' /\ OthersKeep /\ S \in Sources /\ C \in Contents
           /\ pack'[S].claims = pack[S].claims
           /\ RowsOf(C) \subseteq ToSet(pack'[S].prov.rows)
           /\ ToSet(ClaimKeys(C)) \subseteq Keys(pack[S].claims.rows)
           /\ Ingested(pack'[S], C)
  <1>1. Busy /\ S \in Sources /\ C \in Contents
    BY Current DEF AcqInv, Inv, AtHand, Busy, At
  <1>2. /\ NewProvenance \in Seq(ClaimRows) /\ StoredRows(S, NewProvenance)
        /\ RowsOf(C) \subseteq ToSet(NewProvenance)
    BY ProvenanceWritten
  <1>3. /\ IsFile(Whole(NewProvenance)) /\ Whole(NewProvenance).rows = NewProvenance
    BY <1>2, WholeFile
  <1>4. /\ PacksHold' /\ OthersKeep /\ pack'[S].prov = Whole(NewProvenance)
        /\ pack'[S].claims = pack[S].claims
    BY <1>1, <1>2, <1>3, ProvenanceChanged
  <1>5. ToSet(ClaimKeys(C)) \subseteq Keys(pack[S].claims.rows)
    BY DEF AcqInv, FreshHolds
  <1>6. \A k \in ToSet(ClaimKeys(C)) : Row(k, C) \in RowsOf(C)
    BY <1>1, RowsTyped
  <1>7. RowsOf(C) \subseteq ToSet(pack'[S].prov.rows)
    BY <1>2, <1>3, <1>4
  <1> QED
    BY <1>1, <1>4, <1>5, <1>6, <1>7 DEF Ingested

LEMMA WriteProvenanceRest ==
    ASSUME AcqInv, WriteProvenance PROVE Rest'
  <1>1. /\ Busy /\ IsRun(run) /\ run.step = "provenance" /\ UNCHANGED <<snap, described>> /\ run.queue # << >>
    BY Current DEF WriteProvenance, AcqInv, Inv, Busy, At
  <1>2. CASE Fail /\ UNCHANGED pack
    BY <1>1, <1>2, FailedRest DEF At, Files
  <1>3. CASE pack' = [pack EXCEPT ![S].prov = Whole(NewProvenance)] /\ Goto("seal")
    <2>1. /\ PacksHold' /\ OthersKeep /\ pack'[S].claims = pack[S].claims
          /\ RowsOf(C) \subseteq ToSet(pack'[S].prov.rows)
          /\ ToSet(ClaimKeys(C)) \subseteq Keys(pack[S].claims.rows)
      BY <1>1, <1>3, ProvenanceExtended DEF At
    <2>2. Ahead("seal") /\ run'.fresh = run.fresh
      BY <1>1, <1>3, GotoAhead
    <2>3. ReportHolds' /\ StatusHolds'
      BY <1>1, <2>1, <2>2, AheadReports
    <2>4. S' = S /\ C' = C
      BY <2>2, SameAtHand
    <2>5. FreshHolds'
      BY <1>1, <2>1, <2>2, <2>4 DEF AcqInv, FreshHolds, Writes, Safe, At, Ahead
    <2> QED
      BY <2>1, <2>3, <2>5 DEF Rest
  <1> QED
    BY <1>2, <1>3 DEF WriteProvenance

LEMMA MergeProvenanceRest ==
    ASSUME AcqInv, MergeProvenance PROVE Rest'
  <1>1. /\ Busy /\ IsRun(run) /\ run.step = "merge" /\ UNCHANGED <<snap, described>> /\ run.queue # << >>
        /\ S \in DOMAIN run.fetched
    BY Current DEF MergeProvenance, AcqInv, Inv, AtHand, Busy, At
  <1>2. CASE Fail /\ UNCHANGED pack
    BY <1>1, <1>2, FailedRest DEF At, Files
  <1>3. CASE pack' = [pack EXCEPT ![S].prov = Whole(NewProvenance)] /\ Finish("COMPLETE")
    <2>1. PacksHold' /\ OthersKeep /\ Ingested(pack'[S], C)
      BY <1>1, <1>3, ProvenanceExtended DEF At
    <2>2. Closed("COMPLETE")
      BY <1>3, FinishClosed
    <2> QED
      BY <1>1, <2>1, <2>2, ClosedReports DEF Rest, At
  <1> QED
    BY <1>2, <1>3 DEF MergeProvenance

LEMMA SealPackRest ==
    ASSUME AcqInv, SealPack PROVE Rest'
  <1>1. /\ Busy /\ IsRun(run) /\ run.step = "seal" /\ UNCHANGED Files /\ run.queue # << >>
    BY Current DEF SealPack, AcqInv, Inv, Busy, At
  <1>2. PacksHold' /\ OthersKeep
    BY <1>1, FilesKept, RowsKept
  <1>3. CASE Fail
    BY <1>1, <1>3, FailedRest DEF At
  <1>4. CASE run' = [run EXCEPT !.step = "stamp", !.held = StatusRead(pack[S])]
    <2>1. Ahead("stamp") /\ run'.fresh = run.fresh
      BY <1>1, <1>4 DEF IsRun, RunFields, Ahead
    <2>2. ReportHolds' /\ StatusHolds'
      BY <1>1, <1>2, <2>1, AheadReports
    <2>3. S' = S /\ C' = C
      BY <2>1, SameAtHand
    <2>4. FreshHolds'
      BY <1>1, <2>1, <2>3 DEF AcqInv, FreshHolds, Writes, Safe, At, Ahead, Files
    <2> QED
      BY <1>2, <2>2, <2>4 DEF Rest
  <1> QED
    BY <1>3, <1>4 DEF SealPack

LEMMA StampPackRest ==
    ASSUME AcqInv, StampPack PROVE Rest'
  <1>1. /\ Busy /\ IsRun(run) /\ run.step = "stamp" /\ UNCHANGED <<snap, described>>
        /\ run.queue # << >> /\ S \in DOMAIN run.fetched /\ S \in Sources /\ C \in Contents
        /\ pack' = [pack EXCEPT ![S].meta = run.held]
    BY Current DEF StampPack, AcqInv, Inv, AtHand, Busy, At
  <1>2. SnapGrows /\ \A s \in Sources : SameRows(s)
    BY <1>1, MetaWritten
  <1>3. PacksHold' /\ OthersKeep
    BY <1>2, RowsKept
  <1>4. /\ ToSet(ClaimKeys(C)) \subseteq Keys(pack[S].claims.rows)
        /\ RowsOf(C) \subseteq ToSet(pack[S].prov.rows)
    BY <1>1 DEF AcqInv, FreshHolds, At
  <1>5. \A k \in ToSet(ClaimKeys(C)) : Row(k, C) \in RowsOf(C)
    BY <1>1, RowsTyped
  <1>6. Ingested(pack'[S], C)
    BY <1>1, <1>2, <1>4, <1>5 DEF Ingested, SameRows
  <1>7. CASE Finish("COMPLETE")
    <2>1. Closed("COMPLETE")
      BY <1>7, FinishClosed
    <2> QED
      BY <1>1, <1>3, <1>6, <2>1, ClosedReports DEF Rest, At
  <1>8. CASE run' = [run EXCEPT !.step = "seal", !.held = "candidate", !.stamps = @ - 1]
    <2>1. Ahead("seal") /\ run'.fresh = run.fresh
      BY <1>1, <1>8 DEF IsRun, RunFields, Ahead
    <2>2. ReportHolds' /\ StatusHolds'
      BY <1>1, <1>3, <2>1, AheadReports
    <2>3. S' = S /\ C' = C /\ pack'[S].claims = pack[S].claims /\ pack'[S].prov = pack[S].prov
      BY <1>1, <1>2, <2>1, SameAtHand DEF SameRows
    <2>4. FreshHolds'
      BY <1>1, <2>1, <2>3 DEF AcqInv, FreshHolds, Writes, Safe, At, Ahead
    <2> QED
      BY <1>3, <2>2, <2>4 DEF Rest
  <1> QED
    BY <1>7, <1>8 DEF StampPack

LEMMA ConcludeRest ==
    ASSUME AcqInv, Conclude PROVE Rest'
  <1>1. /\ IsRun(run) /\ run.step = "fetch" /\ run.queue = << >> /\ UNCHANGED Files
        /\ run' = [run EXCEPT !.step = "idle", !.status = RunStatus]
    BY DEF Conclude, AcqInv, Inv, At
  <1>2. /\ run'.step = "idle" /\ run'.status = RunStatus /\ run'.fresh = run.fresh
        /\ run'.report = run.report /\ run'.queue = run.queue /\ run'.fetched = run.fetched
        /\ run'.faults = run.faults /\ run'.mode = run.mode
    BY <1>1 DEF IsRun, RunFields
  <1>3. PacksHold' /\ \A s \in Sources : SameRows(s)
    BY <1>1, FilesKept, RowsKept
  <1>4. FreshHolds'
    BY <1>1, <1>2, NoneFresh DEF AcqInv, FreshHolds, Writes, At
  <1>5. ReportHolds'
    BY <1>1, <1>2 DEF AcqInv, ReportHolds, Files
  <1>6. ASSUME RunStatus = "CAKE_COMPLETE", NEW s \in Sources
        PROVE  run.report[s] \in {"COMPLETE", "UNCHANGED"}
    <2>1. ~run.mode.dry /\ ~Some({"FAILED"})
      BY <1>6 DEF RunStatus
    <2>2. run.report[s] # "FAILED"
      BY <2>1 DEF Some
    <2>3. run.report[s] # "PENDING"
      BY <1>1, <2>1, NoQueue DEF AcqInv, StatusHolds, At
    <2> QED
      BY <2>2, <2>3 DEF AcqInv, ReportHolds
  <1>7. StatusHolds'
    BY <1>2, <1>6 DEF AcqInv, StatusHolds, At
  <1> QED
    BY <1>3, <1>4, <1>5, <1>7 DEF Rest

\* The operator who freezes a pack leaves the rows and the run alone.
LEMMA AsideRest ==
    ASSUME AcqInv, UNCHANGED snap, \A s \in Sources : SameRows(s), run'.faults \in Nat,
           \A f \in RunFields \ {"faults"} : run'[f] = run[f]
    PROVE  Rest'
  <1>1. SnapGrows
    BY DEF SnapGrows
  <1>2. PacksHold'
    BY <1>1, RowsKept
  <1>3. /\ run'.step = run.step /\ run'.mode = run.mode /\ run'.queue = run.queue
        /\ run'.fetched = run.fetched /\ run'.fresh = run.fresh
        /\ run'.report = run.report /\ run'.status = run.status
    BY DEF RunFields
  <1>4. S' = S /\ C' = C
    BY <1>3 DEF S, C
  <1>5. FreshHolds'
    <2>1. CASE Busy
      <3>1. S \in Sources
        BY <2>1, Current DEF AcqInv
      <3> QED
        BY <1>3, <1>4, <3>1 DEF AcqInv, FreshHolds, Writes, Safe, At, SameRows
    <2>2. CASE ~Busy
      BY <1>3, <2>2 DEF AcqInv, FreshHolds, Writes, Safe, At, Busy
    <2> QED
      BY <2>1, <2>2
  <1>6. ReportHolds'
    BY <1>3 DEF AcqInv, ReportHolds, SameRows, Ingested
  <1>7. StatusHolds'
    BY <1>3 DEF AcqInv, StatusHolds, At, Some
  <1> QED
    BY <1>2, <1>5, <1>6, <1>7 DEF Rest

LEMMA FreezingRest ==
    ASSUME AcqInv, BeginFreeze \/ Freeze \/ FreezeFails PROVE Rest'
  <1>1. \/ UNCHANGED pack
        \/ \E s \in Sources, v \in {"frozen", "torn"} : pack' = [pack EXCEPT ![s].meta = v]
    BY DEF BeginFreeze, Freeze, FreezeFails, Files, AcqInv, Inv
  <1>2. \A s \in Sources : SameRows(s)
    BY <1>1, RowsWritten DEF AcqInv, Inv, SameRows
  <1>3. UNCHANGED snap /\ (UNCHANGED run \/ run' = [run EXCEPT !.faults = @ + 1])
    BY DEF BeginFreeze, Freeze, FreezeFails, Files
  <1>4. run'.faults \in Nat /\ \A f \in RunFields \ {"faults"} : run'[f] = run[f]
    BY <1>3 DEF AcqInv, Inv, IsRun, RunFields, StatusHolds
  <1> QED
    BY <1>2, <1>3, <1>4, AsideRest

LEMMA WriteFailsRest ==
    ASSUME AcqInv, WriteFails PROVE Rest'
  <1>1. Busy /\ Damage /\ run' = [Failed(run) EXCEPT !.faults = @ + 1]
    BY DEF WriteFails, Busy
  <1>2. run.queue # << >> /\ ~At("idle")
    BY <1>1 DEF AcqInv, Inv, AtHand, Busy, At
  <1>3. PacksHold' /\ OthersKeep
    BY <1>1, DamageKeeps
  <1>4. Closed("FAILED")
    BY <1>1, FailedClosed
  <1> QED
    BY <1>2, <1>3, <1>4, ClosedReports DEF Rest

LEMMA CrashRest ==
    ASSUME AcqInv, Crash PROVE Rest'
  <1>1. /\ IsRun(run) /\ run.step # "idle" /\ Damage /\ run.faults \in Nat
        /\ run' = [run EXCEPT !.step = "idle", !.queue = << >>, !.fresh = << >>,
                              !.held = "candidate", !.stamps = 0,
                              !.status = "CRASHED", !.faults = @ + 1]
    BY DEF Crash, AcqInv, Inv, StatusHolds, At
  <1>2. /\ run'.step = "idle" /\ run'.queue = << >> /\ run'.fresh = << >>
        /\ run'.status = "CRASHED" /\ run'.faults = run.faults + 1
        /\ run'.report = run.report /\ run'.fetched = run.fetched
    BY <1>1 DEF IsRun, RunFields
  <1>3. Busy \/ UNCHANGED Files
    BY <1>1 DEF Damage, Busy, At
  <1>4. PacksHold' /\ (Busy => OthersKeep) /\ (~Busy => \A s \in Sources : SameRows(s))
    BY <1>1, <1>3, DamageKeeps
  <1>5. Busy => run.report[S] = "PENDING"
    BY AtHandReported DEF AcqInv, Inv, AtHand
  <1>6. \A s \in Sources : run.report[s] = "COMPLETE" => SameRows(s)
    BY <1>4, <1>5 DEF OthersKeep
  <1>7. \A s \in Sources : run.report[s] = "COMPLETE" =>
          s \in DOMAIN run'.fetched /\ Ingested(pack'[s], run'.fetched[s])
    BY <1>2, <1>6 DEF AcqInv, ReportHolds, SameRows, Ingested
  <1>8. ReportHolds'
    BY <1>2, <1>7, NoQueue DEF AcqInv, ReportHolds
  <1>9. StatusHolds'
    BY <1>1, <1>2 DEF StatusHolds, At
  <1> QED
    BY <1>2, <1>4, <1>8, <1>9, NoneFresh DEF Rest

LEMMA AcquisitionInductive ==
    AcqInv /\ [Next]_vars => AcqInv'
  <1> SUFFICES ASSUME AcqInv, [Next]_vars PROVE AcqInv'
    OBVIOUS
  <1>1. Inv'
    BY StepInv DEF AcqInv
  <1>2. Rest'
    <2>1. CASE FetchFails
      BY <2>1, FailedRest DEF FetchFails, At
    <2>2. CASE UNCHANGED vars
      BY <2>2 DEF vars, AcqInv, Rest, PacksHold, PackHolds, FreshHolds, ReportHolds, StatusHolds,
                  StoredRows, Writes, Safe, At, Some, S, C
    <2> QED
      BY <2>1, <2>2, StartRunRest, FetchRest, SaveSnapshotRest, DescribeSnapshotRest, ExtractRest,
         OpenPackRest, CreatePackRest, WriteClaimsRest, WriteProvenanceRest, MergeProvenanceRest,
         SealPackRest, StampPackRest, ConcludeRest, FreezingRest, WriteFailsRest, CrashRest
         DEF Next, RunStep
  <1> QED
    BY <1>1, <1>2 DEF Rest, AcqInv, PacksHold

LEMMA AcquisitionInitial ==
    Init => AcqInv
  <1> SUFFICES ASSUME Init PROVE AcqInv
    OBVIOUS
  <1>1. Inv
    BY InitInv
  <1>2. /\ run.step = "idle" /\ run.queue = << >> /\ run.fresh = << >> /\ run.faults = 0
        /\ run.report = [s \in Sources |-> "PENDING"] /\ run.status = "NONE"
    BY DEF Init
  <1>3. FreshHolds
    BY <1>2 DEF FreshHolds, Writes, Safe, At
  <1>4. ReportHolds /\ StatusHolds
    BY <1>2, NoQueue DEF ReportHolds, StatusHolds, At
  <1>5. ASSUME NEW s \in Sources PROVE PackHolds(s)
    <2>1. /\ IsFile(Absent) /\ Absent.rows = << >>
      BY DEF IsFile, Absent
    <2>2. ToSet(Absent.rows) = {}
      BY <2>1, NoQueue
    <2>3. pack[s].claims = Absent /\ pack[s].prov = Absent
      BY DEF Init, NoPack
    <2> QED
      BY <2>1, <2>2, <2>3 DEF PackHolds, OneOrigin, StoredRows
  <1> QED
    BY <1>1, <1>3, <1>4, <1>5 DEF AcqInv

LEMMA AcquisitionInvariant == Spec => []AcqInv
  BY AcquisitionInitial, AcquisitionInductive, PTL DEF Spec

\* Whatever the runs and faults, each row of a pack cites a content whose
\* .snap exists (run_cake_pipeline saves before it extracts), and the rows of
\* a key cite one content (deduplicate_claims).
THEOREM PacksAlwaysTraceable == Spec => []PacksTraceable
  <1>1. AcqInv => PacksTraceable
    <2> SUFFICES ASSUME AcqInv PROVE PacksTraceable
      OBVIOUS
    <2>1. ASSUME NEW s \in Sources, NEW row \in ToSet(pack[s].claims.rows \o pack[s].prov.rows)
          PROVE  snap[s][row.from] # "absent"
      <3>1. PackHolds(s)
        BY DEF AcqInv
      <3>2. pack[s].claims.rows \in Seq(ClaimRows) /\ pack[s].prov.rows \in Seq(ClaimRows)
        BY <3>1 DEF PackHolds, IsFile
      <3>3. row \in ToSet(pack[s].claims.rows) \/ row \in ToSet(pack[s].prov.rows)
        BY <3>2, Joined
      <3> QED
        BY <3>1, <3>3 DEF PackHolds, StoredRows
    <2>2. OneBatchPerKey
      BY DEF AcqInv, PackHolds, OneOrigin, OneBatchPerKey, ToSet
    <2> QED
      BY <2>1, <2>2 DEF PacksTraceable, ClaimsHaveSnapshots
  <1> QED
    BY <1>1, AcquisitionInvariant, PTL

\* A source that run_cake_pipeline reports COMPLETE has all the claims of the
\* content fetched in its pack, and the provenance that cites it; and a run
\* is CAKE_COMPLETE only when each source is COMPLETE or UNCHANGED.
THEOREM CompletesIngested == Spec => []CompleteIsIngested
  <1>1. AcqInv => CompleteIsIngested
    BY DEF AcqInv, ReportHolds, StatusHolds, CompleteIsIngested, Ingested
  <1> QED
    BY <1>1, AcquisitionInvariant, PTL

LEMMA PrefixOfItself ==
    ASSUME NEW q \in Seq(ClaimRows)
    PROVE  IsPrefix(q, q)
  BY DEF IsPrefix

\* Only WriteClaims and a fault change the claims of a pack.
LEMMA ClaimsStay ==
    ASSUME AcqInv, [Next]_vars, ~WriteClaims, ~WriteFails, ~Crash, NEW s \in Sources
    PROVE  pack'[s].claims = pack[s].claims
  <1>1. CASE UNCHANGED pack
    BY <1>1
  <1>2. CASE Freeze \/ FreezeFails
    <2>1. \/ UNCHANGED pack
          \/ \E t \in Sources : \E v : pack' = [pack EXCEPT ![t].meta = v]
      BY <1>2 DEF Freeze, FreezeFails, AcqInv, Inv
    <2> QED
      BY <2>1, RowsWritten DEF AcqInv, Inv, SameRows
  <1>3. CASE Busy /\ \E v : \/ pack' = [pack EXCEPT ![S].meta = v]
                            \/ pack' = [pack EXCEPT ![S].prov = v]
    <2>1. S \in Sources
      BY <1>3, Current DEF AcqInv
    <2>2. PICK v : \/ pack' = [pack EXCEPT ![S].meta = v]
                   \/ pack' = [pack EXCEPT ![S].prov = v]
      BY <1>3
    <2> QED
      BY <2>1, <2>2, RowsWritten DEF AcqInv, Inv, SameRows
  <1> QED
    BY <1>1, <1>2, <1>3
      DEF Next, RunStep, StartRun, Fetch, FetchFails, SaveSnapshot, DescribeSnapshot, Extract,
          OpenPack, CreatePack, WriteProvenance, MergeProvenance, SealPack, StampPack, Conclude,
          BeginFreeze, Files, vars, Busy, At

\* The updater only adds to claims.jsonl; a fault may cut its rewriting short,
\* and claims that cannot be read are never written over.
THEOREM NoClaimLost == Spec => NothingLost
  <1>1. AcqInv /\ [Next]_vars =>
          [\A s \in Sources :
             LET old == pack[s].claims
                 new == pack'[s].claims
             IN  /\ run'.faults = run.faults /\ old.state = "whole" => IsPrefix(old.rows, new.rows)
                 /\ old.state = "torn" => new = old]_vars
    <2> SUFFICES ASSUME AcqInv, [Next]_vars, NEW s \in Sources
                 PROVE  /\ run'.faults = run.faults /\ pack[s].claims.state = "whole" =>
                             IsPrefix(pack[s].claims.rows, pack'[s].claims.rows)
                        /\ pack[s].claims.state = "torn" => pack'[s].claims = pack[s].claims
      BY Zenon
    <2>1. IsPrefix(pack[s].claims.rows, pack[s].claims.rows)
      BY PrefixOfItself DEF AcqInv, PackHolds, IsFile
    <2>2. CASE WriteClaims
      <3>1. At("claims") /\ S \in Sources /\ pack[S].claims.state # "torn"
        BY <2>2, Current DEF WriteClaims, AcqInv, FreshHolds, Busy, At
      <3>2. pack' = [pack EXCEPT ![S].claims = Whole(Claims(pack[S]))]
        BY <2>2 DEF WriteClaims
      <3>3. pack'[S].claims.rows = Claims(pack[S]) /\ \A t \in Sources : t # S => SameRows(t)
        <4>1. FilesOK
          BY DEF AcqInv, Inv
        <4>2. pack'[S].claims = Whole(Claims(pack[S])) /\ \A t \in Sources : t # S => SameRows(t)
          BY <3>1, <3>2, <4>1, RowsWritten
        <4> QED
          BY <4>2 DEF Whole
      <3>4. IsPrefix(pack[S].claims.rows, Claims(pack[S]))
        BY <3>1, ClaimsWritten
      <3> QED
        BY <2>1, <3>1, <3>3, <3>4 DEF SameRows
    <2>3. CASE WriteFails \/ Crash
      <3>1. Damage /\ (Busy \/ UNCHANGED Files)
        BY <2>3 DEF WriteFails, Crash, Damage, Busy, At
      <3>2. pack[s].claims.state = "torn" => pack'[s].claims = pack[s].claims
        BY <3>1, DamageKeeps
      <3>3. run'.faults = run.faults + 1
        <4>1. CASE Crash
          BY <4>1 DEF Crash, AcqInv, Inv, IsRun, RunFields
        <4>2. CASE WriteFails
          <5>1. IsRun(Failed(run)) /\ Failed(run).faults = run.faults
            <6>1. run.queue # << >> /\ IsRun(run)
              BY <4>2 DEF WriteFails, AcqInv, Inv, AtHand, Busy
            <6> QED
              BY <6>1, FailedRun DEF Failed, IsRun, RunFields
          <5> QED
            BY <4>2, <5>1 DEF WriteFails, IsRun, RunFields
        <4> QED
          BY <2>3, <4>1, <4>2
      <3>4. run'.faults # run.faults
        BY <3>3 DEF AcqInv, StatusHolds
      <3> QED
        BY <3>2, <3>4
    <2>4. CASE ~WriteClaims /\ ~WriteFails /\ ~Crash
      BY <2>1, <2>4, ClaimsStay
    <2> QED
      BY <2>2, <2>3, <2>4
  <1> QED
    BY <1>1, AcquisitionInvariant, PTL DEF Spec, NothingLost

-----------------------------------------------------------------------------
(* Ingestion of documents (DocumentIngest).                                *)

RunKeys == {"step", "flags", "target", "queue", "run", "at", "outcome"}

AtKeys == {"read", "map", "pack", "name", "print"}

\* A run that is under way.
IsIngest(r) ==
    /\ r = [f \in RunKeys |-> r[f]]
    /\ r.at = [f \in AtKeys |-> r.at[f]]
    /\ r.outcome = [d \in DocumentSet |-> r.outcome[d]]
    /\ r.target \in Seq(DocumentSet) /\ r.queue \in Seq(DocumentSet)
    /\ Len(r.target) <= Len(Documents)
    /\ r.run \in 1..MaxIngests

\* Pack i was written in full and has the rows of a text.
Holds(packs, i, t) == i \in PackIds /\ packs[i] = Filled(RowsIn(t))

Vouched(packs, o) == o.kind \in {"packed", "skipped"} => Holds(packs, o.pack, o.text)

Made(r) == {o \in UNION {r.outcome[d] : d \in DocumentSet} : o.kind = "packed"}

\* The packs of a run and the documents before it: each document gives at
\* most one, the one at hand too.
Counts(r, more) ==
    /\ IsFiniteSet(Made(r))
    /\ Cardinality(Made(r)) + Len(r.queue) <= Len(r.target) + more

\* What a run has filed is so, and it has filed what it is done with.
Filed(packs, r) ==
    /\ IsIngest(r)
    /\ \A d \in DocumentSet : \A o \in r.outcome[d] : Vouched(packs, o)
    /\ \A d \in ToSet(r.target) : r.outcome[d] # {} \/ d \in ToSet(r.queue)

\* The document at hand has its outcome.
Done(r) == r.outcome[Head(r.queue)] # {}

Underway(packs, r) ==
    /\ Filed(packs, r)
    /\ r.step # "read" => r.queue # << >>
    /\ r.step = "fill" => r.at.pack \in PackIds /\ packs[r.at.pack] = Partial
    /\ IF r.step \in {"print", "save"}
       THEN Holds(packs, r.at.pack, r.at.read) /\ Done(r) /\ Counts(r, 1)
       ELSE Counts(r, 0)

\* A run that ended, as its report has it.
Told(packs, r) ==
    r.status \notin {"NONE", "REFUSED", "DIED"} =>
        \A d \in ToSet(r.target) :
            r.outcome[d] # {} /\ \A o \in r.outcome[d] : Vouched(packs, o)

RunHolds(packs, r) == IF r.step = "idle" THEN Told(packs, r) ELSE Underway(packs, r)

RecordHolds(packs, s) ==
    s.kind = "whole" => s.pack \in PackIds /\ packs[s.pack] = Filled(s.rows)

IngestShape ==
    /\ candidate = [i \in PackIds |-> candidate[i]]
    /\ record = [n \in Names |-> record[n]]
    /\ ingest = [p \in Ingesters |-> ingest[p]]
    /\ tally = [runs |-> tally.runs, edits |-> tally.edits, breaks |-> tally.breaks]
    /\ tally.runs \in Nat

\* No two processes fill one pack: each made it, and a pack is made once.
OwnPacks ==
    \A p, q \in Ingesters :
        (p # q /\ Doing(p, "fill") /\ Doing(q, "fill")) => ingest[p].at.pack # ingest[q].at.pack

IngestInv ==
    /\ IngestShape
    /\ \A n \in Names : RecordHolds(candidate, record[n])
    /\ \A p \in Ingesters : RunHolds(candidate, ingest[p])
    /\ OwnPacks

-----------------------------------------------------------------------------
(* Sequences of documents.                                                 *)

LEMMA QueueHead ==
    ASSUME NEW q \in Seq(DocumentSet), q # << >>
    PROVE  /\ Head(q) \in DocumentSet /\ Tail(q) \in Seq(DocumentSet)
           /\ Len(q) \in Nat /\ Len(q) >= 1 /\ Len(Tail(q)) = Len(q) - 1
  OBVIOUS

LEMMA QueueRest ==
    ASSUME NEW q \in Seq(DocumentSet), q # << >>, NEW d \in ToSet(q), d # Head(q)
    PROVE  d \in ToSet(Tail(q))
  <1>1. PICK i \in DOMAIN q : d = q[i]
    BY DEF ToSet
  <1>2. i \in 2..Len(q)
    BY <1>1
  <1>3. i - 1 \in 1..Len(Tail(q)) /\ Tail(q)[i - 1] = q[i]
    BY <1>2
  <1>4. i - 1 \in DOMAIN Tail(q)
    BY <1>3, QueueHead
  <1> QED
    BY <1>1, <1>3, <1>4 DEF ToSet

LEMMA QueueSet ==
    ASSUME NEW q \in Seq(DocumentSet), NEW d \in ToSet(q)
    PROVE  d \in DocumentSet
  BY DEF ToSet

\* Filing an outcome adds it, and packs are no more than it adds.
LEMMA FilingAdds ==
    ASSUME NEW packs, NEW r, Filed(packs, r), r.queue # << >>, NEW kind,
           kind \in {"packed", "skipped"} => Holds(packs, r.at.pack, r.at.read)
    PROVE  /\ Filed(packs, Filing(r, kind))
           /\ Done(Filing(r, kind))
           /\ Filing(r, kind).step = r.step /\ Filing(r, kind).queue = r.queue
           /\ Filing(r, kind).at = r.at /\ Filing(r, kind).flags = r.flags
           /\ Filing(r, kind).target = r.target
           /\ Counts(r, 0) => Counts(Filing(r, kind), 1)
           /\ Counts(r, 1) /\ kind # "packed" => Counts(Filing(r, kind), 1)
  <1> DEFINE o == [kind |-> kind, pack |-> r.at.pack, text |-> r.at.read]
             h == Head(r.queue)
             n == Filing(r, kind)
  <1>0. IsIngest(r)
    BY DEF Filed
  <1>1. h \in DocumentSet
    BY <1>0, QueueHead DEF IsIngest
  <1>2. n = [r EXCEPT !.outcome = [r.outcome EXCEPT ![h] = @ \cup {o}]]
    BY DEF Filing
  <1>3. /\ n.step = r.step /\ n.queue = r.queue /\ n.at = r.at /\ n.flags = r.flags
        /\ n.target = r.target /\ n.run = r.run
        /\ n.outcome = [r.outcome EXCEPT ![h] = @ \cup {o}]
        /\ n = [f \in RunKeys |-> n[f]]
    BY <1>0, <1>2 DEF IsIngest, RunKeys
  <1> HIDE DEF n
  <1>4. \A d \in DocumentSet : n.outcome[d] = IF d = h THEN r.outcome[d] \cup {o} ELSE r.outcome[d]
    BY <1>0, <1>1, <1>3 DEF IsIngest
  <1>5. n.outcome = [d \in DocumentSet |-> n.outcome[d]]
    BY <1>0, <1>1, <1>3 DEF IsIngest
  <1>6. IsIngest(n)
    BY <1>0, <1>3, <1>5 DEF IsIngest
  <1>7. Vouched(packs, o)
    BY DEF Vouched
  <1>8. \A d \in DocumentSet : \A x \in n.outcome[d] : Vouched(packs, x)
    <2> SUFFICES ASSUME NEW d \in DocumentSet, NEW x \in n.outcome[d] PROVE Vouched(packs, x)
      OBVIOUS
    <2>1. x \in r.outcome[d] \/ x = o
      BY <1>4
    <2>2. x \in r.outcome[d] => Vouched(packs, x)
      BY DEF Filed
    <2> QED
      BY <2>1, <2>2, <1>7
  <1>9. \A d \in ToSet(n.target) : n.outcome[d] # {} \/ d \in ToSet(n.queue)
    BY <1>0, <1>3, <1>4, QueueSet DEF Filed, IsIngest
  <1>10. Filed(packs, n)
    BY <1>6, <1>8, <1>9 DEF Filed
  <1>11. Done(n)
    BY <1>1, <1>3, <1>4 DEF Done
  <1>12. Made(n) \subseteq Made(r) \cup {o}
    BY <1>4 DEF Made
  <1>13. ASSUME kind # "packed" PROVE Made(n) = Made(r)
    <2>1. o \notin Made(n)
      BY <1>13 DEF Made
    <2>2. Made(n) \subseteq Made(r)
      BY ONLY <1>12, <2>1
    <2>3. \A d \in DocumentSet : r.outcome[d] \subseteq n.outcome[d]
      BY <1>4
    <2>4. Made(r) \subseteq Made(n)
      BY ONLY <2>3 DEF Made
    <2> QED
      BY <2>2, <2>4
  <1>14. Len(r.queue) \in Nat /\ Len(r.target) \in Nat
    BY <1>0 DEF IsIngest
  <1>15. ASSUME Counts(r, 0) PROVE Counts(n, 1)
    <2>1. IsFiniteSet(Made(r)) /\ Cardinality(Made(r)) + Len(r.queue) <= Len(r.target) + 0
      BY <1>15 DEF Counts
    <2>2. Cardinality(Made(r)) \in Nat
      BY <2>1, FS_CardinalityType
    <2>3. /\ IsFiniteSet(Made(r) \cup {o})
          /\ Cardinality(Made(r) \cup {o}) = IF o \in Made(r) THEN Cardinality(Made(r)) ELSE Cardinality(Made(r)) + 1
      BY ONLY <2>1, FS_AddElement
    <2>4. IsFiniteSet(Made(n)) /\ Cardinality(Made(n)) <= Cardinality(Made(r) \cup {o})
      BY ONLY <1>12, <2>3, FS_Subset
    <2>5. Cardinality(Made(n)) \in Nat
      BY <2>4, FS_CardinalityType
    <2>6. Cardinality(Made(r) \cup {o}) <= Cardinality(Made(r)) + 1
      BY ONLY <2>3, <2>2
    <2>7. Cardinality(Made(r) \cup {o}) \in Nat
      BY <2>3, FS_CardinalityType
    <2>8. Cardinality(Made(n)) + Len(r.queue) <= Len(r.target) + 1
      BY ONLY <2>1, <2>2, <2>4, <2>5, <2>6, <2>7, <1>14
    <2> QED
      BY <2>4, <2>8, <1>3 DEF Counts
  <1>16. ASSUME Counts(r, 1), kind # "packed" PROVE Counts(n, 1)
    BY <1>16, <1>13, <1>3 DEF Counts
  <1> QED
    BY <1>3, <1>10, <1>11, <1>15, <1>16 DEF n

\* The next document is the turn of a run that filed the one at hand.
LEMMA NextDocumentHolds ==
    ASSUME NEW packs, NEW r, Filed(packs, r), r.queue # << >>, Done(r), Counts(r, 1)
    PROVE  RunHolds(packs, NextDocument(r)) /\ NextDocument(r).step = "read"
  <1> DEFINE n == NextDocument(r)
  <1>0. IsIngest(r)
    BY DEF Filed
  <1>1. /\ n.step = "read" /\ n.queue = Tail(r.queue) /\ n.at = Untouched /\ n.run = r.run
        /\ n.target = r.target /\ n.outcome = r.outcome /\ n = [f \in RunKeys |-> n[f]]
    BY <1>0 DEF IsIngest, RunKeys, NextDocument
  <1> HIDE DEF n
  <1>2. /\ Tail(r.queue) \in Seq(DocumentSet)
        /\ Len(r.queue) \in Nat /\ Len(Tail(r.queue)) = Len(r.queue) - 1
    BY <1>0, QueueHead DEF IsIngest
  <1>3. n.at = [f \in AtKeys |-> n.at[f]]
    BY <1>1 DEF Untouched, AtKeys
  <1>4. IsIngest(n)
    BY <1>0, <1>1, <1>2, <1>3 DEF IsIngest
  <1>5. \A d \in ToSet(n.target) : n.outcome[d] # {} \/ d \in ToSet(n.queue)
    BY <1>0, <1>1, QueueRest DEF Filed, Done, IsIngest
  <1>6. Filed(packs, n)
    BY <1>1, <1>4, <1>5 DEF Filed
  <1>7. Made(n) = Made(r)
    BY <1>1 DEF Made
  <1>8. IsFiniteSet(Made(r)) /\ Cardinality(Made(r)) + Len(r.queue) <= Len(r.target) + 1
    BY DEF Counts
  <1>9. Cardinality(Made(r)) \in Nat
    BY <1>8, FS_CardinalityType
  <1>10. Len(r.target) \in Nat
    BY <1>0 DEF IsIngest
  <1>11. Cardinality(Made(r)) + Len(Tail(r.queue)) <= Len(r.target) + 0
    BY ONLY <1>2, <1>8, <1>9, <1>10
  <1>12. Counts(n, 0)
    BY <1>1, <1>7, <1>8, <1>11 DEF Counts
  <1>13. Underway(packs, n)
    BY <1>1, <1>6, <1>12 DEF Underway
  <1> QED
    BY <1>1, <1>13 DEF RunHolds, n

LEMMA FailedDocumentHolds ==
    ASSUME NEW packs, NEW r, Filed(packs, r), r.queue # << >>, Counts(r, 0) \/ Counts(r, 1)
    PROVE  RunHolds(packs, FailedDocument(r)) /\ FailedDocument(r).step = "read"
  <1>1. /\ Filed(packs, Filing(r, "error")) /\ Done(Filing(r, "error"))
        /\ Filing(r, "error").queue = r.queue /\ Counts(Filing(r, "error"), 1)
    BY FilingAdds
  <1> QED
    BY <1>1, NextDocumentHolds DEF FailedDocument

\* A step to another place that keeps what is filed.
LEMMA OtherPlace ==
    ASSUME NEW packs, NEW r, Filed(packs, r), NEW n,
           n = [f \in RunKeys |-> n[f]], n.at = [f \in AtKeys |-> n.at[f]],
           n.flags = r.flags, n.target = r.target, n.queue = r.queue, n.run = r.run,
           n.outcome = r.outcome
    PROVE  /\ Filed(packs, n)
           /\ \A more : Counts(r, more) <=> Counts(n, more)
           /\ Done(r) <=> Done(n)
  <1>1. IsIngest(n)
    BY DEF Filed, IsIngest
  <1>2. Filed(packs, n)
    BY <1>1 DEF Filed
  <1>3. Made(n) = Made(r)
    BY DEF Made
  <1> QED
    BY <1>2, <1>3 DEF Counts, Done

-----------------------------------------------------------------------------
(* The steps.                                                              *)

\* Packs that are complete stay as they are.
KeepsPacks(packs, later) == \A i \in PackIds : packs[i].kind = "whole" => later[i] = packs[i]

LEMMA KeptHolds ==
    ASSUME NEW packs, NEW later, KeepsPacks(packs, later), NEW i, NEW t, Holds(packs, i, t)
    PROVE  Holds(later, i, t)
  BY DEF KeepsPacks, Holds, Filled

LEMMA KeptRecord ==
    ASSUME NEW packs, NEW later, KeepsPacks(packs, later), NEW s, RecordHolds(packs, s)
    PROVE  RecordHolds(later, s)
  BY DEF KeepsPacks, RecordHolds, Filled

LEMMA KeptRun ==
    ASSUME NEW packs, NEW later, KeepsPacks(packs, later), NEW r, RunHolds(packs, r),
           r.step = "fill" => later[r.at.pack] = packs[r.at.pack]
    PROVE  RunHolds(later, r)
  <1>1. \A o : Vouched(packs, o) => Vouched(later, o)
    BY KeptHolds DEF Vouched
  <1>2. CASE r.step = "idle"
    BY <1>1, <1>2 DEF RunHolds, Told
  <1>3. CASE r.step # "idle"
    <2>1. Underway(packs, r)
      BY <1>3 DEF RunHolds
    <2>2. Filed(later, r)
      BY <2>1, <1>1 DEF Underway, Filed
    <2>3. r.step = "fill" => r.at.pack \in PackIds /\ later[r.at.pack] = Partial
      BY <2>1 DEF Underway
    <2>4. Holds(packs, r.at.pack, r.at.read) => Holds(later, r.at.pack, r.at.read)
      BY KeptHolds
    <2>5. Underway(later, r)
      BY <2>1, <2>2, <2>3, <2>4 DEF Underway
    <2> QED
      BY <1>3, <2>5 DEF RunHolds
  <1> QED
    BY <1>2, <1>3

\* A step of one process, given what it does to its own run.
LEMMA ProcessStep ==
    ASSUME IngestInv, NEW p \in Ingesters, NEW r, Set(p, r),
           candidate' = [i \in PackIds |-> candidate'[i]],
           record' = [n \in Names |-> record'[n]],
           tally' = [runs |-> tally'.runs, edits |-> tally'.edits, breaks |-> tally'.breaks],
           tally'.runs \in Nat,
           RunHolds(candidate', r),
           KeepsPacks(candidate, candidate'),
           \A q \in Ingesters \ {p} :
               Doing(q, "fill") => /\ candidate'[ingest[q].at.pack] = candidate[ingest[q].at.pack]
                                   /\ r.step = "fill" => r.at.pack # ingest[q].at.pack,
           \A n \in Names : RecordHolds(candidate', record'[n])
    PROVE  IngestInv'
  <1>1. ingest' = [ingest EXCEPT ![p] = r]
    BY DEF Set
  <1>2. /\ ingest' = [q \in Ingesters |-> ingest'[q]]
        /\ \A q \in Ingesters : ingest'[q] = IF q = p THEN r ELSE ingest[q]
    BY <1>1 DEF IngestInv, IngestShape
  <1>3. IngestShape'
    BY <1>2 DEF IngestShape
  <1>4. \A q \in Ingesters : RunHolds(candidate', ingest'[q])
    <2> SUFFICES ASSUME NEW q \in Ingesters PROVE RunHolds(candidate', ingest'[q])
      OBVIOUS
    <2>1. CASE q = p
      BY <1>2, <2>1
    <2>2. CASE q # p
      <3>1. RunHolds(candidate, ingest[q])
        BY DEF IngestInv
      <3>2. ingest[q].step = "fill" => candidate'[ingest[q].at.pack] = candidate[ingest[q].at.pack]
        BY <2>2 DEF Doing
      <3>3. RunHolds(candidate', ingest[q])
        BY <3>1, <3>2, KeptRun
      <3> QED
        BY <1>2, <2>2, <3>3
    <2> QED
      BY <2>1, <2>2
  <1>5. OwnPacks'
    BY <1>2 DEF IngestInv, OwnPacks, Doing
  <1> QED
    BY <1>3, <1>4, <1>5 DEF IngestInv

\* A step that leaves the packs, and the states of documents, alone.
LEMMA QuietStep ==
    ASSUME IngestInv, NEW p \in Ingesters, NEW r, Set(p, r), UNCHANGED <<candidate, record>>,
           tally' = [runs |-> tally'.runs, edits |-> tally'.edits, breaks |-> tally'.breaks],
           tally'.runs \in Nat,
           RunHolds(candidate, r), r.step # "fill"
    PROVE  IngestInv'
  <1>1. KeepsPacks(candidate, candidate')
    BY DEF KeepsPacks
  <1>2. /\ candidate' = [i \in PackIds |-> candidate'[i]]
        /\ record' = [n \in Names |-> record'[n]]
        /\ \A n \in Names : RecordHolds(candidate', record'[n])
    BY DEF IngestInv, IngestShape
  <1> QED
    BY <1>1, <1>2, ProcessStep

LEMMA UnderwayRun ==
    ASSUME IngestInv, NEW p \in Ingesters, ~Doing(p, "idle")
    PROVE  /\ Underway(candidate, ingest[p]) /\ Filed(candidate, ingest[p])
           /\ IsIngest(ingest[p])
           /\ Counts(ingest[p], 0) \/ Counts(ingest[p], 1)
  BY DEF IngestInv, RunHolds, Doing, Underway, Filed

LEMMA TallyKept ==
    ASSUME IngestInv, UNCHANGED tally
    PROVE  /\ tally' = [runs |-> tally'.runs, edits |-> tally'.edits, breaks |-> tally'.breaks]
           /\ tally'.runs \in Nat
  BY DEF IngestInv, IngestShape

\* A break counts.
LEMMA TallyBroken ==
    ASSUME IngestInv, tally' = [tally EXCEPT !.breaks = @ + 1]
    PROVE  /\ tally' = [runs |-> tally'.runs, edits |-> tally'.edits, breaks |-> tally'.breaks]
           /\ tally'.runs \in Nat
  BY DEF IngestInv, IngestShape

LEMMA StartIngestStep ==
    ASSUME IngestInv, NEW p \in Ingesters, StartIngest(p)
    PROVE  IngestInv'
  <1>1. PICK target \in {Documents} \cup {<<d>> : d \in DocumentSet}, f \in Flags :
          Set(p, IF f.incremental /\ Len(target) > 1
                 THEN Resting("REFUSED", NothingFiled)
                 ELSE [step |-> "read", flags |-> f, target |-> target, queue |-> target,
                       run |-> tally.runs + 1, at |-> Untouched, outcome |-> NothingFiled])
    BY DEF StartIngest
  <1> DEFINE n == [step |-> "read", flags |-> f, target |-> target, queue |-> target,
                   run |-> tally.runs + 1, at |-> Untouched, outcome |-> NothingFiled]
  <1>2. /\ tally' = [tally EXCEPT !.runs = @ + 1] /\ tally.runs < MaxIngests
        /\ UNCHANGED <<candidate, record>>
    BY DEF StartIngest
  <1>3. /\ tally' = [runs |-> tally'.runs, edits |-> tally'.edits, breaks |-> tally'.breaks]
        /\ tally'.runs \in Nat
    BY <1>2 DEF IngestInv, IngestShape
  <1>4. tally.runs + 1 \in 1..MaxIngests
    BY <1>2, IngestBounds DEF IngestInv, IngestShape
  <1>5. target \in Seq(DocumentSet) /\ Len(target) <= Len(Documents)
    <2>1. CASE target = Documents
      BY <2>1, DocumentList DEF DocumentSet
    <2>2. ASSUME NEW d \in DocumentSet, target = <<d>> PROVE target \in Seq(DocumentSet) /\ Len(target) <= Len(Documents)
      <3>1. Documents \in Seq(DocumentSet) /\ DOMAIN Documents # {}
        BY DocumentList DEF DocumentSet, ToSet
      <3> QED
        BY <2>2, <3>1
    <2> QED
      BY <2>1, <2>2
  <1>6. RunHolds(candidate, Resting("REFUSED", NothingFiled)) /\ Resting("REFUSED", NothingFiled).step # "fill"
    BY DEF RunHolds, Told, Resting
  <1>7. RunHolds(candidate, n) /\ n.step # "fill"
    <2>1. /\ n = [x \in RunKeys |-> n[x]] /\ n.step = "read" /\ n.queue = target /\ n.target = target
          /\ n.run = tally.runs + 1 /\ n.outcome = NothingFiled /\ n.at = Untouched
      BY DEF RunKeys
    <2> HIDE DEF n
    <2>2. n.at = [x \in AtKeys |-> n.at[x]]
      BY <2>1 DEF Untouched, AtKeys
    <2>3. IsIngest(n)
      BY <1>4, <1>5, <2>1, <2>2 DEF IsIngest, NothingFiled
    <2>4. Made(n) = {}
      BY <2>1 DEF Made, NothingFiled
    <2>5. Counts(n, 0)
      <3>1. IsFiniteSet({}) /\ Cardinality({}) = 0
        BY FS_EmptySet
      <3>2. Len(target) \in Nat
        BY <1>5
      <3>3. Len(n.target) + 0 = Len(target) /\ Len(n.queue) = Len(target)
        BY ONLY <2>1, <3>2
      <3>4. Cardinality(Made(n)) = 0 /\ IsFiniteSet(Made(n))
        BY ONLY <2>4, <3>1
      <3>5. Cardinality(Made(n)) + Len(n.queue) <= Len(n.target) + 0
        BY ONLY <3>2, <3>3, <3>4
      <3> QED
        BY ONLY <3>4, <3>5 DEF Counts
    <2>6. Filed(candidate, n)
      BY <2>1, <2>3 DEF Filed, NothingFiled
    <2>7. Underway(candidate, n)
      BY <2>1, <2>5, <2>6 DEF Underway
    <2> QED
      BY <2>1, <2>7 DEF RunHolds
  <1> HIDE DEF n
  <1>8. CASE f.incremental /\ Len(target) > 1
    <2>1. Set(p, Resting("REFUSED", NothingFiled))
      BY <1>1, <1>8
    <2> QED
      BY <1>2, <1>3, <1>6, <2>1, QuietStep
  <1>9. CASE ~(f.incremental /\ Len(target) > 1)
    <2>1. Set(p, n)
      BY <1>1, <1>9 DEF n
    <2> QED
      BY <1>2, <1>3, <1>7, <2>1, QuietStep
  <1> QED
    BY <1>8, <1>9

\* A run goes to a step that asks for no more than a document at hand.
LEMMA PlainPlace ==
    ASSUME NEW packs, NEW r, Filed(packs, r), r.queue # << >>, Counts(r, 0), NEW n,
           n = [f \in RunKeys |-> n[f]], n.at = [f \in AtKeys |-> n.at[f]],
           n.flags = r.flags, n.target = r.target, n.queue = r.queue, n.run = r.run,
           n.outcome = r.outcome, n.step \in {"read", "map", "compare", "make"}
    PROVE  RunHolds(packs, n) /\ n.step # "fill"
  <1>1. Filed(packs, n) /\ Counts(n, 0)
    BY OtherPlace
  <1> QED
    BY <1>1 DEF RunHolds, Underway

LEMMA ReadDocumentStep ==
    ASSUME IngestInv, NEW p \in Ingesters, ReadDocument(p)
    PROVE  IngestInv'
  <1> DEFINE t == text[Document(p)]
             r == [ingest[p] EXCEPT !.at.read = t]
  <1>1. /\ ingest[p].step = "read" /\ ingest[p].queue # << >> /\ UNCHANGED <<candidate, record, tally>>
        /\ Set(p, IF t \in Unreadable THEN FailedDocument(r)
                  ELSE IF t \in Implicit THEN [r EXCEPT !.step = "map"]
                  ELSE WithRows(r))
    BY DEF ReadDocument, Doing
  <1>2. /\ IsIngest(ingest[p]) /\ Filed(candidate, ingest[p]) /\ Counts(ingest[p], 0)
    BY <1>1, UnderwayRun DEF Doing, Underway
  <1>3. /\ r = [f \in RunKeys |-> r[f]] /\ r.at = [f \in AtKeys |-> r.at[f]]
        /\ r.flags = ingest[p].flags /\ r.target = ingest[p].target /\ r.queue = ingest[p].queue
        /\ r.run = ingest[p].run /\ r.outcome = ingest[p].outcome /\ r.step = ingest[p].step
    BY <1>2 DEF IsIngest, RunKeys, AtKeys
  <1> HIDE DEF r
  <1>4. Filed(candidate, r) /\ Counts(r, 0) /\ r.queue # << >>
    BY <1>1, <1>2, <1>3, OtherPlace
  <1>5. RunHolds(candidate, FailedDocument(r)) /\ FailedDocument(r).step # "fill"
    BY <1>4, FailedDocumentHolds
  <1>6. RunHolds(candidate, [r EXCEPT !.step = "map"]) /\ [r EXCEPT !.step = "map"].step # "fill"
    <2> DEFINE n == [r EXCEPT !.step = "map"]
    <2>1. /\ n = [f \in RunKeys |-> n[f]] /\ n.at = [f \in AtKeys |-> n.at[f]]
          /\ n.flags = r.flags /\ n.target = r.target /\ n.queue = r.queue
          /\ n.run = r.run /\ n.outcome = r.outcome /\ n.step = "map"
      BY <1>3 DEF RunKeys
    <2> HIDE DEF n
    <2>2. RunHolds(candidate, n) /\ n.step # "fill"
      BY <1>4, <2>1, PlainPlace
    <2> QED
      BY <2>2 DEF n
  <1>7. RunHolds(candidate, WithRows(r)) /\ WithRows(r).step # "fill"
    <2> DEFINE n == WithRows(r)
    <2>1. /\ n = [f \in RunKeys |-> n[f]] /\ n.at = [f \in AtKeys |-> n.at[f]]
          /\ n.flags = r.flags /\ n.target = r.target /\ n.queue = r.queue
          /\ n.run = r.run /\ n.outcome = r.outcome /\ n.step \in {"compare", "make"}
      BY <1>3 DEF RunKeys, WithRows
    <2> HIDE DEF n
    <2>2. RunHolds(candidate, n) /\ n.step # "fill"
      BY <1>4, <2>1, PlainPlace
    <2> QED
      BY <2>2 DEF n
  <1>8. PICK n : Set(p, n) /\ RunHolds(candidate, n) /\ n.step # "fill"
    BY <1>1, <1>5, <1>6, <1>7
  <1> QED
    BY <1>1, <1>8, QuietStep, TallyKept

LEMMA MapDocumentStep ==
    ASSUME IngestInv, NEW p \in Ingesters, MapDocument(p)
    PROVE  IngestInv'
  <1> DEFINE r == [ingest[p] EXCEPT !.at.map = text[Document(p)]]
  <1>1. /\ ingest[p].step = "map" /\ UNCHANGED <<candidate, record, tally>>
        /\ Set(p, IF ingest[p].flags.auto THEN WithRows(r) ELSE FailedDocument(r))
    BY DEF MapDocument, Doing
  <1>2. /\ IsIngest(ingest[p]) /\ Filed(candidate, ingest[p]) /\ Counts(ingest[p], 0)
        /\ ingest[p].queue # << >>
    BY <1>1, UnderwayRun DEF Doing, Underway
  <1>3. /\ r = [f \in RunKeys |-> r[f]] /\ r.at = [f \in AtKeys |-> r.at[f]]
        /\ r.flags = ingest[p].flags /\ r.target = ingest[p].target /\ r.queue = ingest[p].queue
        /\ r.run = ingest[p].run /\ r.outcome = ingest[p].outcome /\ r.step = ingest[p].step
    BY <1>2 DEF IsIngest, RunKeys, AtKeys
  <1> HIDE DEF r
  <1>4. Filed(candidate, r) /\ Counts(r, 0) /\ r.queue # << >>
    BY <1>1, <1>2, <1>3, OtherPlace
  <1>5. RunHolds(candidate, FailedDocument(r)) /\ FailedDocument(r).step # "fill"
    BY <1>4, FailedDocumentHolds
  <1>6. RunHolds(candidate, WithRows(r)) /\ WithRows(r).step # "fill"
    <2> DEFINE n == WithRows(r)
    <2>1. /\ n = [f \in RunKeys |-> n[f]] /\ n.at = [f \in AtKeys |-> n.at[f]]
          /\ n.flags = r.flags /\ n.target = r.target /\ n.queue = r.queue
          /\ n.run = r.run /\ n.outcome = r.outcome /\ n.step \in {"compare", "make"}
      BY <1>3 DEF RunKeys, WithRows
    <2> HIDE DEF n
    <2>2. RunHolds(candidate, n) /\ n.step # "fill"
      BY <1>4, <2>1, PlainPlace
    <2> QED
      BY <2>2 DEF n
  <1>7. PICK n : Set(p, n) /\ RunHolds(candidate, n) /\ n.step # "fill"
    BY <1>1, <1>5, <1>6
  <1> QED
    BY <1>1, <1>7, QuietStep, TallyKept

\* A state that matches names a pack with the rows that were read.
LEMMA CompareStep ==
    ASSUME IngestInv, NEW p \in Ingesters, Compare(p)
    PROVE  IngestInv'
  <1> DEFINE r == ingest[p]
  <1>1. r.step = "compare" /\ UNCHANGED <<candidate, record, tally>>
    BY DEF Compare, Doing
  <1>2. IsIngest(r) /\ Filed(candidate, r) /\ Counts(r, 0) /\ r.queue # << >>
    BY <1>1, UnderwayRun DEF Doing, Underway
  <1>3. RunHolds(candidate, FailedDocument(r)) /\ FailedDocument(r).step # "fill"
    BY <1>2, FailedDocumentHolds
  <1>4. RunHolds(candidate, [r EXCEPT !.step = "make"]) /\ [r EXCEPT !.step = "make"].step # "fill"
    <2> DEFINE n == [r EXCEPT !.step = "make"]
    <2>1. /\ n = [f \in RunKeys |-> n[f]] /\ n.at = [f \in AtKeys |-> n.at[f]]
          /\ n.flags = r.flags /\ n.target = r.target /\ n.queue = r.queue
          /\ n.run = r.run /\ n.outcome = r.outcome /\ n.step = "make"
      BY <1>2 DEF RunKeys, IsIngest
    <2> HIDE DEF n
    <2>2. RunHolds(candidate, n) /\ n.step # "fill"
      BY <1>2, <2>1, PlainPlace
    <2> QED
      BY <2>2 DEF n
  <1>5. ASSUME NEW m \in Names, record[m].kind = "whole", Skips(record[m], p)
        PROVE  /\ RunHolds(candidate, Filing([r EXCEPT !.step = "print", !.at.pack = record[m].pack], "skipped"))
               /\ Filing([r EXCEPT !.step = "print", !.at.pack = record[m].pack], "skipped").step # "fill"
    <2> DEFINE n == [r EXCEPT !.step = "print", !.at.pack = record[m].pack]
    <2>1. /\ n = [f \in RunKeys |-> n[f]] /\ n.at = [f \in AtKeys |-> n.at[f]]
          /\ n.flags = r.flags /\ n.target = r.target /\ n.queue = r.queue
          /\ n.run = r.run /\ n.outcome = r.outcome /\ n.step = "print"
          /\ n.at.pack = record[m].pack /\ n.at.read = r.at.read
      BY <1>2 DEF RunKeys, AtKeys, IsIngest
    <2> HIDE DEF n
    <2>2. record[m].pack \in PackIds /\ candidate[record[m].pack] = Filled(record[m].rows)
      BY <1>5 DEF IngestInv, RecordHolds
    <2>3. record[m].rows = RowsIn(r.at.read)
      BY <1>5 DEF Skips, Unchanged
    <2>4. Holds(candidate, n.at.pack, n.at.read)
      BY <2>1, <2>2, <2>3 DEF Holds
    <2>5. Filed(candidate, n) /\ Counts(n, 0) /\ n.queue # << >>
      BY <1>2, <2>1, OtherPlace
    <2> DEFINE k == Filing(n, "skipped")
    <2>6. /\ Filed(candidate, k) /\ Done(k) /\ k.step = "print" /\ k.queue = n.queue /\ k.at = n.at
          /\ Counts(k, 1)
      BY <2>1, <2>4, <2>5, FilingAdds
    <2> HIDE DEF k
    <2>7. Underway(candidate, k)
      BY <2>4, <2>5, <2>6 DEF Underway
    <2> QED
      BY <2>6, <2>7 DEF RunHolds, k, n
  <1> HIDE DEF r
  <1>6. PICK n : Set(p, n) /\ RunHolds(candidate, n) /\ n.step # "fill"
    <2>1. CASE Set(p, FailedDocument(r))
      BY <2>1, <1>3
    <2>2. CASE Set(p, [r EXCEPT !.step = "make"])
      BY <2>2, <1>4
    <2>3. ASSUME NEW m \in Names, record[m].kind = "whole", Skips(record[m], p),
                 Set(p, Filing([r EXCEPT !.step = "print", !.at.pack = record[m].pack], "skipped"))
          PROVE  \E n : Set(p, n) /\ RunHolds(candidate, n) /\ n.step # "fill"
      BY <2>3, <1>5
    <2>4. \A d : \A m \in Names : IsFirst(m, d) => record[m].kind \in {"torn", "whole"}
      BY DEF IsFirst, Candidates
    <2> QED
      BY <2>1, <2>2, <2>3, <2>4 DEF Compare, r
  <1> QED
    BY <1>1, <1>6, QuietStep, TallyKept

\* The number of a new pack is one that the packs of a run can have.
LEMMA NewPackIdExists ==
    ASSUME IngestInv, NEW p \in Ingesters, Doing(p, "make")
    PROVE  NewPackId(p) \in PackIds
  <1> DEFINE r == ingest[p]
             stem == Stem(Document(p))
             alike == {o \in Made(r) : o.pack[1] = stem}
  <1>1. IsIngest(r) /\ Counts(r, 0) /\ r.queue # << >>
    BY UnderwayRun DEF Doing, Underway
  <1>2. Head(r.queue) \in DocumentSet /\ Len(r.queue) \in Nat /\ Len(r.queue) >= 1
    BY <1>1, QueueHead DEF IsIngest
  <1>3. IsFiniteSet(Made(r)) /\ Cardinality(Made(r)) + Len(r.queue) <= Len(r.target) + 0
    BY <1>1 DEF Counts
  <1>4. alike \in SUBSET Made(r)
    OBVIOUS
  <1> HIDE DEF alike
  <1>5. IsFiniteSet(alike) /\ Cardinality(alike) <= Cardinality(Made(r))
    BY <1>3, <1>4, FS_Subset
  <1>6. Cardinality(alike) \in Nat /\ Cardinality(Made(r)) \in Nat
    BY <1>3, <1>5, FS_CardinalityType
  <1>7. Len(r.target) \in Nat /\ Len(r.target) <= Len(Documents) /\ Len(Documents) \in Nat
    BY <1>1, DocumentList DEF IsIngest
  <1>8. Cardinality(alike) + 1 \in 1..Len(Documents)
    BY ONLY <1>2, <1>3, <1>5, <1>6, <1>7
  <1>9. NewPackId(p) = <<stem, r.run, Cardinality(alike) + 1>>
    BY DEF NewPackId, alike, Made
  <1>10. stem \in {Stem(d) : d \in DocumentSet}
    BY <1>2 DEF Document
  <1>11. r.run \in 1..MaxIngests
    BY <1>1 DEF IsIngest
  <1> HIDE DEF stem, r
  <1> QED
    BY <1>8, <1>9, <1>10, <1>11 DEF PackIds

LEMMA MakePackStep ==
    ASSUME IngestInv, NEW p \in Ingesters, MakePack(p)
    PROVE  IngestInv'
  <1> DEFINE i == NewPackId(p)
             r == ingest[p]
             n == [r EXCEPT !.step = "fill", !.at.pack = i]
  <1>1. r.step = "make" /\ UNCHANGED <<record, tally>>
    BY DEF MakePack, Doing
  <1>2. IsIngest(r) /\ Filed(candidate, r) /\ Counts(r, 0) /\ r.queue # << >>
    BY <1>1, UnderwayRun DEF Doing, Underway
  <1>3. i \in PackIds
    BY <1>1, NewPackIdExists DEF Doing
  <1> HIDE DEF i
  <1>4. CASE candidate[i] # Unwritten
    <2>1. Set(p, FailedDocument(r)) /\ UNCHANGED candidate
      BY <1>4 DEF MakePack, i
    <2>2. RunHolds(candidate, FailedDocument(r)) /\ FailedDocument(r).step # "fill"
      BY <1>2, FailedDocumentHolds
    <2> QED
      BY <1>1, <2>1, <2>2, QuietStep, TallyKept
  <1>5. CASE candidate[i] = Unwritten
    <2>1. Set(p, n) /\ candidate' = [candidate EXCEPT ![i] = Partial]
      BY <1>5 DEF MakePack, i
    <2>2. /\ candidate' = [j \in PackIds |-> candidate'[j]]
          /\ \A j \in PackIds : candidate'[j] = IF j = i THEN Partial ELSE candidate[j]
      BY <1>3, <2>1 DEF IngestInv, IngestShape
    <2>3. KeepsPacks(candidate, candidate')
      BY <1>5, <2>2 DEF KeepsPacks, Unwritten
    <2>4. /\ n = [f \in RunKeys |-> n[f]] /\ n.at = [f \in AtKeys |-> n.at[f]]
          /\ n.flags = r.flags /\ n.target = r.target /\ n.queue = r.queue
          /\ n.run = r.run /\ n.outcome = r.outcome /\ n.step = "fill" /\ n.at.pack = i
      BY <1>2 DEF RunKeys, AtKeys, IsIngest
    <2>5. Filed(candidate', r)
      <3>1. \A o : Vouched(candidate, o) => Vouched(candidate', o)
        BY <2>3, KeptHolds DEF Vouched
      <3> QED
        BY <1>2, <3>1 DEF Filed
    <2> HIDE DEF n
    <2>6. Filed(candidate', n) /\ Counts(n, 0)
      BY <1>2, <2>4, <2>5, OtherPlace
    <2>7. Underway(candidate', n)
      BY <1>2, <1>3, <2>2, <2>4, <2>6 DEF Underway
    <2>8. RunHolds(candidate', n)
      BY <2>4, <2>7 DEF RunHolds
    <2>9. \A q \in Ingesters \ {p} :
            Doing(q, "fill") => /\ candidate'[ingest[q].at.pack] = candidate[ingest[q].at.pack]
                                /\ n.step = "fill" => n.at.pack # ingest[q].at.pack
      <3> SUFFICES ASSUME NEW q \in Ingesters \ {p}, Doing(q, "fill")
                   PROVE  /\ candidate'[ingest[q].at.pack] = candidate[ingest[q].at.pack]
                          /\ n.at.pack # ingest[q].at.pack
        OBVIOUS
      <3>1. ingest[q].at.pack \in PackIds /\ candidate[ingest[q].at.pack] = Partial
        BY UnderwayRun DEF Doing, Underway
      <3>2. ingest[q].at.pack # i
        BY <3>1, <1>5 DEF Partial, Unwritten
      <3> QED
        BY <2>2, <2>4, <3>1, <3>2
    <2>10. /\ record' = [m \in Names |-> record'[m]]
           /\ \A m \in Names : RecordHolds(candidate', record'[m])
      BY <1>1, <2>3, KeptRecord DEF IngestInv, IngestShape
    <2> HIDE DEF r
    <2> QED
      BY <1>1, <2>1, <2>2, <2>3, <2>8, <2>9, <2>10, ProcessStep, TallyKept
  <1> QED
    BY <1>4, <1>5

LEMMA FillPackStep ==
    ASSUME IngestInv, NEW p \in Ingesters, FillPack(p)
    PROVE  IngestInv'
  <1> DEFINE r == ingest[p]
             i == r.at.pack
             k == Filing(r, "packed")
  <1>1. /\ r.step = "fill" /\ UNCHANGED <<record, tally>>
        /\ candidate' = [candidate EXCEPT ![i] = Filled(RowsIn(r.at.read))]
        /\ Set(p, IF k.flags.incremental THEN [k EXCEPT !.step = "print"] ELSE NextDocument(k))
    BY DEF FillPack, Doing
  <1>2. /\ IsIngest(r) /\ Filed(candidate, r) /\ Counts(r, 0) /\ r.queue # << >>
        /\ i \in PackIds /\ candidate[i] = Partial
    BY <1>1, UnderwayRun DEF Doing, Underway
  <1>3. /\ candidate' = [j \in PackIds |-> candidate'[j]]
        /\ \A j \in PackIds : candidate'[j] = IF j = i THEN Filled(RowsIn(r.at.read)) ELSE candidate[j]
    BY <1>1, <1>2 DEF IngestInv, IngestShape
  <1>4. KeepsPacks(candidate, candidate')
    BY <1>2, <1>3 DEF KeepsPacks, Partial
  <1>5. Filed(candidate', r)
    <2>1. \A o : Vouched(candidate, o) => Vouched(candidate', o)
      BY <1>4, KeptHolds DEF Vouched
    <2> QED
      BY <1>2, <2>1 DEF Filed
  <1>6. Holds(candidate', r.at.pack, r.at.read)
    BY <1>2, <1>3 DEF Holds
  <1>7. /\ Filed(candidate', k) /\ Done(k) /\ k.queue = r.queue /\ k.at = r.at /\ Counts(k, 1)
    BY <1>2, <1>5, <1>6, FilingAdds
  <1> HIDE DEF k
  <1>8. RunHolds(candidate', NextDocument(k)) /\ NextDocument(k).step # "fill"
    BY <1>2, <1>7, NextDocumentHolds
  <1>9. RunHolds(candidate', [k EXCEPT !.step = "print"]) /\ [k EXCEPT !.step = "print"].step # "fill"
    <2> DEFINE n == [k EXCEPT !.step = "print"]
    <2>0. IsIngest(k)
      BY <1>7 DEF Filed
    <2>1. /\ n = [f \in RunKeys |-> n[f]] /\ n.at = [f \in AtKeys |-> n.at[f]]
          /\ n.flags = k.flags /\ n.target = k.target /\ n.queue = k.queue
          /\ n.run = k.run /\ n.outcome = k.outcome /\ n.step = "print" /\ n.at = k.at
      BY <2>0 DEF RunKeys, IsIngest
    <2> HIDE DEF n
    <2>2. Filed(candidate', n) /\ Counts(n, 1) /\ Done(n)
      BY <1>7, <2>1, OtherPlace
    <2>3. Underway(candidate', n)
      BY <1>2, <1>6, <1>7, <2>1, <2>2 DEF Underway
    <2>4. RunHolds(candidate', n) /\ n.step # "fill"
      BY <2>1, <2>3 DEF RunHolds
    <2> QED
      BY <2>4 DEF n
  <1>10. PICK n : Set(p, n) /\ RunHolds(candidate', n) /\ n.step # "fill"
    BY <1>1, <1>8, <1>9
  <1>11. \A q \in Ingesters \ {p} :
           Doing(q, "fill") => candidate'[ingest[q].at.pack] = candidate[ingest[q].at.pack]
    <2> SUFFICES ASSUME NEW q \in Ingesters \ {p}, Doing(q, "fill")
                 PROVE  candidate'[ingest[q].at.pack] = candidate[ingest[q].at.pack]
      OBVIOUS
    <2>1. ingest[q].at.pack \in PackIds
      BY UnderwayRun DEF Doing, Underway
    <2>2. ingest[q].at.pack # i
      BY <1>1 DEF IngestInv, OwnPacks, Doing
    <2> QED
      BY <1>3, <2>1, <2>2
  <1>12. /\ record' = [m \in Names |-> record'[m]]
         /\ \A m \in Names : RecordHolds(candidate', record'[m])
    BY <1>1, <1>4, KeptRecord DEF IngestInv, IngestShape
  <1> HIDE DEF r, i
  <1> QED
    BY <1>1, <1>3, <1>4, <1>10, <1>11, <1>12, ProcessStep, TallyKept

\* What a state file may come to hold.
LEMMA RecordStep ==
    ASSUME IngestInv, NEW p \in Ingesters, NEW r, Set(p, r), UNCHANGED <<candidate, tally>>,
           NEW m, NEW s, record' = [record EXCEPT ![m] = s], RecordHolds(candidate, s),
           RunHolds(candidate, r), r.step # "fill"
    PROVE  IngestInv'
  <1>1. /\ record' = [n \in Names |-> record'[n]]
        /\ \A n \in Names : record'[n] = s \/ record'[n] = record[n]
    BY DEF IngestInv, IngestShape
  <1>2. \A n \in Names : RecordHolds(candidate', record'[n])
    BY <1>1 DEF IngestInv
  <1>3. KeepsPacks(candidate, candidate') /\ candidate' = [i \in PackIds |-> candidate'[i]]
    BY DEF KeepsPacks, IngestInv, IngestShape
  <1> QED
    BY <1>1, <1>2, <1>3, ProcessStep, TallyKept

LEMMA OpenStateStep ==
    ASSUME IngestInv, NEW p \in Ingesters, OpenState(p)
    PROVE  IngestInv'
  <1> DEFINE m == <<Document(p), text[Document(p)]>>
             r == ingest[p]
             n == [r EXCEPT !.step = "save", !.at.name = m, !.at.print = MappingPrint(p)]
  <1>1. /\ r.step = "print" /\ UNCHANGED <<candidate, tally>>
        /\ record' = [record EXCEPT ![m] = [kind |-> "torn"]]
        /\ Set(p, n)
    BY DEF OpenState, Doing
  <1>2. /\ IsIngest(r) /\ Filed(candidate, r) /\ Counts(r, 1) /\ r.queue # << >>
        /\ Holds(candidate, r.at.pack, r.at.read) /\ Done(r)
    BY <1>1, UnderwayRun DEF Doing, Underway
  <1>3. /\ n = [f \in RunKeys |-> n[f]] /\ n.at = [f \in AtKeys |-> n.at[f]]
        /\ n.flags = r.flags /\ n.target = r.target /\ n.queue = r.queue
        /\ n.run = r.run /\ n.outcome = r.outcome /\ n.step = "save"
        /\ n.at.pack = r.at.pack /\ n.at.read = r.at.read
    BY <1>2 DEF RunKeys, AtKeys, IsIngest
  <1> HIDE DEF n, m
  <1>4. Filed(candidate, n) /\ Counts(n, 1) /\ Done(n)
    BY <1>2, <1>3, OtherPlace
  <1>5. Underway(candidate, n)
    BY <1>2, <1>3, <1>4 DEF Underway
  <1>6. RunHolds(candidate, n) /\ n.step # "fill"
    BY <1>3, <1>5 DEF RunHolds
  <1>7. RecordHolds(candidate, [kind |-> "torn"])
    BY DEF RecordHolds
  <1> QED
    BY <1>1, <1>6, <1>7, RecordStep

LEMMA SaveStateStep ==
    ASSUME IngestInv, NEW p \in Ingesters, SaveState(p)
    PROVE  IngestInv'
  <1> DEFINE r == ingest[p]
  <1>1. /\ r.step = "save" /\ UNCHANGED <<candidate, tally>> /\ Set(p, NextDocument(r))
    BY DEF SaveState, Doing
  <1>2. PICK s : /\ s = StateOf(r) \/ s = [kind |-> "torn"]
                 /\ record' = [record EXCEPT ![r.at.name] = s]
    BY DEF SaveState
  <1>3. /\ Filed(candidate, r) /\ Counts(r, 1) /\ r.queue # << >>
        /\ Holds(candidate, r.at.pack, r.at.read) /\ Done(r)
    BY <1>1, UnderwayRun DEF Doing, Underway
  <1>4. RecordHolds(candidate, s)
    BY <1>2, <1>3 DEF RecordHolds, StateOf, Holds
  <1>5. RunHolds(candidate, NextDocument(r)) /\ NextDocument(r).step # "fill"
    BY <1>3, NextDocumentHolds
  <1> HIDE DEF r
  <1> QED
    BY <1>1, <1>2, <1>4, <1>5, RecordStep

LEMMA EndIngestStep ==
    ASSUME IngestInv, NEW p \in Ingesters, EndIngest(p)
    PROVE  IngestInv'
  <1>1. /\ ingest[p].step = "read" /\ ingest[p].queue = << >> /\ UNCHANGED <<candidate, record, tally>>
    BY DEF EndIngest, Doing
  <1>2. PICK status : Set(p, [step |-> "idle", outcome |-> ingest[p].outcome, target |-> ingest[p].target,
                              status |-> status])
    BY DEF EndIngest
  <1> DEFINE n == [step |-> "idle", outcome |-> ingest[p].outcome, target |-> ingest[p].target, status |-> status]
  <1>3. Filed(candidate, ingest[p]) /\ IsIngest(ingest[p])
    BY <1>1, UnderwayRun DEF Doing
  <1>4. ToSet(ingest[p].queue) = {}
    BY <1>1 DEF ToSet
  <1>5. \A d \in ToSet(ingest[p].target) :
          ingest[p].outcome[d] # {} /\ \A o \in ingest[p].outcome[d] : Vouched(candidate, o)
    BY <1>3, <1>4, QueueSet DEF Filed, IsIngest
  <1>6. RunHolds(candidate, n) /\ n.step # "fill"
    BY <1>5 DEF RunHolds, Told
  <1> QED
    BY <1>1, <1>2, <1>6, QuietStep, TallyKept

LEMMA EditDocumentStep ==
    ASSUME IngestInv, EditDocument
    PROVE  IngestInv'
  <1>1. /\ UNCHANGED <<mapping, candidate, record, ingest>>
        /\ tally' = [tally EXCEPT !.edits = @ + 1]
    BY DEF EditDocument
  <1>2. IngestShape'
    BY <1>1 DEF IngestInv, IngestShape
  <1>3. OwnPacks'
    BY <1>1 DEF IngestInv, OwnPacks, Doing
  <1> QED
    BY <1>1, <1>2, <1>3 DEF IngestInv

LEMMA BreakWriteStep ==
    ASSUME IngestInv, NEW p \in Ingesters, BreakWrite(p)
    PROVE  IngestInv'
  <1>1. /\ ~Doing(p, "idle") /\ ingest[p].queue # << >> /\ Set(p, FailedDocument(ingest[p]))
        /\ tally' = [tally EXCEPT !.breaks = @ + 1] /\ UNCHANGED <<candidate, record>>
    BY DEF BreakWrite
  <1>2. RunHolds(candidate, FailedDocument(ingest[p])) /\ FailedDocument(ingest[p]).step # "fill"
    BY <1>1, UnderwayRun, FailedDocumentHolds
  <1> QED
    BY <1>1, <1>2, QuietStep, TallyBroken

LEMMA DieStep ==
    ASSUME IngestInv, NEW p \in Ingesters, Die(p)
    PROVE  IngestInv'
  <1>1. /\ Set(p, Resting("DIED", NothingFiled))
        /\ tally' = [tally EXCEPT !.breaks = @ + 1] /\ UNCHANGED <<candidate, record>>
    BY DEF Die
  <1>2. RunHolds(candidate, Resting("DIED", NothingFiled)) /\ Resting("DIED", NothingFiled).step # "fill"
    BY DEF RunHolds, Told, Resting
  <1> QED
    BY <1>1, <1>2, QuietStep, TallyBroken

LEMMA IngestInductive ==
    ASSUME IngestInv, [IngestNext]_ingestVars
    PROVE  IngestInv'
  <1>1. CASE UNCHANGED ingestVars
    <2>1. UNCHANGED <<candidate, record, ingest, tally>>
      BY <1>1 DEF ingestVars
    <2>2. IngestShape' /\ OwnPacks'
      BY <2>1 DEF IngestInv, IngestShape, OwnPacks, Doing
    <2> QED
      BY <2>1, <2>2 DEF IngestInv
  <1>2. CASE EditDocument
    BY <1>2, EditDocumentStep
  <1>3. ASSUME NEW p \in Ingesters,
               \/ StartIngest(p) \/ ReadDocument(p) \/ MapDocument(p) \/ Compare(p)
               \/ MakePack(p) \/ FillPack(p) \/ OpenState(p) \/ SaveState(p)
               \/ EndIngest(p) \/ BreakWrite(p) \/ Die(p)
        PROVE  IngestInv'
    BY <1>3, StartIngestStep, ReadDocumentStep, MapDocumentStep, CompareStep, MakePackStep,
       FillPackStep, OpenStateStep, SaveStateStep, EndIngestStep, BreakWriteStep, DieStep
  <1> QED
    BY <1>1, <1>2, <1>3 DEF IngestNext

LEMMA IngestInitial ==
    ASSUME IngestInit
    PROVE  IngestInv
  <1>1. IngestShape
    BY DEF IngestInit, IngestShape
  <1>2. \A n \in Names : RecordHolds(candidate, record[n])
    BY DEF IngestInit, RecordHolds, Unwritten
  <1>3. \A p \in Ingesters : ingest[p].step = "idle" /\ ingest[p].status = "NONE"
    BY DEF IngestInit, Resting
  <1>4. \A p \in Ingesters : RunHolds(candidate, ingest[p])
    BY <1>3 DEF RunHolds, Told
  <1>5. OwnPacks
    BY <1>3 DEF OwnPacks, Doing
  <1> QED
    BY <1>1, <1>2, <1>4, <1>5 DEF IngestInv

\* A state file that can be read names a pack that was written in full and
\* holds the rows it lists, and a run that ended said of each of its documents
\* what became of it, and packed what it says: although documents change
\* between their readings, processes break off and others write the same
\* state (ingest/orchestrator.py, ingest/delta.py).
THEOREM IngestsTellTruth == IngestSpec => []IngestTellsTruth
  <1>1. IngestInit => IngestInv
    BY IngestInitial
  <1>2. IngestInv /\ [IngestNext]_ingestVars => IngestInv'
    BY IngestInductive
  <1>3. IngestInv => IngestTellsTruth
    <2> SUFFICES ASSUME IngestInv PROVE StatesTellTruth /\ ReportsTellTruth
      BY DEF IngestTellsTruth
    <2>1. StatesTellTruth
      BY DEF IngestInv, RecordHolds, StatesTellTruth
    <2>2. ReportsTellTruth
      BY DEF IngestInv, RunHolds, Told, Vouched, Holds, ReportsTellTruth
    <2> QED
      BY <2>1, <2>2
  <1> QED
    BY <1>1, <1>2, <1>3, PTL DEF IngestSpec

-----------------------------------------------------------------------------
(* The pack pipeline (PackPipeline).                                       *)

\* The compiler keeps each key of a feed, once (compiler/engine.py).
LEMMA CompiledHoldsEachOnce ==
    ASSUME NEW f \in Feeds
    PROVE  IsInjective(Compiled(f)) /\ ToSet(Compiled(f)) = ToSet(FeedKeys(f))
  <1> DEFINE keys == FeedKeys(f)
             first == {i \in DOMAIN keys : \A j \in 1..(i - 1) : keys[j] # keys[i]}
             pos(n) == CHOOSE i \in first : Cardinality({j \in first : j <= i}) = n
  <1>1. DOMAIN keys = 1..Len(keys) /\ Len(keys) \in Nat
    BY FeedRows
  <1>2. first \in SUBSET Nat /\ IsFiniteSet(first)
    <2>1. first \in SUBSET (1..Len(keys))
      BY <1>1
    <2>2. IsFiniteSet(1..Len(keys))
      BY <1>1, FS_Interval
    <2> HIDE DEF first, keys
    <2>3. IsFiniteSet(first)
      BY <2>1, <2>2, FS_Subset
    <2> QED
      BY <1>1, <2>1, <2>3
  <1>3. \A i, k \in first : keys[i] = keys[k] => i = k
    <2> SUFFICES ASSUME NEW i \in first, NEW k \in first, keys[i] = keys[k], i # k PROVE FALSE
      OBVIOUS
    <2>1. i \in 1..Len(keys) /\ k \in 1..Len(keys)
      BY <1>1
    <2>2. i \in 1..(k - 1) \/ k \in 1..(i - 1)
      BY <1>1, <2>1
    <2> QED
      BY <2>2
  <1>4. \A v \in ToSet(keys) : \E i \in first : keys[i] = v
    <2> SUFFICES ASSUME NEW v \in ToSet(keys) PROVE \E i \in first : keys[i] = v
      OBVIOUS
    <2> DEFINE T == {i \in DOMAIN keys : keys[i] = v}
    <2>1. T \in SUBSET Nat /\ T # {}
      BY <1>1 DEF ToSet
    <2>2. PICK i \in T : \A j \in T : i <= j
      BY <2>1, LeastNumber
    <2>3. ASSUME NEW j \in 1..(i - 1) PROVE keys[j] # keys[i]
      <3>1. i \in 1..Len(keys)
        BY <1>1
      <3>2. j \in 1..Len(keys) /\ j < i
        BY <1>1, <3>1
      <3>3. j \notin T
        BY <2>2, <3>1, <3>2
      <3> QED
        BY <1>1, <3>2, <3>3
    <2> QED
      BY <2>3
  <1>5. \A i \in first : keys[i] \in ToSet(keys)
    BY DEF ToSet
  <1>6. Compiled(f) = [n \in 1..Cardinality(first) |-> keys[pos(n)]]
    BY DEF Compiled
  <1> HIDE DEF keys, first
  <1>7. /\ Cardinality(first) \in Nat
        /\ \A i \in first : Cardinality({j \in first : j <= i}) \in 1..Cardinality(first)
        /\ \A i, k \in first : Cardinality({j \in first : j <= i}) = Cardinality({j \in first : j <= k}) => i = k
        /\ \A n \in 1..Cardinality(first) : \E i \in first : Cardinality({j \in first : j <= i}) = n
    BY <1>2, Counting
  <1>8. ASSUME NEW n \in 1..Cardinality(first)
        PROVE  pos(n) \in first /\ Cardinality({j \in first : j <= pos(n)}) = n
    BY <1>7
  <1> HIDE DEF pos
  <1>9. IsInjective(Compiled(f))
    <2> SUFFICES ASSUME NEW m \in 1..Cardinality(first), NEW n \in 1..Cardinality(first),
                        keys[pos(m)] = keys[pos(n)]
                 PROVE  m = n
      BY <1>6 DEF IsInjective
    <2>1. pos(m) = pos(n)
      BY <1>3, <1>8
    <2> QED
      BY <1>8, <2>1
  <1>10. ToSet(Compiled(f)) = {keys[pos(n)] : n \in 1..Cardinality(first)}
    BY <1>6 DEF ToSet
  <1>11. ToSet(Compiled(f)) \subseteq ToSet(keys)
    BY <1>5, <1>8, <1>10
  <1>12. ASSUME NEW v \in ToSet(keys) PROVE v \in ToSet(Compiled(f))
    <2>1. PICK i \in first : keys[i] = v
      BY <1>4
    <2> DEFINE n == Cardinality({j \in first : j <= i})
    <2>2. n \in 1..Cardinality(first)
      BY <1>7
    <2>3. pos(n) = i
      BY <1>7, <1>8, <2>2
    <2> HIDE DEF n
    <2> QED
      BY <1>10, <2>1, <2>2, <2>3
  <1> QED
    BY <1>9, <1>11, <1>12 DEF keys

TreeKeys == {"made", "written", "open", "keys", "by", "edition"}

PipeKeys == {"step", "id", "pack", "feed", "checks", "before", "entries", "disturbed"}

IsTree(x) ==
    /\ x = [f \in TreeKeys |-> x[f]]
    /\ x.written \in Nat /\ x.edition \in Nat
    /\ x.made \in BOOLEAN /\ x.open \in BOOLEAN
    /\ ~x.made => x.written = 0 /\ ~x.open /\ x.edition = 0

IsWhole(x) == x.written = PackFiles /\ ~x.open

\* Unless it was changed since, the claims are those of the feed.
Keeps(x, feed) == x.edition = 0 => x.keys = Compiled(feed)

\* What a run has of its pack, once it made it.
Owns(x, r) ==
    /\ r.step \in {"open", "write", "scan", "index", "validate", "look"} =>
         x.made /\ x.by = r.id /\ (x.written > Claimless => Keeps(x, r.feed))
    /\ r.step = "open" => x.written < PackFiles /\ ~x.open
    /\ r.step = "write" => x.written < PackFiles
    /\ r.step \in {"scan", "index", "validate", "look"} => IsWhole(x)

\* A pack that was changed since the first look shows another change.
Noticed(trees, r) ==
    /\ r.before = [x \in Targets \ {r.pack} |-> r.before[x]]
    /\ \A x \in Targets \ {r.pack} :
         r.before[x].edition \in Nat /\ r.before[x].edition <= trees[x].edition
    /\ \A x \in r.disturbed :
         x \in Targets \ {r.pack} /\ r.before[x].edition < trees[x].edition

PipeHolds(trees, runs, r) ==
    /\ r = [f \in PipeKeys |-> r[f]]
    /\ r.id \in 1..runs /\ r.pack \in Targets /\ r.feed \in Feeds
    /\ Owns(trees[r.pack], r)
    /\ Noticed(trees, r)

VerdictHolds(trees, v, id) ==
    v.status = "PIPELINE_PASSED" =>
        /\ v.pack \in Targets /\ v.feed \in Feeds /\ v.disturbed = {}
        /\ trees[v.pack].made /\ trees[v.pack].by = id
        /\ IsWhole(trees[v.pack]) /\ Keeps(trees[v.pack], v.feed)

PipeShape ==
    /\ tree = [t \in Targets |-> tree[t]]
    /\ \A t \in Targets : IsTree(tree[t])
    /\ verdict = [i \in RunIds |-> verdict[i]]
    /\ pipe = [p \in Runners |-> pipe[p]]
    /\ used = [runs |-> used.runs, meddlings |-> used.meddlings, failures |-> used.failures]
    /\ used.runs \in 0..MaxPipelines

RunsDiffer ==
    \A p, q \in Runners :
        (p # q /\ pipe[p].step # "idle" /\ pipe[q].step # "idle") => pipe[p].id # pipe[q].id

PipeInv ==
    /\ PipeShape
    /\ \A i \in RunIds : VerdictHolds(tree, verdict[i], i)
    /\ \A p \in Runners : pipe[p].step # "idle" => PipeHolds(tree, used.runs, pipe[p])
    /\ RunsDiffer

-----------------------------------------------------------------------------
\* What any step does to a pack: the one that made it stays, and a whole pack
\* stays whole, with its claims unless the change shows.
Grows(x, y) ==
    /\ IsTree(y)
    /\ x.made => y.made /\ y.by = x.by
    /\ x.edition <= y.edition
    /\ IsWhole(x) => IsWhole(y) /\ (y.edition = 0 => y.keys = x.keys)

LEMMA SameGrows ==
    ASSUME NEW x, IsTree(x)
    PROVE  Grows(x, x)
  BY DEF Grows, IsTree

LEMMA KeepsGrown ==
    ASSUME NEW x, NEW y, IsTree(x), Grows(x, y), IsWhole(x), NEW feed, Keeps(x, feed)
    PROVE  Keeps(y, feed)
  BY DEF Grows, IsTree, Keeps

LEMMA KeptVerdict ==
    ASSUME NEW trees, NEW later, \A t \in Targets : IsTree(trees[t]) /\ Grows(trees[t], later[t]),
           NEW v, NEW id, VerdictHolds(trees, v, id)
    PROVE  VerdictHolds(later, v, id)
  <1>1. CASE v.status # "PIPELINE_PASSED"
    BY <1>1 DEF VerdictHolds
  <1>2. CASE v.status = "PIPELINE_PASSED"
    <2>1. /\ v.pack \in Targets /\ v.feed \in Feeds /\ v.disturbed = {}
          /\ trees[v.pack].made /\ trees[v.pack].by = id
          /\ IsWhole(trees[v.pack]) /\ Keeps(trees[v.pack], v.feed)
      BY <1>2 DEF VerdictHolds
    <2>2. IsTree(trees[v.pack]) /\ Grows(trees[v.pack], later[v.pack])
      BY <2>1
    <2>3. Keeps(later[v.pack], v.feed)
      BY <2>1, <2>2, KeepsGrown
    <2>4. later[v.pack].made /\ later[v.pack].by = id /\ IsWhole(later[v.pack])
      BY <2>1, <2>2 DEF Grows
    <2> QED
      BY <2>1, <2>3, <2>4 DEF VerdictHolds
  <1> QED
    BY <1>1, <1>2

LEMMA KeptNotice ==
    ASSUME NEW trees, NEW later, \A t \in Targets : IsTree(trees[t]) /\ Grows(trees[t], later[t]),
           NEW r, r.pack \in Targets, Noticed(trees, r)
    PROVE  Noticed(later, r)
  <1>1. \A t \in Targets : /\ trees[t].edition \in Nat /\ later[t].edition \in Nat
                           /\ trees[t].edition <= later[t].edition
    BY DEF Grows, IsTree
  <1>2. \A x \in Targets \ {r.pack} :
          r.before[x].edition \in Nat /\ r.before[x].edition <= trees[x].edition
    BY DEF Noticed
  <1>3. \A x \in Targets \ {r.pack} : r.before[x].edition <= later[x].edition
    BY ONLY <1>1, <1>2
  <1>4. \A x \in Targets \ {r.pack} :
          r.before[x].edition < trees[x].edition => r.before[x].edition < later[x].edition
    BY ONLY <1>1, <1>2
  <1> QED
    BY <1>2, <1>3, <1>4 DEF Noticed

LEMMA KeptPipe ==
    ASSUME NEW trees, NEW later, \A t \in Targets : IsTree(trees[t]) /\ Grows(trees[t], later[t]),
           NEW runs \in Nat, NEW more \in Nat, runs <= more,
           NEW r, PipeHolds(trees, runs, r),
           r.step \in {"open", "write"} => later[r.pack] = trees[r.pack]
    PROVE  PipeHolds(later, more, r)
  <1>1. r.pack \in Targets /\ IsTree(trees[r.pack]) /\ Grows(trees[r.pack], later[r.pack])
    BY DEF PipeHolds
  <1>2. Owns(trees[r.pack], r) /\ Noticed(trees, r)
    BY DEF PipeHolds
  <1>3. Noticed(later, r)
    BY <1>1, <1>2, KeptNotice
  <1>4. ASSUME r.step \in {"open", "write"} PROVE Owns(later[r.pack], r)
    BY <1>2, <1>4
  <1>5. ASSUME r.step \in {"scan", "index", "validate", "look"} PROVE Owns(later[r.pack], r)
    <2>1. /\ trees[r.pack].made /\ trees[r.pack].by = r.id /\ IsWhole(trees[r.pack])
          /\ trees[r.pack].written > Claimless => Keeps(trees[r.pack], r.feed)
      BY <1>2, <1>5 DEF Owns
    <2>2. Keeps(trees[r.pack], r.feed)
      BY <2>1 DEF IsWhole, PackFiles, Claimless
    <2>3. Keeps(later[r.pack], r.feed)
      BY <1>1, <2>1, <2>2, KeepsGrown
    <2>4. later[r.pack].made /\ later[r.pack].by = r.id /\ IsWhole(later[r.pack])
      BY <1>1, <2>1 DEF Grows
    <2> QED
      BY <1>5, <2>3, <2>4 DEF Owns
  <1>6. ASSUME r.step \notin {"open", "write", "scan", "index", "validate", "look"}
        PROVE  Owns(later[r.pack], r)
    BY <1>6 DEF Owns
  <1>7. Owns(later[r.pack], r)
    BY <1>2, <1>4, <1>5, <1>6
  <1>8. r.id \in 1..more
    BY DEF PipeHolds
  <1> QED
    BY <1>3, <1>7, <1>8 DEF PipeHolds

\* A step of one process, given what it does to its own run.
LEMMA RunnerStep ==
    ASSUME PipeInv, NEW p \in Runners, NEW r, pipe' = [pipe EXCEPT ![p] = r],
           tree' = [t \in Targets |-> tree'[t]],
           \A t \in Targets : Grows(tree[t], tree'[t]),
           verdict' = [i \in RunIds |-> verdict'[i]],
           used' = [runs |-> used'.runs, meddlings |-> used'.meddlings, failures |-> used'.failures],
           used'.runs \in 0..MaxPipelines, used.runs <= used'.runs,
           r.step # "idle" =>
               /\ PipeHolds(tree', used'.runs, r)
               /\ \A q \in Runners \ {p} : pipe[q].step # "idle" => r.id # pipe[q].id,
           \A q \in Runners \ {p} :
               pipe[q].step \in {"open", "write"} => tree'[pipe[q].pack] = tree[pipe[q].pack],
           \A i \in RunIds : VerdictHolds(tree', verdict'[i], i)
    PROVE  PipeInv'
  <1>1. /\ pipe' = [q \in Runners |-> pipe'[q]]
        /\ \A q \in Runners : pipe'[q] = IF q = p THEN r ELSE pipe[q]
    BY DEF PipeInv, PipeShape
  <1>2. PipeShape'
    BY <1>1 DEF PipeShape, Grows
  <1>3. \A t \in Targets : IsTree(tree[t]) /\ Grows(tree[t], tree'[t])
    BY DEF PipeInv, PipeShape
  <1>4. used.runs \in Nat /\ used'.runs \in Nat
    BY DEF PipeInv, PipeShape
  <1>5. ASSUME NEW q \in Runners, pipe'[q].step # "idle" PROVE PipeHolds(tree', used'.runs, pipe'[q])
    <2>1. CASE q = p
      BY <1>1, <1>5, <2>1
    <2>2. CASE q # p
      <3>1. pipe'[q] = pipe[q]
        BY <1>1, <2>2
      <3>2. PipeHolds(tree, used.runs, pipe[q])
        BY <1>5, <3>1 DEF PipeInv
      <3>3. pipe[q].step \in {"open", "write"} => tree'[pipe[q].pack] = tree[pipe[q].pack]
        BY <2>2
      <3>4. PipeHolds(tree', used'.runs, pipe[q])
        BY <1>3, <1>4, <3>2, <3>3, KeptPipe
      <3> QED
        BY <3>1, <3>4
    <2> QED
      BY <2>1, <2>2
  <1>6. RunsDiffer'
    BY <1>1 DEF PipeInv, RunsDiffer
  <1> QED
    BY <1>2, <1>5, <1>6 DEF PipeInv

LEMMA TreesStay ==
    ASSUME PipeInv, UNCHANGED tree
    PROVE  /\ tree' = [t \in Targets |-> tree'[t]]
           /\ \A t \in Targets : Grows(tree[t], tree'[t])
           /\ \A q \in Runners :
                pipe[q].step \in {"open", "write"} => tree'[pipe[q].pack] = tree[pipe[q].pack]
  BY SameGrows DEF PipeInv, PipeShape

LEMMA VerdictsStay ==
    ASSUME PipeInv, UNCHANGED verdict, \A t \in Targets : Grows(tree[t], tree'[t])
    PROVE  /\ verdict' = [i \in RunIds |-> verdict'[i]]
           /\ \A i \in RunIds : VerdictHolds(tree', verdict'[i], i)
  <1>1. \A t \in Targets : IsTree(tree[t]) /\ Grows(tree[t], tree'[t])
    BY DEF PipeInv, PipeShape
  <1>2. \A i \in RunIds : VerdictHolds(tree, verdict[i], i)
    BY DEF PipeInv
  <1>3. \A i \in RunIds : VerdictHolds(tree', verdict[i], i)
    BY <1>1, <1>2, KeptVerdict
  <1> QED
    BY <1>3 DEF PipeInv, PipeShape

\* The runs are counted when they start, and only then.
UsedKept ==
    /\ used' = [runs |-> used'.runs, meddlings |-> used'.meddlings, failures |-> used'.failures]
    /\ used'.runs = used.runs

LEMMA UsedStays ==
    ASSUME PipeInv,
           UNCHANGED used \/ used' = [used EXCEPT !.failures = @ + 1] \/ used' = [used EXCEPT !.meddlings = @ + 1]
    PROVE  UsedKept /\ used.runs \in 0..MaxPipelines
  BY DEF PipeInv, PipeShape, UsedKept

LEMMA ActivePipe ==
    ASSUME PipeInv, NEW p \in Runners, pipe[p].step # "idle"
    PROVE  /\ PipeHolds(tree, used.runs, pipe[p])
           /\ \A q \in Runners \ {p} : pipe[q].step # "idle" => pipe[p].id # pipe[q].id
           /\ pipe[p].id \in RunIds /\ pipe[p].pack \in Targets /\ pipe[p].feed \in Feeds
           /\ IsTree(tree[pipe[p].pack]) /\ Owns(tree[pipe[p].pack], pipe[p])
  <1>1. PipeHolds(tree, used.runs, pipe[p])
    BY DEF PipeInv
  <1>2. \A q \in Runners \ {p} : pipe[q].step # "idle" => pipe[p].id # pipe[q].id
    BY DEF PipeInv, RunsDiffer
  <1>3. /\ pipe[p].id \in 1..used.runs /\ pipe[p].pack \in Targets /\ pipe[p].feed \in Feeds
        /\ Owns(tree[pipe[p].pack], pipe[p])
    BY <1>1 DEF PipeHolds
  <1>4. used.runs \in 0..MaxPipelines /\ IsTree(tree[pipe[p].pack])
    BY <1>3 DEF PipeInv, PipeShape
  <1>5. pipe[p].id \in RunIds
    BY <1>3, <1>4, PipelineBounds DEF RunIds
  <1> QED
    BY <1>1, <1>2, <1>3, <1>4, <1>5

\* A run that ends, with or without a report.
LEMMA EndsRun ==
    ASSUME PipeInv, NEW p \in Runners, pipe[p].step # "idle", UNCHANGED tree, UsedKept,
           \/ Escape(p)
           \/ \E status, stage : /\ Report(p, status, stage)
                                 /\ status = "PIPELINE_PASSED" =>
                                      pipe[p].step = "look" /\ pipe[p].disturbed = {}
    PROVE  PipeInv'
  <1>1. pipe' = [pipe EXCEPT ![p] = Idle] /\ Idle.step = "idle"
    BY DEF Escape, Report, Idle
  <1>2. used'.runs \in 0..MaxPipelines /\ used.runs <= used'.runs
    BY DEF UsedKept, PipeInv, PipeShape
  <1>3. CASE UNCHANGED verdict
    BY <1>1, <1>2, <1>3, TreesStay, VerdictsStay, RunnerStep DEF UsedKept
  <1>4. ASSUME NEW status, NEW stage, Report(p, status, stage),
               status = "PIPELINE_PASSED" => pipe[p].step = "look" /\ pipe[p].disturbed = {}
        PROVE  PipeInv'
    <2> DEFINE v == [status |-> status, stage |-> stage, pack |-> pipe[p].pack, feed |-> pipe[p].feed,
                     disturbed |-> pipe[p].disturbed]
    <2>1. verdict' = [verdict EXCEPT ![pipe[p].id] = v]
      BY <1>4 DEF Report
    <2>2. VerdictHolds(tree, v, pipe[p].id)
      <3> SUFFICES ASSUME status = "PIPELINE_PASSED"
                   PROVE  /\ pipe[p].pack \in Targets /\ pipe[p].feed \in Feeds /\ pipe[p].disturbed = {}
                          /\ tree[pipe[p].pack].made /\ tree[pipe[p].pack].by = pipe[p].id
                          /\ IsWhole(tree[pipe[p].pack]) /\ Keeps(tree[pipe[p].pack], pipe[p].feed)
        BY DEF VerdictHolds
      <3>1. pipe[p].step = "look" /\ pipe[p].disturbed = {}
        BY <1>4
      <3>2. pipe[p].pack \in Targets /\ pipe[p].feed \in Feeds /\ Owns(tree[pipe[p].pack], pipe[p])
        BY ActivePipe
      <3>3. tree[pipe[p].pack].written > Claimless
        BY <3>1, <3>2 DEF Owns, IsWhole, PackFiles, Claimless
      <3> QED
        BY <3>1, <3>2, <3>3 DEF Owns
    <2> HIDE DEF v
    <2>3. /\ verdict' = [i \in RunIds |-> verdict'[i]]
          /\ \A i \in RunIds : verdict'[i] = IF i = pipe[p].id THEN v ELSE verdict[i]
      BY <2>1 DEF PipeInv, PipeShape
    <2>4. \A i \in RunIds : VerdictHolds(tree', verdict'[i], i)
      BY <2>2, <2>3 DEF PipeInv
    <2> QED
      BY <1>1, <1>2, <2>3, <2>4, TreesStay, RunnerStep DEF UsedKept
  <1> QED
    BY <1>3, <1>4 DEF Escape

\* A run that goes on and leaves the packs alone.
LEMMA GoesOn ==
    ASSUME PipeInv, NEW p \in Runners, pipe[p].step # "idle", UNCHANGED <<tree, verdict>>, UsedKept,
           NEW r, pipe' = [pipe EXCEPT ![p] = r], r = [f \in PipeKeys |-> r[f]],
           r.id = pipe[p].id, r.pack = pipe[p].pack, r.feed = pipe[p].feed,
           r.before = pipe[p].before, r.disturbed = pipe[p].disturbed,
           Owns(tree[r.pack], r)
    PROVE  PipeInv'
  <1>1. used'.runs \in 0..MaxPipelines /\ used.runs <= used'.runs
    BY DEF UsedKept, PipeInv, PipeShape
  <1>2. Noticed(tree, r)
    BY ActivePipe DEF PipeHolds, Noticed
  <1>3. PipeHolds(tree', used'.runs, r)
    BY <1>2, ActivePipe DEF PipeHolds, UsedKept
  <1>4. \A q \in Runners \ {p} : pipe[q].step # "idle" => r.id # pipe[q].id
    BY ActivePipe
  <1>5. /\ tree' = [t \in Targets |-> tree'[t]] /\ \A t \in Targets : Grows(tree[t], tree'[t])
        /\ \A q \in Runners \ {p} :
             pipe[q].step \in {"open", "write"} => tree'[pipe[q].pack] = tree[pipe[q].pack]
    BY TreesStay
  <1>6. /\ verdict' = [i \in RunIds |-> verdict'[i]]
        /\ \A i \in RunIds : VerdictHolds(tree', verdict'[i], i)
    BY <1>5, VerdictsStay
  <1>7. used' = [runs |-> used'.runs, meddlings |-> used'.meddlings, failures |-> used'.failures]
    BY DEF UsedKept
  <1> QED
    BY <1>1, <1>3, <1>4, <1>5, <1>6, <1>7, RunnerStep

\* A stage that follows another.
LEMMA NextStage ==
    ASSUME PipeInv, NEW p \in Runners, pipe[p].step # "idle", UNCHANGED <<tree, verdict, used>>,
           NEW step, Stage(p, step), Owns(tree[pipe[p].pack], [pipe[p] EXCEPT !.step = step])
    PROVE  PipeInv'
  <1> DEFINE r == [pipe[p] EXCEPT !.step = step]
  <1>1. pipe' = [pipe EXCEPT ![p] = r]
    BY DEF Stage
  <1>2. pipe[p] = [f \in PipeKeys |-> pipe[p][f]]
    BY ActivePipe DEF PipeHolds
  <1>3. /\ r = [f \in PipeKeys |-> r[f]] /\ r.step = step
        /\ r.id = pipe[p].id /\ r.pack = pipe[p].pack /\ r.feed = pipe[p].feed
        /\ r.before = pipe[p].before /\ r.disturbed = pipe[p].disturbed
    BY <1>2 DEF PipeKeys
  <1> HIDE DEF r
  <1> QED
    BY <1>1, <1>3, GoesOn, UsedStays DEF r

-----------------------------------------------------------------------------
(* The steps of the pipeline.                                              *)

LEMMA StartPipelineStep ==
    ASSUME PipeInv, NEW p \in Runners, StartPipeline(p)
    PROVE  PipeInv'
  <1>1. PICK t \in Targets, f \in Feeds, checks \in BOOLEAN :
          pipe' = [pipe EXCEPT ![p] =
            [step |-> "adapter", id |-> used.runs + 1, pack |-> t, feed |-> f, checks |-> checks,
             before |-> Look(t), entries |-> index, disturbed |-> {}]]
    BY DEF StartPipeline
  <1> DEFINE r == [step |-> "adapter", id |-> used.runs + 1, pack |-> t, feed |-> f, checks |-> checks,
                   before |-> Look(t), entries |-> index, disturbed |-> {}]
  <1>2. used' = [used EXCEPT !.runs = @ + 1] /\ used.runs < MaxPipelines /\ UNCHANGED <<tree, verdict>>
    BY DEF StartPipeline
  <1>3. /\ used' = [runs |-> used'.runs, meddlings |-> used'.meddlings, failures |-> used'.failures]
        /\ used'.runs = used.runs + 1 /\ used.runs \in Nat
        /\ used'.runs \in 0..MaxPipelines /\ used.runs <= used'.runs
    BY <1>2, PipelineBounds DEF PipeInv, PipeShape
  <1>4. /\ r = [x \in PipeKeys |-> r[x]] /\ r.step = "adapter" /\ r.id = used.runs + 1
        /\ r.pack = t /\ r.feed = f /\ r.before = Look(t) /\ r.disturbed = {}
    BY DEF PipeKeys
  <1> HIDE DEF r
  <1>5. Owns(tree'[r.pack], r)
    BY <1>4 DEF Owns
  <1>6. Noticed(tree', r)
    <2>1. \A x \in Targets : tree[x].edition \in Nat
      BY DEF PipeInv, PipeShape, IsTree
    <2>2. r.before = [x \in Targets \ {r.pack} |-> r.before[x]]
      BY <1>4 DEF Look
    <2>3. \A x \in Targets \ {r.pack} : r.before[x].edition = tree[x].edition
      BY <1>4 DEF Look
    <2>4. \A x \in Targets \ {r.pack} :
            r.before[x].edition \in Nat /\ r.before[x].edition <= tree'[x].edition
      BY <1>2, <2>1, <2>3
    <2> QED
      BY <1>4, <2>2, <2>4 DEF Noticed
  <1>7. PipeHolds(tree', used'.runs, r)
    BY <1>3, <1>4, <1>5, <1>6 DEF PipeHolds
  <1>8. \A q \in Runners \ {p} : pipe[q].step # "idle" => r.id # pipe[q].id
    <2> SUFFICES ASSUME NEW q \in Runners \ {p}, pipe[q].step # "idle" PROVE r.id # pipe[q].id
      OBVIOUS
    <2>1. pipe[q].id \in 1..used.runs
      BY ActivePipe DEF PipeHolds
    <2> QED
      BY <1>3, <1>4, <2>1
  <1>9. /\ tree' = [x \in Targets |-> tree'[x]] /\ \A x \in Targets : Grows(tree[x], tree'[x])
        /\ \A q \in Runners \ {p} :
             pipe[q].step \in {"open", "write"} => tree'[pipe[q].pack] = tree[pipe[q].pack]
    BY <1>2, TreesStay
  <1>10. /\ verdict' = [i \in RunIds |-> verdict'[i]]
         /\ \A i \in RunIds : VerdictHolds(tree', verdict'[i], i)
    BY <1>2, <1>9, VerdictsStay
  <1>11. pipe' = [pipe EXCEPT ![p] = r]
    BY <1>1 DEF r
  <1> QED
    BY <1>3, <1>7, <1>8, <1>9, <1>10, <1>11, RunnerStep

LEMMA AdaptStep ==
    ASSUME PipeInv, NEW p \in Runners, Adapt(p)
    PROVE  PipeInv'
  <1>1. pipe[p].step = "adapter" /\ UNCHANGED <<tree, used>>
    BY DEF Adapt, Staged
  <1>2. Owns(tree[pipe[p].pack], [pipe[p] EXCEPT !.step = "compile"])
    BY DEF Owns
  <1>3. CASE Report(p, "PIPELINE_FAILED", "adapter")
    BY <1>1, <1>3, EndsRun, UsedStays
  <1>4. CASE Stage(p, "compile") /\ UNCHANGED verdict
    BY <1>1, <1>2, <1>4, NextStage
  <1> QED
    BY <1>3, <1>4 DEF Adapt

\* A run that changes its own pack, which no other works at.
LEMMA OwnPackStep ==
    ASSUME PipeInv, NEW p \in Runners, pipe[p].step # "idle", UNCHANGED <<verdict, used>>,
           NEW step, Stage(p, step), step # "idle",
           NEW y, tree' = [tree EXCEPT ![pipe[p].pack] = y], Grows(tree[pipe[p].pack], y),
           Owns(y, [pipe[p] EXCEPT !.step = step]),
           \/ tree[pipe[p].pack].by = pipe[p].id /\ tree[pipe[p].pack].made
           \/ ~tree[pipe[p].pack].made
    PROVE  PipeInv'
  <1> DEFINE r == [pipe[p] EXCEPT !.step = step]
             t == pipe[p].pack
  <1>1. pipe' = [pipe EXCEPT ![p] = r]
    BY DEF Stage
  <1>2. /\ PipeHolds(tree, used.runs, pipe[p]) /\ t \in Targets
        /\ \A q \in Runners \ {p} : pipe[q].step # "idle" => pipe[p].id # pipe[q].id
    BY ActivePipe
  <1>3. /\ r = [f \in PipeKeys |-> r[f]] /\ r.step = step
        /\ r.id = pipe[p].id /\ r.pack = t /\ r.feed = pipe[p].feed
        /\ r.before = pipe[p].before /\ r.disturbed = pipe[p].disturbed
    BY <1>2 DEF PipeHolds, PipeKeys
  <1>4. /\ tree' = [x \in Targets |-> tree'[x]]
        /\ \A x \in Targets : tree'[x] = IF x = t THEN y ELSE tree[x]
    BY <1>2 DEF PipeInv, PipeShape
  <1>5. \A x \in Targets : IsTree(tree[x]) /\ Grows(tree[x], tree'[x])
    BY <1>4, SameGrows DEF PipeInv, PipeShape
  <1> HIDE DEF r
  <1>6. Noticed(tree', r)
    <2>1. Noticed(tree, r)
      BY <1>2, <1>3 DEF PipeHolds, Noticed
    <2> QED
      BY <1>2, <1>3, <1>5, <2>1, KeptNotice
  <1>7. Owns(tree'[r.pack], r)
    BY <1>2, <1>3, <1>4 DEF r
  <1>8. used.runs \in 0..MaxPipelines /\ used'.runs = used.runs
        /\ used' = [runs |-> used'.runs, meddlings |-> used'.meddlings, failures |-> used'.failures]
    BY DEF PipeInv, PipeShape
  <1>9. PipeHolds(tree', used'.runs, r)
    BY <1>2, <1>3, <1>6, <1>7, <1>8 DEF PipeHolds
  <1>10. \A q \in Runners \ {p} :
           pipe[q].step \in {"open", "write"} => tree'[pipe[q].pack] = tree[pipe[q].pack]
    <2> SUFFICES ASSUME NEW q \in Runners \ {p}, pipe[q].step \in {"open", "write"}
                 PROVE  tree'[pipe[q].pack] = tree[pipe[q].pack]
      OBVIOUS
    <2>1. pipe[q].step # "idle"
      OBVIOUS
    <2>2. pipe[q].pack \in Targets /\ Owns(tree[pipe[q].pack], pipe[q])
      BY <2>1, ActivePipe
    <2>3. tree[pipe[q].pack].made /\ tree[pipe[q].pack].by = pipe[q].id
      BY <2>2 DEF Owns
    <2>4. pipe[q].pack # t
      BY <1>2, <2>1, <2>3
    <2> QED
      BY <1>4, <2>2, <2>4
  <1>11. /\ verdict' = [i \in RunIds |-> verdict'[i]]
         /\ \A i \in RunIds : VerdictHolds(tree', verdict'[i], i)
    BY <1>5, VerdictsStay
  <1>12. \A q \in Runners \ {p} : pipe[q].step # "idle" => r.id # pipe[q].id
    BY <1>2, <1>3
  <1>13. used.runs <= used'.runs /\ used'.runs \in 0..MaxPipelines
    BY <1>8
  <1> QED
    BY <1>1, <1>4, <1>5, <1>8, <1>9, <1>10, <1>11, <1>12, <1>13, RunnerStep

LEMMA MakeTreeStep ==
    ASSUME PipeInv, NEW p \in Runners, MakeTree(p)
    PROVE  PipeInv'
  <1> DEFINE t == pipe[p].pack
             y == [tree[t] EXCEPT !.made = TRUE, !.by = pipe[p].id]
  <1>1. pipe[p].step = "compile" /\ UNCHANGED used
    BY DEF MakeTree, Staged
  <1>2. CASE Report(p, "PIPELINE_FAILED", "compiler") /\ UNCHANGED tree
    BY <1>1, <1>2, EndsRun, UsedStays
  <1>3. CASE /\ ~tree[t].made
             /\ tree' = [tree EXCEPT ![t].made = TRUE, ![t].by = pipe[p].id]
             /\ Stage(p, "open") /\ UNCHANGED verdict
    <2>1. t \in Targets /\ IsTree(tree[t])
      BY <1>1, ActivePipe
    <2>2. tree' = [tree EXCEPT ![t] = y]
      BY <1>3, <2>1 DEF PipeInv, PipeShape
    <2>3. /\ y = [f \in TreeKeys |-> y[f]] /\ y.made = TRUE /\ y.by = pipe[p].id
          /\ y.written = 0 /\ y.open = FALSE /\ y.edition = 0
      BY <1>3, <2>1 DEF IsTree, TreeKeys
    <2> HIDE DEF y
    <2>4. Grows(tree[t], y)
      <3>1. tree[t].written = 0 /\ tree[t].edition = 0
        BY <1>3, <2>1 DEF IsTree
      <3>2. IsTree(y)
        <4>1. y.made \in BOOLEAN /\ y.open \in BOOLEAN /\ ~(~y.made)
          BY ONLY <2>3, Zenon
        <4>2. y.written \in Nat /\ y.edition \in Nat
          BY ONLY <2>3
        <4> QED
          BY ONLY <2>3, <4>1, <4>2, Zenon DEF IsTree
      <3>3. ~IsWhole(tree[t]) /\ tree[t].edition <= y.edition
        BY ONLY <2>3, <3>1 DEF IsWhole, PackFiles
      <3> QED
        BY <1>3, <3>2, <3>3 DEF Grows
    <2>5. [pipe[p] EXCEPT !.step = "open"].step = "open" /\ [pipe[p] EXCEPT !.step = "open"].id = pipe[p].id
      BY <1>1, ActivePipe DEF PipeHolds, PipeKeys
    <2>6. Owns(y, [pipe[p] EXCEPT !.step = "open"])
      BY <2>3, <2>5 DEF Owns, Claimless, PackFiles
    <2> QED
      BY <1>1, <1>3, <2>2, <2>4, <2>6, OwnPackStep
  <1> QED
    BY <1>2, <1>3 DEF MakeTree

LEMMA OpenFileStep ==
    ASSUME PipeInv, NEW p \in Runners, OpenFile(p)
    PROVE  PipeInv'
  <1> DEFINE t == pipe[p].pack
             y == [tree[t] EXCEPT !.open = TRUE]
  <1>1. /\ pipe[p].step = "open" /\ UNCHANGED <<used, verdict>> /\ Stage(p, "write")
        /\ tree' = [tree EXCEPT ![t].open = TRUE]
    BY DEF OpenFile, Staged
  <1>2. t \in Targets /\ IsTree(tree[t]) /\ Owns(tree[t], pipe[p])
    BY <1>1, ActivePipe
  <1>3. /\ tree[t].made /\ tree[t].by = pipe[p].id /\ tree[t].written < PackFiles
        /\ tree[t].written > Claimless => Keeps(tree[t], pipe[p].feed)
    BY <1>1, <1>2 DEF Owns
  <1>4. tree' = [tree EXCEPT ![t] = y]
    BY <1>1, <1>2 DEF PipeInv, PipeShape
  <1>5. /\ y = [f \in TreeKeys |-> y[f]] /\ y.made = tree[t].made /\ y.by = tree[t].by
        /\ y.written = tree[t].written /\ y.open = TRUE /\ y.edition = tree[t].edition
        /\ y.keys = tree[t].keys
    BY <1>2 DEF IsTree, TreeKeys
  <1> HIDE DEF y
  <1>6. Grows(tree[t], y)
    <2>1. IsTree(y)
      BY ONLY <1>2, <1>3, <1>5 DEF IsTree
    <2>2. tree[t].edition \in Nat /\ ~IsWhole(tree[t])
      BY <1>2, <1>3 DEF IsTree, IsWhole
    <2>3. tree[t].edition <= y.edition
      BY ONLY <1>5, <2>2
    <2> QED
      BY <1>5, <2>1, <2>2, <2>3 DEF Grows
  <1>7. LET r == [pipe[p] EXCEPT !.step = "write"]
        IN  r.step = "write" /\ r.id = pipe[p].id /\ r.feed = pipe[p].feed
    BY <1>1, ActivePipe DEF PipeHolds, PipeKeys
  <1>8. Owns(y, [pipe[p] EXCEPT !.step = "write"])
    BY <1>3, <1>5, <1>7 DEF Owns, Keeps
  <1> QED
    BY <1>1, <1>3, <1>4, <1>6, <1>8, OwnPackStep

LEMMA WriteFileStep ==
    ASSUME PipeInv, NEW p \in Runners, WriteFile(p)
    PROVE  PipeInv'
  <1> DEFINE t == pipe[p].pack
             n == tree[t].written
             keys == IF n = Claimless THEN Compiled(pipe[p].feed) ELSE tree[t].keys
             y == [tree[t] EXCEPT !.open = FALSE, !.written = n + 1, !.keys = keys]
             step == IF n + 1 < PackFiles THEN "open" ELSE "scan"
  <1>1. /\ pipe[p].step = "write" /\ UNCHANGED <<used, verdict>> /\ Stage(p, step)
        /\ tree' = [tree EXCEPT ![t].open = FALSE, ![t].written = n + 1,
                                ![t].keys = IF n = Claimless THEN Compiled(pipe[p].feed) ELSE @]
    BY DEF WriteFile, Staged
  <1>2. t \in Targets /\ IsTree(tree[t]) /\ Owns(tree[t], pipe[p])
    BY <1>1, ActivePipe
  <1>3. /\ tree[t].made /\ tree[t].by = pipe[p].id /\ n < PackFiles /\ n \in Nat
        /\ n > Claimless => Keeps(tree[t], pipe[p].feed)
    BY <1>1, <1>2 DEF Owns, IsTree
  <1>4. tree' = [tree EXCEPT ![t] = y]
    BY <1>1, <1>2 DEF PipeInv, PipeShape
  <1>5. /\ y = [f \in TreeKeys |-> y[f]] /\ y.made = tree[t].made /\ y.by = tree[t].by
        /\ y.written = n + 1 /\ y.open = FALSE /\ y.edition = tree[t].edition
        /\ y.keys = keys
    BY <1>2 DEF IsTree, TreeKeys
  <1> HIDE DEF y
  <1>6. Grows(tree[t], y)
    <2>0. tree[t].edition \in Nat
      BY <1>2 DEF IsTree
    <2>1. y.written \in Nat /\ y.edition \in Nat /\ tree[t].edition \in Nat
      BY ONLY <1>3, <1>5, <2>0
    <2>2. IsTree(y)
      BY ONLY <1>3, <1>5, <2>1 DEF IsTree
    <2>3. ~IsWhole(tree[t])
      BY <1>3 DEF IsWhole, PackFiles
    <2>4. tree[t].edition <= y.edition
      BY ONLY <1>5, <2>1
    <2> QED
      BY <1>5, <2>2, <2>3, <2>4 DEF Grows
  <1>7. LET r == [pipe[p] EXCEPT !.step = step]
        IN  r.step = step /\ r.id = pipe[p].id /\ r.feed = pipe[p].feed
    BY <1>1, ActivePipe DEF PipeHolds, PipeKeys
  <1>8. y.written > Claimless => Keeps(y, pipe[p].feed)
    <2>1. n = Claimless \/ n > Claimless \/ n + 1 <= Claimless
      BY <1>3 DEF Claimless
    <2>2. CASE n = Claimless
      BY <1>5, <2>2 DEF Keeps
    <2>3. CASE n > Claimless
      <3>1. n # Claimless
        BY <1>3, <2>3 DEF Claimless
      <3> QED
        BY <1>3, <1>5, <2>3, <3>1 DEF Keeps
    <2>4. CASE n + 1 <= Claimless
      BY <1>3, <1>5, <2>4 DEF Claimless
    <2> QED
      BY <2>1, <2>2, <2>3, <2>4
  <1>9. /\ step \in {"open", "scan"} /\ y.made /\ y.by = pipe[p].id
        /\ step = "open" => y.written < PackFiles /\ ~y.open
        /\ step = "scan" => IsWhole(y)
    <2>1. CASE n + 1 < PackFiles
      BY <1>3, <1>5, <2>1 DEF IsWhole
    <2>2. CASE ~(n + 1 < PackFiles)
      <3>1. n + 1 = PackFiles /\ step = "scan"
        BY <1>3, <2>2 DEF PackFiles
      <3> QED
        BY <1>3, <1>5, <3>1 DEF IsWhole
    <2> QED
      BY <2>1, <2>2
  <1> HIDE DEF step
  <1>10. Owns(y, [pipe[p] EXCEPT !.step = step])
    BY <1>7, <1>8, <1>9 DEF Owns
  <1>11. step # "idle" /\ pipe[p].step # "idle"
    BY <1>1, <1>9
  <1> HIDE DEF n, keys
  <1> QED
    BY <1>1, <1>3, <1>4, <1>6, <1>10, <1>11, OwnPackStep

LEMMA ScanPacksStep ==
    ASSUME PipeInv, NEW p \in Runners, ScanPacks(p)
    PROVE  PipeInv'
  <1>1. pipe[p].step = "scan" /\ UNCHANGED <<tree, used>>
    BY DEF ScanPacks, Staged
  <1>2. CASE Report(p, "PIPELINE_FAILED", "index")
    BY <1>1, <1>2, EndsRun, UsedStays
  <1>3. ASSUME NEW entries, UNCHANGED verdict,
               pipe' = [pipe EXCEPT ![p].step = "index", ![p].entries = entries]
        PROVE  PipeInv'
    <2> DEFINE r == [pipe[p] EXCEPT !.step = "index", !.entries = entries]
    <2>1. pipe' = [pipe EXCEPT ![p] = r]
      BY <1>3 DEF PipeInv, PipeShape
    <2>2. pipe[p] = [f \in PipeKeys |-> pipe[p][f]]
      BY <1>1, ActivePipe DEF PipeHolds
    <2>3. /\ r = [f \in PipeKeys |-> r[f]] /\ r.step = "index"
          /\ r.id = pipe[p].id /\ r.pack = pipe[p].pack /\ r.feed = pipe[p].feed
          /\ r.before = pipe[p].before /\ r.disturbed = pipe[p].disturbed
      BY <2>2 DEF PipeKeys
    <2> HIDE DEF r
    <2>4. Owns(tree[r.pack], r)
      BY <1>1, <2>3, ActivePipe DEF Owns
    <2>5. UsedKept /\ pipe[p].step # "idle" /\ UNCHANGED <<tree, verdict>>
      BY <1>1, <1>3, UsedStays
    <2> QED
      BY <2>1, <2>3, <2>4, <2>5, GoesOn
  <1> QED
    BY <1>2, <1>3 DEF ScanPacks

\* The stages after the compiler leave what a run owns as it is.
LEMMA LaterStage ==
    ASSUME PipeInv, NEW p \in Runners, pipe[p].step \in {"scan", "index", "validate", "look"},
           NEW step \in {"validate", "look"}
    PROVE  Owns(tree[pipe[p].pack], [pipe[p] EXCEPT !.step = step])
  <1>1. Owns(tree[pipe[p].pack], pipe[p]) /\ pipe[p] = [f \in PipeKeys |-> pipe[p][f]]
    BY ActivePipe DEF PipeHolds
  <1>2. LET r == [pipe[p] EXCEPT !.step = step]
        IN  r.step = step /\ r.id = pipe[p].id /\ r.feed = pipe[p].feed
    BY <1>1 DEF PipeKeys
  <1> QED
    BY <1>1, <1>2 DEF Owns

LEMMA SaveIndexStep ==
    ASSUME PipeInv, NEW p \in Runners, SaveIndex(p)
    PROVE  PipeInv'
  <1>1. PICK step \in {"validate", "look"} :
          pipe[p].step = "index" /\ Stage(p, step) /\ UNCHANGED <<tree, verdict, used>>
    BY DEF SaveIndex, Staged
  <1> QED
    BY <1>1, LaterStage, NextStage

LEMMA ValidateStep ==
    ASSUME PipeInv, NEW p \in Runners, Validate(p)
    PROVE  PipeInv'
  <1>1. pipe[p].step = "validate" /\ UNCHANGED <<tree, used>>
    BY DEF Validate, Staged
  <1>2. CASE Report(p, "PIPELINE_FAILED", "validation")
    BY <1>1, <1>2, EndsRun, UsedStays
  <1>3. CASE Stage(p, "look") /\ UNCHANGED verdict
    BY <1>1, <1>3, LaterStage, NextStage
  <1> QED
    BY <1>2, <1>3 DEF Validate

\* A second look that finds nothing changed means that nothing was.
LEMMA EndPipelineStep ==
    ASSUME PipeInv, NEW p \in Runners, EndPipeline(p)
    PROVE  PipeInv'
  <1>1. /\ pipe[p].step = "look" /\ UNCHANGED <<tree, used>>
        /\ Report(p, IF Mutated(pipe[p].before, Look(pipe[p].pack)) THEN "PIPELINE_FAILED" ELSE "PIPELINE_PASSED", "end")
    BY DEF EndPipeline, Staged
  <1>2. ASSUME ~Mutated(pipe[p].before, Look(pipe[p].pack)) PROVE pipe[p].disturbed = {}
    <2>1. Noticed(tree, pipe[p])
      BY <1>1, ActivePipe DEF PipeHolds
    <2>2. \A x \in Targets \ {pipe[p].pack} : pipe[p].before[x].edition = tree[x].edition
      BY <1>2, <2>1 DEF Noticed, Mutated, Look
    <2>3. \A x \in Targets : tree[x].edition \in Nat
      BY DEF PipeInv, PipeShape, IsTree
    <2>4. \A x \in pipe[p].disturbed :
            x \in Targets \ {pipe[p].pack} /\ pipe[p].before[x].edition < tree[x].edition
      BY <2>1 DEF Noticed
    <2> QED
      BY <2>2, <2>3, <2>4
  <1>3. UsedKept
    BY <1>1, UsedStays
  <1>4. CASE Mutated(pipe[p].before, Look(pipe[p].pack))
    <2>1. Report(p, "PIPELINE_FAILED", "end")
      BY <1>1, <1>4
    <2> QED
      BY <1>1, <1>3, <2>1, EndsRun
  <1>5. CASE ~Mutated(pipe[p].before, Look(pipe[p].pack))
    <2>1. Report(p, "PIPELINE_PASSED", "end")
      BY <1>1, <1>5
    <2> QED
      BY <1>1, <1>2, <1>3, <1>5, <2>1, EndsRun
  <1> QED
    BY <1>4, <1>5

\* A change to a finished pack shows in it, and every run beside it notes it.
LEMMA MeddleStep ==
    ASSUME PipeInv, Meddle
    PROVE  PipeInv'
  <1>1. PICK t \in Targets :
          /\ tree[t].written = PackFiles /\ tree[t].keys # << >>
          /\ tree' = [tree EXCEPT ![t].edition = @ + 1, ![t].keys = Append(@, Head(@))]
          /\ pipe' = [p \in Runners |->
                        IF Staged(p, "idle") \/ pipe[p].pack = t THEN pipe[p]
                        ELSE [pipe[p] EXCEPT !.disturbed = @ \cup {t}]]
    BY DEF Meddle
  <1> DEFINE keys == Append(tree[t].keys, Head(tree[t].keys))
             y == [tree[t] EXCEPT !.edition = tree[t].edition + 1, !.keys = keys]
  <1>2. used' = [used EXCEPT !.meddlings = @ + 1] /\ UNCHANGED verdict
    BY DEF Meddle
  <1>3. tree' = [tree EXCEPT ![t] = y]
    BY <1>1 DEF PipeInv, PipeShape
  <1> HIDE DEF keys
  <1>4. IsTree(tree[t])
    BY DEF PipeInv, PipeShape
  <1>5. /\ y = [f \in TreeKeys |-> y[f]] /\ y.made = tree[t].made /\ y.by = tree[t].by
        /\ y.written = tree[t].written /\ y.open = tree[t].open /\ y.edition = tree[t].edition + 1
        /\ tree[t].edition \in Nat /\ tree[t].made
    <2>1. tree[t].edition \in Nat /\ tree[t].made
      BY <1>1, <1>4 DEF IsTree, PackFiles
    <2>2. tree[t] = [f \in TreeKeys |-> tree[t][f]]
      BY <1>4 DEF IsTree
    <2>3. /\ y = [f \in TreeKeys |-> y[f]] /\ y.made = tree[t].made /\ y.by = tree[t].by
          /\ y.written = tree[t].written /\ y.open = tree[t].open /\ y.edition = tree[t].edition + 1
      BY <2>2 DEF TreeKeys
    <2> QED
      BY <2>1, <2>3
  <1> HIDE DEF y
  <1>6. Grows(tree[t], y)
    <2>1. IsTree(y)
      BY <1>4, <1>5 DEF IsTree
    <2>2. tree[t].edition <= y.edition /\ y.edition # 0
      BY ONLY <1>5
    <2> QED
      BY <1>5, <2>1, <2>2 DEF Grows, IsWhole
  <1>7. /\ tree' = [x \in Targets |-> tree'[x]]
        /\ \A x \in Targets : tree'[x] = IF x = t THEN y ELSE tree[x]
    BY <1>3 DEF PipeInv, PipeShape
  <1>8. \A x \in Targets : IsTree(tree[x]) /\ Grows(tree[x], tree'[x])
    BY <1>6, <1>7, SameGrows DEF PipeInv, PipeShape
  <1>9. UsedKept /\ used.runs \in 0..MaxPipelines
    BY <1>2, UsedStays
  <1>10. /\ verdict' = [i \in RunIds |-> verdict'[i]]
         /\ \A i \in RunIds : VerdictHolds(tree', verdict'[i], i)
    BY <1>2, <1>8, VerdictsStay
  <1>11. ASSUME NEW p \in Runners, pipe[p].step # "idle"
         PROVE  PipeHolds(tree', used'.runs, pipe[p])
    <2>1. PipeHolds(tree, used.runs, pipe[p]) /\ Owns(tree[pipe[p].pack], pipe[p])
      BY <1>11, ActivePipe
    <2>2. pipe[p].step \in {"open", "write"} => tree[pipe[p].pack].written # PackFiles
      BY <2>1 DEF Owns, PackFiles
    <2>3. pipe[p].step \in {"open", "write"} => tree'[pipe[p].pack] = tree[pipe[p].pack]
      BY <1>1, <1>7, <2>1, <2>2 DEF PipeHolds
    <2>4. used.runs \in Nat /\ used'.runs = used.runs
      BY <1>9 DEF UsedKept
    <2> QED
      BY <1>8, <2>1, <2>3, <2>4, KeptPipe
  <1>12. ASSUME NEW p \in Runners
         PROVE  /\ pipe'[p].step = pipe[p].step
                /\ pipe[p].step # "idle" => pipe'[p].id = pipe[p].id /\ PipeHolds(tree', used'.runs, pipe'[p])
    <2>1. CASE Staged(p, "idle") \/ pipe[p].pack = t
      <3>1. pipe'[p] = pipe[p]
        BY <1>1, <2>1
      <3> QED
        BY <1>11, <3>1
    <2>2. CASE ~(Staged(p, "idle") \/ pipe[p].pack = t)
      <3> DEFINE r == [pipe[p] EXCEPT !.disturbed = @ \cup {t}]
      <3>1. pipe'[p] = r /\ pipe[p].step # "idle" /\ pipe[p].pack # t
        BY <1>1, <2>2 DEF Staged
      <3>2. PipeHolds(tree', used'.runs, pipe[p]) /\ PipeHolds(tree, used.runs, pipe[p])
        BY <1>11, <3>1, ActivePipe
      <3>3. /\ r = [f \in PipeKeys |-> r[f]] /\ r.step = pipe[p].step
            /\ r.id = pipe[p].id /\ r.pack = pipe[p].pack /\ r.feed = pipe[p].feed
            /\ r.before = pipe[p].before /\ r.disturbed = pipe[p].disturbed \cup {t}
        BY <3>2 DEF PipeHolds, PipeKeys
      <3> HIDE DEF r
      <3>4. pipe[p].before[t].edition < tree'[t].edition
        <4>1. pipe[p].before[t].edition \in Nat /\ pipe[p].before[t].edition <= tree[t].edition
          BY <3>1, <3>2 DEF PipeHolds, Noticed
        <4>2. tree'[t].edition = tree[t].edition + 1
          BY <1>5, <1>7
        <4> QED
          BY ONLY <4>1, <4>2, <1>5
      <3>5. Noticed(tree', r)
        BY <3>1, <3>2, <3>3, <3>4 DEF PipeHolds, Noticed
      <3>6. Owns(tree'[r.pack], r)
        BY <3>2, <3>3 DEF PipeHolds, Owns
      <3>7. PipeHolds(tree', used'.runs, r)
        BY <3>2, <3>3, <3>5, <3>6 DEF PipeHolds
      <3> QED
        BY <3>1, <3>3, <3>7
    <2> QED
      BY <2>1, <2>2
  <1>13. PipeShape'
    BY <1>1, <1>7, <1>8, <1>9, <1>10 DEF PipeShape, Grows, UsedKept
  <1>14. RunsDiffer'
    BY <1>12 DEF PipeInv, RunsDiffer
  <1>15. \A p \in Runners : pipe'[p].step # "idle" => PipeHolds(tree', used'.runs, pipe'[p])
    BY <1>12
  <1> QED
    BY <1>10, <1>13, <1>14, <1>15 DEF PipeInv

LEMMA FailStageStep ==
    ASSUME PipeInv, NEW p \in Runners, FailStage(p) \/ DieInStage(p)
    PROVE  PipeInv'
  <1>1. used' = [used EXCEPT !.failures = @ + 1] /\ UNCHANGED tree
    BY DEF FailStage, DieInStage
  <1>2. UsedKept
    BY <1>1, UsedStays
  <1>3. pipe[p].step # "idle" /\ (Escape(p) \/ \E stage : Report(p, "PIPELINE_FAILED", stage))
    BY DEF FailStage, DieInStage, Staged
  <1> QED
    BY <1>1, <1>2, <1>3, EndsRun

LEMMA PipelineInductive ==
    ASSUME PipeInv, [PipelineNext]_pipelineVars
    PROVE  PipeInv'
  <1>1. CASE UNCHANGED pipelineVars
    BY <1>1 DEF pipelineVars, PipeInv, PipeShape, RunsDiffer
  <1>2. CASE Meddle
    BY <1>2, MeddleStep
  <1>3. ASSUME NEW p \in Runners,
               \/ StartPipeline(p) \/ Adapt(p) \/ MakeTree(p) \/ OpenFile(p) \/ WriteFile(p)
               \/ ScanPacks(p) \/ SaveIndex(p) \/ Validate(p) \/ EndPipeline(p)
               \/ FailStage(p) \/ DieInStage(p)
        PROVE  PipeInv'
    BY <1>3, StartPipelineStep, AdaptStep, MakeTreeStep, OpenFileStep, WriteFileStep, ScanPacksStep,
       SaveIndexStep, ValidateStep, EndPipelineStep, FailStageStep
  <1> QED
    BY <1>1, <1>2, <1>3 DEF PipelineNext

LEMMA PipelineInitial ==
    ASSUME PipelineInit
    PROVE  PipeInv
  <1>1. PICK feed \in Feeds \ (Broken \cup Unmapped) : tree \in [Targets -> {NoTree} \cup Earlier(feed)]
    BY DEF PipelineInit
  <1>2. ASSUME NEW x \in {NoTree} \cup Earlier(feed) PROVE IsTree(x)
    <2>1. PICK made, written, open, keys :
            /\ x = [made |-> made, written |-> written, open |-> open, keys |-> keys, by |-> 0, edition |-> 0]
            /\ written \in {0, 1, 3} /\ made \in {TRUE, FALSE} /\ open \in {TRUE, FALSE}
            /\ made = FALSE => written = 0 /\ open = FALSE
      <3>1. NoTree = [made |-> FALSE, written |-> 0, open |-> FALSE, keys |-> << >>, by |-> 0, edition |-> 0]
        BY DEF NoTree
      <3>2. \/ x = NoTree
            \/ x = [made |-> TRUE, written |-> 3, open |-> FALSE, keys |-> Compiled(feed), by |-> 0, edition |-> 0]
            \/ x = [made |-> TRUE, written |-> 1, open |-> TRUE, keys |-> << >>, by |-> 0, edition |-> 0]
            \/ x = [made |-> TRUE, written |-> 0, open |-> FALSE, keys |-> << >>, by |-> 0, edition |-> 0]
        BY DEF NoTree, Earlier, PackFiles, Claimless
      <3> QED
        BY <3>1, <3>2, Zenon
    <2>2. /\ x = [f \in TreeKeys |-> x[f]] /\ x.written = written /\ x.edition = 0
          /\ x.made = made /\ x.open = open
      BY <2>1 DEF TreeKeys
    <2>3. written \in Nat /\ 0 \in Nat
      BY <2>1
    <2> QED
      BY ONLY <2>1, <2>2, <2>3, Zenon DEF IsTree
  <1>3. /\ verdict = [r \in RunIds |-> [status |-> "none"]]
        /\ pipe = [p \in Runners |-> Idle]
        /\ used = [runs |-> 0, meddlings |-> 0, failures |-> 0]
    BY DEF PipelineInit
  <1>4. PipeShape
    BY <1>1, <1>2, <1>3, PipelineBounds DEF PipeShape
  <1>5. \A i \in RunIds : VerdictHolds(tree, verdict[i], i)
    BY <1>3 DEF VerdictHolds
  <1>6. \A p \in Runners : pipe[p].step = "idle"
    BY <1>3 DEF Idle
  <1> QED
    BY <1>4, <1>5, <1>6 DEF PipeInv, RunsDiffer

\* PIPELINE_PASSED is said of a pack that the run made alone and in full, that
\* holds each claim of its source once unless another command changed it since,
\* and beside which no finished pack was changed meanwhile: for any number of
\* runs over one root, whatever the feeds hold and wherever stages fail or
\* processes die (pipeline/runner.py, compiler/engine.py).
THEOREM PipelinesTellTruth == PipelineSpec => []PassedMeansMade
  <1>1. PipelineInit => PipeInv
    BY PipelineInitial
  <1>2. PipeInv /\ [PipelineNext]_pipelineVars => PipeInv'
    BY PipelineInductive
  <1>3. PipeInv => PassedMeansMade
    <2> SUFFICES ASSUME PipeInv, NEW r \in RunIds, verdict[r].status = "PIPELINE_PASSED"
                 PROVE  LET t == tree[verdict[r].pack]
                        IN  /\ t.by = r /\ t.written = PackFiles /\ ~t.open
                            /\ t.edition = 0 => /\ IsInjective(t.keys)
                                                /\ ToSet(t.keys) = ToSet(FeedKeys(verdict[r].feed))
                            /\ verdict[r].disturbed = {}
      BY DEF PassedMeansMade
    <2>1. VerdictHolds(tree, verdict[r], r)
      BY DEF PipeInv
    <2>2. /\ verdict[r].feed \in Feeds /\ verdict[r].disturbed = {}
          /\ tree[verdict[r].pack].by = r
          /\ tree[verdict[r].pack].written = PackFiles /\ ~tree[verdict[r].pack].open
          /\ tree[verdict[r].pack].edition = 0 => tree[verdict[r].pack].keys = Compiled(verdict[r].feed)
      BY <2>1 DEF VerdictHolds, IsWhole, Keeps
    <2>3. /\ IsInjective(Compiled(verdict[r].feed))
          /\ ToSet(Compiled(verdict[r].feed)) = ToSet(FeedKeys(verdict[r].feed))
      BY <2>2, CompiledHoldsEachOnce
    <2> QED
      BY <2>2, <2>3
  <1> QED
    BY <1>1, <1>2, <1>3, PTL DEF PipelineSpec
=============================================================================
