--------------------------- MODULE TrustPromotion ---------------------------
(***************************************************************************)
(* Commands on the trust files of one pack: trust promote                  *)
(* (TrustPromoter.promote, cli.run_trust_promote) and trust certify        *)
(* (CertificationGate.certify_pack, cli.run_trust_certify), run by several *)
(* processes at once, any of which may die between two steps, while other  *)
(* commands append claims to the pack.                                     *)
(*                                                                         *)
(* Every file is written in place: opened, which empties it, and then      *)
(* written.  Two processes with the file open write over each other: the   *)
(* later text replaces the earlier one when it is at least as long and     *)
(* otherwise leaves its tail behind, which no longer parses.  Promotion    *)
(* reads nothing back but the ledger, so for the reports opening and       *)
(* writing are one step, and for the ledger they are two.                  *)
(***************************************************************************)
EXTENDS TrustLadder, Ledger

CONSTANTS
    Commands,      \* the processes
    Packs,         \* the packs to start from: lifecycle, claims, provenance rows
    Policies,      \* the trust policies a command may be given
    Added,         \* claims that other commands may append
    MaxCommands,   \* bound on the commands run
    MaxAdded,      \* bound on the claims appended
    MaxCrashes     \* bound on the processes that die

\* A pack is its status, a list of claims and a number of provenance rows.
ASSUME PacksAssumption ==
    \A x \in Packs :
        /\ x = [lifecycle |-> x.lifecycle, claims |-> x.claims, rows |-> x.rows]
        /\ x.claims \in Seq(ToSet(x.claims))

ASSUME TrustBounds == MaxCommands \in Nat /\ MaxAdded \in Nat /\ MaxCrashes \in Nat

VARIABLES
    pack,     \* pack.json's lifecycle, claims.jsonl, provenance.jsonl's length
    report,   \* trust_report.json, conflicts.jsonl, staleness.jsonl, integrity.json
    ledger,   \* ledger_snapshot.json
    output,   \* the directory trust certify writes
    job,      \* the command of each process
    count     \* commands started, claims appended, processes that died

vars == <<pack, report, ledger, output, job, count>>

\* A ledger file: none, empty, text that does not parse, or events.
Whole(events) == [state |-> "whole", events |-> events]

NoLedger == [state |-> "absent", events |-> << >>]

EmptyLedger == [state |-> "empty", events |-> << >>]

TornLedger == [state |-> "torn", events |-> << >>]

Idle == [op |-> "none", step |-> "idle"]

NoReport == [decisions |-> << >>, conflicts |-> {}, stale |-> {}, of |-> << >>]

\* judged is the policy of the verdict in pack.json, and undisturbed is kept for the
\* properties: no other command changed a file while this output was made.
NoOutput ==
    [files |-> {}, lifecycle |-> "none", claims |-> << >>, rows |-> 0,
     judged |-> {}, undisturbed |-> FALSE]

Init ==
    /\ pack \in Packs
    /\ report = [trust |-> NoReport, conflicts |-> {}, stale |-> {}, integrity |-> << >>]
    /\ ledger = NoLedger
    /\ output = NoOutput
    /\ job = [p \in Commands |-> Idle]
    /\ count = [commands |-> 0, added |-> 0, crashes |-> 0]

Start(p, j) ==
    /\ job[p] = Idle
    /\ count.commands < MaxCommands
    /\ job' = [job EXCEPT ![p] = j]
    /\ count' = [count EXCEPT !.commands = @ + 1]

\* Everything another command does here disturbs the ones in progress.
Disturb(p, jobs) ==
    [q \in Commands |->
        IF q # p /\ jobs[q] # Idle THEN [jobs[q] EXCEPT !.alone = FALSE] ELSE jobs[q]]

Others(p) == \E q \in Commands \ {p} : job[q] # Idle

-----------------------------------------------------------------------------
(* trust promote.                                                          *)

Report(policy, claims) ==
    [decisions |-> EvaluateClaims(policy, claims),
     conflicts |-> DetectConflicts(ToSet(claims)),
     stale |-> {c.id : c \in {d \in ToSet(claims) : Stale(d)}},
     of |-> claims]

\* The claims are read and judged before anything is written; a transition
\* that is not allowed raises TrustError here.
Promote(p, policy) ==
    LET claims == Loaded(pack.claims)
    IN  /\ ~Unmovable(claims)
        /\ Start(p, [op |-> "promote", step |-> "report", alone |-> ~Others(p),
                     report |-> Report(policy, claims),
                     todo |-> EvaluateClaims(policy, claims),
                     events |-> << >>, before |-> << >>])
        /\ UNCHANGED <<pack, report, ledger, output>>

PromoteRefused(p) ==
    /\ Unmovable(Loaded(pack.claims))
    /\ Start(p, Idle)
    /\ UNCHANGED <<pack, report, ledger, output>>

At(p, op, step) == job[p].op = op /\ job[p].step = step

Goto(p, step) == job' = Disturb(p, [job EXCEPT ![p].step = step])

WriteReport(p) ==
    /\ At(p, "promote", "report")
    /\ report' = [report EXCEPT !.trust = job[p].report]
    /\ Goto(p, "conflicts")
    /\ UNCHANGED <<pack, ledger, output, count>>

WriteConflicts(p) ==
    /\ At(p, "promote", "conflicts")
    /\ report' = [report EXCEPT !.conflicts = job[p].report.conflicts]
    /\ Goto(p, "staleness")
    /\ UNCHANGED <<pack, ledger, output, count>>

WriteStaleness(p) ==
    /\ At(p, "promote", "staleness")
    /\ report' = [report EXCEPT !.stale = job[p].report.stale]
    /\ job' = Disturb(p, [job EXCEPT ![p].step = "load", ![p].before = ledger.events])
    /\ UNCHANGED <<pack, ledger, output, count>>

\* Mutant: only the first decision is recorded.
LoadLedgerOnce(p) ==
    /\ At(p, "promote", "load")
    /\ job[p].todo # << >>
    /\ ledger.state # "torn"
    /\ job' = [job EXCEPT ![p].step = "open",
                          ![p].events = AppendEvent(ledger.events, NewEvent(Head(job[p].todo), Genesis)),
                          ![p].todo = << >>]
    /\ UNCHANGED <<pack, report, ledger, output, count>>

\* append loads the whole file, an empty one as no events, and extends it.
LoadLedger(p) ==
    /\ At(p, "promote", "load")
    /\ job[p].todo # << >>
    /\ ledger.state # "torn"
    /\ job' = [job EXCEPT ![p].step = "open",
                          ![p].events = AppendEvent(ledger.events, NewEvent(Head(job[p].todo), Genesis)),
                          ![p].todo = Tail(@)]
    /\ UNCHANGED <<pack, report, ledger, output, count>>

\* A text that is not JSON raises and ends the command.
LoadTorn(p) ==
    /\ At(p, "promote", "load")
    /\ job[p].todo # << >>
    /\ ledger.state = "torn"
    /\ job' = [job EXCEPT ![p] = Idle]
    /\ UNCHANGED <<pack, report, ledger, output, count>>

OpenLedger(p) ==
    /\ At(p, "promote", "open")
    /\ ledger' = EmptyLedger
    /\ Goto(p, "write")
    /\ UNCHANGED <<pack, report, output, count>>

WriteLedger(p) ==
    /\ At(p, "promote", "write")
    /\ ledger' \in {Whole(job[p].events)} \cup
                   (IF ledger.state \in {"absent", "empty"} THEN {} ELSE {TornLedger})
    /\ Goto(p, "load")
    /\ UNCHANGED <<pack, report, output, count>>

\* integrity.json describes the files as they are now.
WriteIntegrity(p) ==
    /\ At(p, "promote", "load")
    /\ job[p].todo = << >>
    /\ report' = [report EXCEPT !.integrity = pack.claims]
    /\ job' = Disturb(p, [job EXCEPT ![p] = Idle])
    /\ UNCHANGED <<pack, ledger, output, count>>

-----------------------------------------------------------------------------
(* trust certify into a new pack.                                          *)

\* The gate judges the source as it is now.
Evaluate(p, policy) ==
    /\ Start(p, [op |-> "certify", step |-> "copy", alone |-> ~Others(p), policy |-> policy,
                 status |-> GateStatus(policy, pack.lifecycle, pack.claims, pack.rows),
                 files |-> <<"claims", "pack.json", "provenance">>])
    /\ UNCHANGED <<pack, report, ledger, output>>

\* An output directory that exists is refused.
CopyRefused(p) ==
    /\ At(p, "certify", "copy")
    /\ "directory" \in output.files
    /\ job' = [job EXCEPT ![p] = Idle]
    /\ UNCHANGED <<pack, report, ledger, output, count>>

MakeOutput(p) ==
    /\ At(p, "certify", "copy")
    /\ "directory" \notin output.files
    /\ output' = [output EXCEPT !.files = @ \cup {"directory"}]
    /\ Goto(p, "files")
    /\ UNCHANGED <<pack, report, ledger, count>>

\* The files are copied one by one, in the order of their names.
CopyFile(p) ==
    /\ At(p, "certify", "files")
    /\ job[p].files # << >>
    /\ output' =
         LET f == Head(job[p].files)
             into == [output EXCEPT !.files = @ \cup {f}]
         IN  CASE f = "claims"     -> [into EXCEPT !.claims = pack.claims]
               [] f = "pack.json"  -> [into EXCEPT !.lifecycle = pack.lifecycle]
               [] f = "provenance" -> [into EXCEPT !.rows = pack.rows]
    /\ job' = Disturb(p, [job EXCEPT ![p].files = Tail(@)])
    /\ UNCHANGED <<pack, report, ledger, count>>

\* Mutant: a blocked pack is certified as well.
WriteManifestUnlessFailed(p) ==
    /\ At(p, "certify", "files")
    /\ job[p].files = << >>
    /\ output' = [output EXCEPT !.lifecycle = IF job[p].status # "FAILED" THEN "certified" ELSE "blocked",
                                !.judged = {job[p].policy},
                                !.undisturbed = job[p].alone]
    /\ Goto(p, "verdict")
    /\ UNCHANGED <<pack, report, ledger, count>>

\* pack.json of the copy gets the verdict and certified_from.
WriteManifest(p) ==
    /\ At(p, "certify", "files")
    /\ job[p].files = << >>
    /\ output' = [output EXCEPT !.lifecycle = IF job[p].status = "PASSED" THEN "certified" ELSE "blocked",
                                !.judged = {job[p].policy},
                                !.undisturbed = job[p].alone]
    /\ Goto(p, "verdict")
    /\ UNCHANGED <<pack, report, ledger, count>>

WriteVerdict(p) ==
    /\ At(p, "certify", "verdict")
    /\ output' = [output EXCEPT !.files = @ \cup {"trust_report"}]
    /\ job' = Disturb(p, [job EXCEPT ![p] = Idle])
    /\ UNCHANGED <<pack, report, ledger, count>>

-----------------------------------------------------------------------------
(* What else happens.                                                      *)

\* Another command appends a claim and its provenance (packs/merge.py).
AddClaim(c) ==
    /\ count.added < MaxAdded
    /\ c \notin ToSet(pack.claims)
    /\ pack' = [pack EXCEPT !.claims = Append(@, c), !.rows = @ + 1]
    /\ job' = [p \in Commands |-> IF job[p] = Idle THEN Idle ELSE [job[p] EXCEPT !.alone = FALSE]]
    /\ count' = [count EXCEPT !.added = @ + 1]
    /\ UNCHANGED <<report, ledger, output>>

\* A process that dies while it writes the ledger leaves a part of the text.
Die(p) ==
    /\ job[p] # Idle
    /\ count.crashes < MaxCrashes
    /\ job' = Disturb(p, [job EXCEPT ![p] = Idle])
    /\ count' = [count EXCEPT !.crashes = @ + 1]
    /\ ledger' \in {ledger} \cup (IF At(p, "promote", "write") THEN {TornLedger} ELSE {})
    /\ UNCHANGED <<pack, report, output>>

PromoteStep(p) ==
    \/ WriteReport(p) \/ WriteConflicts(p) \/ WriteStaleness(p)
    \/ LoadLedger(p) \/ LoadTorn(p) \/ OpenLedger(p) \/ WriteLedger(p) \/ WriteIntegrity(p)

CertifyStep(p) ==
    \/ CopyRefused(p) \/ MakeOutput(p) \/ CopyFile(p) \/ WriteManifest(p) \/ WriteVerdict(p)

Next ==
    \/ \E p \in Commands, policy \in Policies : Promote(p, policy) \/ Evaluate(p, policy)
    \/ \E p \in Commands : PromoteRefused(p) \/ PromoteStep(p) \/ CertifyStep(p) \/ Die(p)
    \/ \E c \in Added : AddClaim(c)

Spec == Init /\ [][Next]_vars

-----------------------------------------------------------------------------
\* A ledger that can be read verifies (LedgerStore.verify): whoever else
\* appends, and whatever a crash left of the file before, no reader ever
\* finds a chain that is broken.
LedgerChains == ledger.state = "whole" => Verify(ledger.events)

Payloads(events) == [i \in DOMAIN events |-> events[i].payload]

\* A promotion that nothing else disturbs leaves in the ledger what was
\* there when it began, and after it one event for each of its decisions
\* (TrustPromoter.promote).
PromotionRecorded ==
    \A p \in Commands :
        (At(p, "promote", "load") /\ job[p].alone /\ ledger.state # "torn") =>
            Payloads(ledger.events) \o job[p].todo = Payloads(job[p].before) \o job[p].report.decisions

\* Two claims that cannot both be true.
Contradict(c, d) ==
    /\ c.subject = d.subject
    /\ \/ c.relation = d.relation /\ c.relation \in OneObject \cup {"equals"} /\ c.object # d.object
       \/ c.relation = "is" /\ d.relation = "not_is" /\ c.object = d.object
       \/ /\ c.relation \in {">", ">="} /\ d.relation \in {"<", "<="}
          /\ {c.object, d.object} \subseteq DOMAIN Number
          /\ \/ Number[c.object] > Number[d.object]
             \/ Number[c.object] = Number[d.object] /\ ~(c.relation = ">=" /\ d.relation = "<=")

\* Of two claims of the judged pack that cannot both be true, at least one
\* is recommended T7 (TrustPromoter.evaluate_claims), whatever tier they
\* came with, whatever evidence they bring and whoever else says the same.
ContradictionsNotBothTrusted ==
    \A c, d \in ToSet(report.trust.of) :
        Contradict(c, d) =>
            \E x \in ToSet(report.trust.decisions) :
                x.id \in {c.id, d.id} /\ x.recommended = Conflicted

\* A pack that trust certify made and called certified passes the gate by
\* the policy it was judged with (cli.run_trust_certify), unless the source
\* was changed between the verdict and the copy.
CertifiedPassesGate ==
    (output.lifecycle = "certified" /\ output.undisturbed) =>
        \A policy \in output.judged :
            \E lifecycle \in policy.statuses :
                GatePasses(policy, lifecycle, output.claims, output.rows)
=============================================================================
