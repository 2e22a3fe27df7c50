----------------------------- MODULE TrustProofs -----------------------------
(***************************************************************************)
(* Proofs about TrustPromotion (the ledger that promotions write, the      *)
(* conflicts they catch and the packs that are certified), for any         *)
(* processes, packs, policies and bounds; and about CompiledRuntime (what  *)
(* its queries answer from), for any records, questions and clients.       *)
(***************************************************************************)
EXTENDS TrustPromotion, CompiledRuntime, OrderProofs, SequenceTheorems, FiniteSetTheorems, TLAPS

\* A sequence, of whatever elements.
Listed(s) == s \in Seq(ToSet(s))

-----------------------------------------------------------------------------
(* Appending to a chain.                                                   *)

LEMMA ListedSeq ==
    ASSUME NEW S, NEW s \in Seq(S)
    PROVE  Listed(s)
  BY DEF Listed, ToSet

LEMMA ListedEmpty == Listed(<< >>)
  BY DEF Listed, ToSet

LEMMA ListedAppend ==
    ASSUME NEW s, Listed(s), NEW e
    PROVE  Listed(Append(s, e))
  <1> DEFINE S == ToSet(s) \cup {e}
  <1>1. s \in Seq(S)
    BY DEF Listed
  <1>2. Append(s, e) \in Seq(S)
    BY <1>1
  <1> QED
    BY <1>2, ListedSeq

LEMMA ListedTail ==
    ASSUME NEW s, Listed(s), s # << >>
    PROVE  Listed(Tail(s))
  <1>1. Tail(s) \in Seq(ToSet(s))
    BY DEF Listed
  <1> QED
    BY <1>1, ListedSeq

\* What is appended is linked to the last event, whatever it was made for.
LEMMA LinkedToTail ==
    ASSUME NEW events, NEW payload
    PROVE  LET e == Linked(events, NewEvent(payload, Genesis))
           IN  /\ e.payload = payload
               /\ e.previous = TailHash(events)
               /\ e.hash = HashEvent(TailHash(events), payload)
  BY DEF Linked, NewEvent

\* A chain stays one when an event is appended to it.
LEMMA AppendVerified ==
    ASSUME NEW events, Listed(events), Verify(events), NEW payload
    PROVE  Verify(AppendEvent(events, NewEvent(payload, Genesis)))
  <1> DEFINE e == Linked(events, NewEvent(payload, Genesis))
             after == Append(events, e)
  <1>1. /\ Len(events) \in Nat /\ Len(after) = Len(events) + 1
        /\ after[Len(after)] = e
        /\ \A i \in 1..Len(events) : after[i] = events[i]
    BY DEF Listed
  <1>2. events = << >> <=> Len(events) = 0
    BY DEF Listed
  <1>3. /\ e.previous = TailHash(events)
        /\ e.hash = HashEvent(e.previous, e.payload)
    BY LinkedToTail
  <1> SUFFICES ASSUME NEW i \in 1..Len(after)
               PROVE  /\ after[i].previous = IF i = 1 THEN Genesis ELSE after[i - 1].hash
                      /\ after[i].hash = HashEvent(after[i].previous, after[i].payload)
    BY DEF Verify, AppendEvent
  <1> HIDE DEF e, after
  <1>4. CASE i \in 1..Len(events)
    <2>1. after[i] = events[i] /\ (i # 1 => after[i - 1] = events[i - 1])
      BY <1>1, <1>4
    <2> QED
      BY <1>4, <2>1 DEF Verify
  <1>5. CASE i = Len(after)
    <2>1. after[i] = e
      BY <1>1, <1>5
    <2>2. TailHash(events) = IF i = 1 THEN Genesis ELSE after[i - 1].hash
      BY <1>1, <1>2, <1>5 DEF TailHash
    <2> QED
      BY <1>3, <2>1, <2>2
  <1> QED
    BY <1>1, <1>4, <1>5

\* An event that moves from the list of what is to do to the end of the
\* ledger leaves the two lists, one after the other, as they were.
LEMMA RecordedOne ==
    ASSUME NEW events, Listed(events), NEW todo, Listed(todo), todo # << >>
    PROVE  Payloads(AppendEvent(events, NewEvent(Head(todo), Genesis))) \o Tail(todo)
             = Payloads(events) \o todo
  <1> DEFINE e == Linked(events, NewEvent(Head(todo), Genesis))
             P == Payloads(events)
             U == ToSet(todo) \cup ToSet(P)
  <1>1. P \in Seq(ToSet(P)) /\ Len(P) = Len(events) /\ Len(events) \in Nat
    BY DEF Payloads, Listed, ToSet
  <1>2. Payloads(Append(events, e)) = Append(P, Head(todo))
    <2>1. e.payload = Head(todo)
      BY LinkedToTail
    <2>2. DOMAIN Append(events, e) = 1..(Len(events) + 1)
      BY DEF Listed
    <2>3. \A i \in 1..(Len(events) + 1) :
             Append(events, e)[i].payload = Append(P, Head(todo))[i]
      <3> SUFFICES ASSUME NEW i \in 1..(Len(events) + 1)
                   PROVE  Append(events, e)[i].payload = Append(P, Head(todo))[i]
        OBVIOUS
      <3> HIDE DEF e
      <3>1. CASE i = Len(events) + 1
        BY <1>1, <2>1, <3>1 DEF Listed
      <3>2. CASE i \in 1..Len(events)
        <4>1. Append(events, e)[i] = events[i] /\ Append(P, Head(todo))[i] = P[i]
          BY <1>1, <3>2 DEF Listed
        <4>2. P[i] = events[i].payload
          BY <3>2 DEF Payloads, Listed
        <4> QED
          BY <4>1, <4>2
      <3> QED
        BY <1>1, <3>1, <3>2
    <2>4. Append(P, Head(todo)) = [i \in 1..(Len(events) + 1) |-> Append(P, Head(todo))[i]]
      <3>1. P \in Seq(U) /\ Head(todo) \in U
        BY <1>1 DEF Listed
      <3> HIDE DEF P, U
      <3>2. Append(P, Head(todo)) \in Seq(U) /\ Len(Append(P, Head(todo))) = Len(events) + 1
        BY <1>1, <3>1
      <3> DEFINE A == Append(P, Head(todo))
      <3>3. A \in Seq(U) /\ Len(A) = Len(events) + 1
        BY <3>2
      <3> HIDE DEF A
      <3>4. A \in [1..Len(A) -> U]
        BY <3>3, LenProperties
      <3>5. A = [i \in 1..(Len(events) + 1) |-> A[i]]
        BY <3>3, <3>4
      <3> QED
        BY <3>5 DEF A
    <2> HIDE DEF e, P
    <2> QED
      BY <2>2, <2>3, <2>4 DEF Payloads
  <1>3. P \in Seq(U) /\ todo \in Seq(U)
    BY <1>1 DEF Listed
  <1> HIDE DEF P, U
  <1>4. Append(P, Head(todo)) \o Tail(todo) = P \o todo
    BY <1>3
  <1> QED
    BY <1>2, <1>4 DEF AppendEvent, P

-----------------------------------------------------------------------------
(* The invariant.                                                          *)

PromoteFields == {"op", "step", "alone", "report", "todo", "events", "before"}

CertifyFields == {"op", "step", "alone", "policy", "status", "files"}

IsPromotion(j) ==
    /\ j = [f \in PromoteFields |-> j[f]]
    /\ j.op = "promote"
    /\ Listed(j.todo) /\ Listed(j.events)

IsCertification(j) == j = [f \in CertifyFields |-> j[f]] /\ j.op = "certify"

IsJob(j) == j = Idle \/ IsPromotion(j) \/ IsCertification(j)

JobsOK == job = [p \in Commands |-> job[p]] /\ \A p \in Commands : IsJob(job[p])

LedgerOK ==
    /\ ledger = [state |-> ledger.state, events |-> ledger.events]
    /\ ledger.state # "whole" => ledger.events = << >>
    /\ Listed(ledger.events)

\* What is in the ledger, or about to be written there, is a chain.
ChainOK(j) == j.op = "promote" => Verify(j.events)

Chained == Verify(ledger.events) /\ \A p \in Commands : ChainOK(job[p])

\* Between its steps an undisturbed promotion knows what it has recorded.
RecordOK(j, l) ==
    (j.op = "promote" /\ j.alone) =>
        /\ j.step \in {"report", "conflicts", "staleness"} => j.todo = j.report.decisions
        /\ (j.step = "load" /\ l.state # "torn") =>
             Payloads(l.events) \o j.todo = Payloads(j.before) \o j.report.decisions
        /\ j.step \in {"open", "write"} =>
             Payloads(j.events) \o j.todo = Payloads(j.before) \o j.report.decisions
        /\ j.step = "open" => l.state # "torn"
        /\ j.step = "write" => l.state = "empty"

Recorded == \A p \in Commands : RecordOK(job[p], ledger)

PackOK ==
    /\ pack = [lifecycle |-> pack.lifecycle, claims |-> pack.claims, rows |-> pack.rows]
    /\ Listed(pack.claims)

Inv == JobsOK /\ LedgerOK /\ PackOK /\ Chained /\ Recorded

-----------------------------------------------------------------------------
(* What a step of one process does to the commands of all.                 *)

LEMMA IdleJob == IsJob(Idle) /\ ChainOK(Idle) /\ \A l : RecordOK(Idle, l)
  BY DEF IsJob, Idle, ChainOK, RecordOK

\* A command that is disturbed keeps everything but its claim to be alone.
LEMMA Disturbed ==
    ASSUME NEW j, IsJob(j), j # Idle
    PROVE  LET d == [j EXCEPT !.alone = FALSE]
           IN  IsJob(d) /\ (ChainOK(j) => ChainOK(d)) /\ \A l : RecordOK(d, l)
  <1> DEFINE d == [j EXCEPT !.alone = FALSE]
  <1>1. CASE IsPromotion(j)
    <2>1. IsPromotion(d) /\ d.events = j.events /\ d.op = j.op /\ d.alone = FALSE
      BY <1>1 DEF IsPromotion, PromoteFields
    <2> QED
      BY <2>1 DEF IsJob, ChainOK, RecordOK
  <1>2. CASE IsCertification(j)
    <2>1. IsCertification(d)
      BY <1>2 DEF IsCertification, CertifyFields
    <2> QED
      BY <2>1 DEF IsJob, ChainOK, RecordOK, IsCertification
  <1> QED
    BY <1>1, <1>2 DEF IsJob

\* A step of p that disturbs the others.
LEMMA Disturbing ==
    ASSUME JobsOK, Chained, NEW p \in Commands, NEW j,
           job' = Disturb(p, [job EXCEPT ![p] = j]),
           IsJob(j), ChainOK(j), RecordOK(j, ledger')
    PROVE  /\ JobsOK' /\ Recorded'
           /\ \A q \in Commands : ChainOK(job'[q])
  <1> DEFINE jobs == [job EXCEPT ![p] = j]
  <1>1. \A q \in Commands : jobs[q] = IF q = p THEN j ELSE job[q]
    BY DEF JobsOK
  <1>2. \A q \in Commands : job'[q] = IF q # p /\ jobs[q] # Idle THEN [jobs[q] EXCEPT !.alone = FALSE] ELSE jobs[q]
    BY DEF Disturb
  <1>3. job' = [q \in Commands |-> job'[q]]
    BY DEF Disturb
  <1> HIDE DEF jobs
  <1>4. ASSUME NEW q \in Commands
        PROVE  IsJob(job'[q]) /\ ChainOK(job'[q]) /\ RecordOK(job'[q], ledger')
    <2>1. CASE q = p
      BY <1>1, <1>2, <2>1
    <2>2. CASE q # p /\ job[q] = Idle
      <3>1. job'[q] = Idle
        BY <1>1, <1>2, <2>2
      <3> QED
        BY <3>1, IdleJob
    <2>3. CASE q # p /\ job[q] # Idle
      <3>1. job'[q] = [job[q] EXCEPT !.alone = FALSE]
        BY <1>1, <1>2, <2>3
      <3>2. IsJob(job[q]) /\ ChainOK(job[q])
        BY DEF JobsOK, Chained
      <3> QED
        BY <2>3, <3>1, <3>2, Disturbed
    <2> QED
      BY <2>1, <2>2, <2>3
  <1> QED
    BY <1>3, <1>4 DEF JobsOK, Recorded

\* A step of p that leaves the others and the ledger alone.
LEMMA Undisturbing ==
    ASSUME Inv, NEW p \in Commands, NEW j,
           job' = [job EXCEPT ![p] = j], ledger' = ledger, pack' = pack,
           IsJob(j), ChainOK(j), RecordOK(j, ledger)
    PROVE  Inv'
  <1>1. \A q \in Commands : job'[q] = IF q = p THEN j ELSE job[q]
    BY DEF Inv, JobsOK
  <1>2. JobsOK'
    BY <1>1 DEF Inv, JobsOK
  <1>3. Chained'
    BY <1>1 DEF Inv, Chained
  <1>4. Recorded'
    BY <1>1 DEF Inv, Recorded
  <1> QED
    BY <1>2, <1>3, <1>4 DEF Inv, LedgerOK, PackOK

\* A step of p that disturbs the others and leaves ledger and pack alone.
LEMMA DisturbingOnly ==
    ASSUME Inv, NEW p \in Commands, NEW j,
           job' = Disturb(p, [job EXCEPT ![p] = j]), ledger' = ledger, pack' = pack,
           IsJob(j), ChainOK(j), RecordOK(j, ledger)
    PROVE  Inv'
  <1>1. JobsOK' /\ Recorded' /\ \A q \in Commands : ChainOK(job'[q])
    BY Disturbing DEF Inv
  <1> QED
    BY <1>1 DEF Inv, LedgerOK, PackOK, Chained

\* The same command at another step.
LEMMA Moved ==
    ASSUME Inv, NEW p \in Commands, job[p] # Idle, NEW step
    PROVE  LET j == [job[p] EXCEPT !.step = step]
           IN  /\ IsJob(j) /\ ChainOK(j)
               /\ j.op = job[p].op /\ j.step = step
               /\ IsPromotion(job[p]) =>
                    /\ IsPromotion(j)
                    /\ j.alone = job[p].alone /\ j.report = job[p].report /\ j.todo = job[p].todo
                    /\ j.events = job[p].events /\ j.before = job[p].before
  <1>1. IsJob(job[p]) /\ ChainOK(job[p])
    BY DEF Inv, JobsOK, Chained
  <1>2. CASE IsPromotion(job[p])
    BY <1>1, <1>2 DEF IsJob, IsPromotion, PromoteFields, ChainOK
  <1>3. CASE IsCertification(job[p])
    <2>1. IsCertification([job[p] EXCEPT !.step = step]) /\ job[p].op = "certify"
      BY <1>3 DEF IsCertification, CertifyFields
    <2> QED
      BY <1>3, <2>1 DEF IsJob, IsCertification, CertifyFields, ChainOK, IsPromotion
  <1> QED
    BY <1>1, <1>2, <1>3 DEF IsJob

LEMMA AtPromotion ==
    ASSUME Inv, NEW p \in Commands, NEW step, At(p, "promote", step)
    PROVE  job[p] # Idle /\ IsPromotion(job[p]) /\ job[p].step = step
  BY DEF Inv, JobsOK, IsJob, IsCertification, Idle, At

LEMMA AtCertification ==
    ASSUME Inv, NEW p \in Commands, NEW step, At(p, "certify", step)
    PROVE  job[p] # Idle /\ IsCertification(job[p])
  BY DEF Inv, JobsOK, IsJob, IsPromotion, Idle, At

-----------------------------------------------------------------------------
(* The steps of a promotion.                                               *)

LEMMA FunctionListed ==
    ASSUME NEW n \in Nat, NEW s, s = [i \in 1..n |-> s[i]]
    PROVE  Listed(s)
  <1>1. DOMAIN s = 1..n
    OBVIOUS
  <1>2. s \in [1..n -> ToSet(s)]
    BY <1>1 DEF ToSet
  <1> QED
    BY <1>2 DEF Listed

LEMMA DecisionsListed ==
    ASSUME NEW policy, NEW claims, Listed(claims)
    PROVE  Listed(EvaluateClaims(policy, claims)) /\ Listed(Loaded(claims))
  <1>1. Len(claims) \in Nat /\ DOMAIN claims = 1..Len(claims)
    BY DEF Listed
  <1>2. Listed(EvaluateClaims(policy, claims))
    <2> DEFINE s == EvaluateClaims(policy, claims)
    <2>1. s = [i \in 1..Len(claims) |-> s[i]]
      BY DEF EvaluateClaims
    <2> HIDE DEF s
    <2>2. Listed(s)
      BY <1>1, <2>1, FunctionListed, Zenon
    <2> QED
      BY <2>2 DEF s
  <1>3. Listed(Loaded(claims))
    <2> DEFINE s == Loaded(claims)
    <2>1. s = [i \in 1..Len(claims) |-> s[i]]
      BY <1>1 DEF Loaded
    <2> HIDE DEF s
    <2>2. Listed(s)
      BY <1>1, <2>1, FunctionListed, Zenon
    <2> QED
      BY <2>2 DEF s
  <1> QED
    BY <1>2, <1>3

LEMMA EmptyChain == Verify(<< >>)
  BY DEF Verify

LEMMA PromoteKeeps ==
    ASSUME Inv, NEW p \in Commands, NEW policy, Promote(p, policy)
    PROVE  Inv'
  <1> DEFINE claims == Loaded(pack.claims)
             decisions == EvaluateClaims(policy, claims)
             j == [op |-> "promote", step |-> "report", alone |-> ~Others(p),
                   report |-> Report(policy, claims), todo |-> decisions,
                   events |-> << >>, before |-> << >>]
  <1>1. job' = [job EXCEPT ![p] = j] /\ ledger' = ledger /\ pack' = pack
    BY DEF Promote, Start
  <1>2. Listed(decisions)
    BY DecisionsListed DEF Inv, PackOK
  <1>3. j.report.decisions = decisions
    BY DEF Report
  <1> HIDE DEF decisions, claims
  <1>4. IsPromotion(j)
    BY <1>2, ListedEmpty DEF IsPromotion, PromoteFields
  <1>5. ChainOK(j) /\ RecordOK(j, ledger)
    BY <1>3, EmptyChain DEF ChainOK, RecordOK
  <1> HIDE DEF j
  <1> QED
    BY <1>1, <1>4, <1>5, Undisturbing DEF IsJob

LEMMA ReportKeeps ==
    ASSUME Inv, NEW p \in Commands, WriteReport(p) \/ WriteConflicts(p)
    PROVE  Inv'
  <1>1. PICK step \in {"conflicts", "staleness"} : Goto(p, step)
    BY DEF WriteReport, WriteConflicts
  <1>2. PICK old \in {"report", "conflicts"} : At(p, "promote", old)
    BY DEF WriteReport, WriteConflicts
  <1> DEFINE j == [job[p] EXCEPT !.step = step]
  <1>3. job' = Disturb(p, [job EXCEPT ![p] = j])
    BY <1>1 DEF Goto
  <1>4. RecordOK(job[p], ledger) /\ job[p].step = old
    BY <1>2 DEF Inv, Recorded, At
  <1>5. RecordOK(j, ledger)
    <2>1. IsPromotion(job[p]) /\ job[p] # Idle
      BY <1>2, AtPromotion
    <2>2. /\ j.op = "promote" /\ j.step \in {"conflicts", "staleness"}
          /\ j.alone = job[p].alone /\ j.report = job[p].report /\ j.todo = job[p].todo
      BY <2>1, Moved DEF IsPromotion
    <2>3. job[p].alone => job[p].todo = job[p].report.decisions
      BY <1>4, <2>1 DEF RecordOK, IsPromotion
    <2> HIDE DEF j
    <2> QED
      BY <2>2, <2>3 DEF RecordOK
  <1>6. IsJob(j) /\ ChainOK(j)
    BY <1>2, AtPromotion, Moved
  <1>7. ledger' = ledger /\ pack' = pack
    BY DEF WriteReport, WriteConflicts
  <1> HIDE DEF j
  <1> QED
    BY <1>3, <1>5, <1>6, <1>7, DisturbingOnly

\* What the invariant says of a promotion.
LEMMA Promotion ==
    ASSUME Inv, NEW p \in Commands, NEW step, At(p, "promote", step)
    PROVE  /\ job[p] # Idle /\ IsPromotion(job[p])
           /\ job[p].op = "promote" /\ job[p].step = step
           /\ Verify(job[p].events) /\ RecordOK(job[p], ledger)
  <1>1. job[p] # Idle /\ IsPromotion(job[p]) /\ job[p].step = step /\ job[p].op = "promote"
    BY AtPromotion DEF At
  <1> QED
    BY <1>1 DEF Inv, Chained, ChainOK, Recorded

LEMMA StalenessKeeps ==
    ASSUME Inv, NEW p \in Commands, WriteStaleness(p)
    PROVE  Inv'
  <1> DEFINE j == [job[p] EXCEPT !.step = "load", !.before = ledger.events]
  <1>1. /\ job[p] # Idle /\ IsPromotion(job[p]) /\ job[p].step = "staleness"
        /\ job[p].op = "promote" /\ Verify(job[p].events) /\ RecordOK(job[p], ledger)
    BY Promotion DEF WriteStaleness
  <1>2. job' = Disturb(p, [job EXCEPT ![p] = j]) /\ ledger' = ledger /\ pack' = pack
    BY DEF WriteStaleness
  <1>3. /\ IsPromotion(j) /\ j.op = "promote" /\ j.step = "load"
        /\ j.events = job[p].events /\ j.todo = job[p].todo /\ j.report = job[p].report
        /\ j.alone = job[p].alone /\ j.before = ledger.events
    BY <1>1 DEF IsPromotion, PromoteFields
  <1> HIDE DEF j
  <1>4. ChainOK(j) /\ RecordOK(j, ledger)
    BY <1>1, <1>3 DEF ChainOK, RecordOK
  <1> QED
    BY <1>2, <1>3, <1>4, DisturbingOnly DEF IsJob

LEMMA LoadKeeps ==
    ASSUME Inv, NEW p \in Commands, LoadLedger(p)
    PROVE  Inv'
  <1> DEFINE extended == AppendEvent(ledger.events, NewEvent(Head(job[p].todo), Genesis))
             j == [job[p] EXCEPT !.step = "open", !.events = extended, !.todo = Tail(job[p].todo)]
  <1>1. /\ job[p] # Idle /\ IsPromotion(job[p]) /\ job[p].step = "load"
        /\ job[p].op = "promote" /\ RecordOK(job[p], ledger)
    BY Promotion DEF LoadLedger
  <1>2. job' = [job EXCEPT ![p] = j] /\ ledger' = ledger /\ pack' = pack
    BY DEF LoadLedger
  <1>3. job[p].todo # << >> /\ ledger.state # "torn"
    BY DEF LoadLedger
  <1>4. Listed(ledger.events) /\ Verify(ledger.events) /\ Listed(job[p].todo)
    BY <1>1 DEF Inv, LedgerOK, Chained, IsPromotion
  <1>5. Verify(extended) /\ Listed(extended) /\ Listed(Tail(job[p].todo))
    BY <1>3, <1>4, AppendVerified, ListedAppend, ListedTail DEF AppendEvent
  <1>6. Payloads(extended) \o Tail(job[p].todo) = Payloads(ledger.events) \o job[p].todo
    BY <1>3, <1>4, RecordedOne
  <1> HIDE DEF extended
  <1>7. /\ IsPromotion(j) /\ j.op = "promote" /\ j.step = "open"
        /\ j.events = extended /\ j.todo = Tail(job[p].todo) /\ j.report = job[p].report
        /\ j.alone = job[p].alone /\ j.before = job[p].before
    BY <1>1, <1>5 DEF IsPromotion, PromoteFields
  <1> HIDE DEF j
  <1>8. RecordOK(j, ledger)
    BY <1>1, <1>3, <1>6, <1>7 DEF RecordOK
  <1> QED
    BY <1>2, <1>5, <1>7, <1>8, Undisturbing DEF IsJob, ChainOK

LEMMA OpenKeeps ==
    ASSUME Inv, NEW p \in Commands, OpenLedger(p)
    PROVE  Inv'
  <1> DEFINE j == [job[p] EXCEPT !.step = "write"]
  <1>1. /\ job[p] # Idle /\ IsPromotion(job[p]) /\ job[p].step = "open"
        /\ job[p].op = "promote" /\ RecordOK(job[p], ledger)
    BY Promotion DEF OpenLedger
  <1>2. job' = Disturb(p, [job EXCEPT ![p] = j]) /\ ledger' = EmptyLedger /\ pack' = pack
    BY DEF OpenLedger, Goto
  <1>3. /\ IsJob(j) /\ ChainOK(j) /\ j.op = "promote" /\ j.step = "write"
        /\ j.alone = job[p].alone /\ j.report = job[p].report /\ j.todo = job[p].todo
        /\ j.events = job[p].events /\ j.before = job[p].before
    BY <1>1, Moved
  <1> HIDE DEF j
  <1>4. RecordOK(j, ledger')
    BY <1>1, <1>2, <1>3 DEF RecordOK, EmptyLedger
  <1>5. JobsOK' /\ Recorded' /\ \A q \in Commands : ChainOK(job'[q])
    BY <1>2, <1>3, <1>4, Disturbing DEF Inv
  <1>6. LedgerOK' /\ Verify(ledger'.events)
    BY <1>2, EmptyChain, ListedEmpty DEF LedgerOK, EmptyLedger
  <1> QED
    BY <1>2, <1>5, <1>6 DEF Inv, PackOK, Chained

LEMMA WriteKeeps ==
    ASSUME Inv, NEW p \in Commands, WriteLedger(p)
    PROVE  Inv'
  <1> DEFINE j == [job[p] EXCEPT !.step = "load"]
  <1>1. /\ job[p] # Idle /\ IsPromotion(job[p]) /\ job[p].step = "write"
        /\ job[p].op = "promote" /\ RecordOK(job[p], ledger) /\ Verify(job[p].events)
    BY Promotion DEF WriteLedger
  <1>2. job' = Disturb(p, [job EXCEPT ![p] = j]) /\ pack' = pack
    BY DEF WriteLedger, Goto
  <1>3. \/ ledger' = Whole(job[p].events)
        \/ ledger' = TornLedger /\ ledger.state \notin {"absent", "empty"}
    BY DEF WriteLedger
  <1>4. /\ IsJob(j) /\ ChainOK(j) /\ j.op = "promote" /\ j.step = "load"
        /\ j.alone = job[p].alone /\ j.report = job[p].report /\ j.todo = job[p].todo
        /\ j.events = job[p].events /\ j.before = job[p].before
    BY <1>1, Moved
  <1> HIDE DEF j
  <1>5. RecordOK(j, ledger')
    <2> SUFFICES ASSUME job[p].alone
                 PROVE  Payloads(ledger'.events) \o j.todo = Payloads(j.before) \o j.report.decisions
      BY <1>4 DEF RecordOK
    <2>1. /\ ledger.state = "empty"
          /\ Payloads(job[p].events) \o job[p].todo
               = Payloads(job[p].before) \o job[p].report.decisions
      BY <1>1 DEF RecordOK
    <2>2. ledger'.events = job[p].events
      BY <1>3, <2>1 DEF Whole
    <2> QED
      BY <1>4, <2>1, <2>2
  <1>6. JobsOK' /\ Recorded' /\ \A q \in Commands : ChainOK(job'[q])
    BY <1>2, <1>4, <1>5, Disturbing DEF Inv
  <1>7. LedgerOK' /\ Verify(ledger'.events)
    BY <1>1, <1>3, EmptyChain, ListedEmpty DEF LedgerOK, TornLedger, Whole, IsPromotion
  <1> QED
    BY <1>2, <1>6, <1>7 DEF Inv, PackOK, Chained

LEMMA EndKeeps ==
    ASSUME Inv, NEW p \in Commands,
           LoadTorn(p) \/ WriteIntegrity(p) \/ CopyRefused(p) \/ WriteVerdict(p) \/ PromoteRefused(p)
    PROVE  Inv'
  <1>1. ledger' = ledger /\ pack' = pack
    BY DEF LoadTorn, WriteIntegrity, CopyRefused, WriteVerdict, PromoteRefused
  <1>2. job' = [job EXCEPT ![p] = Idle] \/ job' = Disturb(p, [job EXCEPT ![p] = Idle])
    BY DEF LoadTorn, WriteIntegrity, CopyRefused, WriteVerdict, PromoteRefused, Start
  <1> QED
    BY <1>1, <1>2, IdleJob, Undisturbing, DisturbingOnly

-----------------------------------------------------------------------------
(* The other steps.                                                        *)

LEMMA Certification ==
    ASSUME NEW j, IsCertification(j)
    PROVE  IsJob(j) /\ ChainOK(j) /\ RecordOK(j, ledger)
  BY DEF IsJob, IsCertification, ChainOK, RecordOK

LEMMA CertifyKeeps ==
    ASSUME Inv, NEW p \in Commands, MakeOutput(p) \/ CopyFile(p) \/ WriteManifest(p)
    PROVE  Inv'
  <1>1. ledger' = ledger /\ pack' = pack
    BY DEF MakeOutput, CopyFile, WriteManifest
  <1>2. IsCertification(job[p])
    BY AtCertification DEF MakeOutput, CopyFile, WriteManifest
  <1>3. PICK j : IsCertification(j) /\ job' = Disturb(p, [job EXCEPT ![p] = j])
    <2>1. ASSUME NEW step, Goto(p, step)
          PROVE  \E j : IsCertification(j) /\ job' = Disturb(p, [job EXCEPT ![p] = j])
      <3>1. IsCertification([job[p] EXCEPT !.step = step])
        BY <1>2 DEF IsCertification, CertifyFields
      <3> QED
        BY <2>1, <3>1 DEF Goto
    <2>2. CASE CopyFile(p)
      <3>1. IsCertification([job[p] EXCEPT !.files = Tail(job[p].files)])
        BY <1>2 DEF IsCertification, CertifyFields
      <3> QED
        BY <2>2, <3>1 DEF CopyFile
    <2> QED
      BY <2>1, <2>2 DEF MakeOutput, WriteManifest
  <1> QED
    BY <1>1, <1>3, Certification, DisturbingOnly

LEMMA EvaluateKeeps ==
    ASSUME Inv, NEW p \in Commands, NEW policy, Evaluate(p, policy)
    PROVE  Inv'
  <1> DEFINE j == [op |-> "certify", step |-> "copy", alone |-> ~Others(p), policy |-> policy,
                   status |-> GateStatus(policy, pack.lifecycle, pack.claims, pack.rows),
                   files |-> <<"claims", "pack.json", "provenance">>]
  <1>1. job' = [job EXCEPT ![p] = j] /\ ledger' = ledger /\ pack' = pack
    BY DEF Evaluate, Start
  <1>2. IsCertification(j)
    BY DEF IsCertification, CertifyFields
  <1> HIDE DEF j
  <1> QED
    BY <1>1, <1>2, Certification, Undisturbing

LEMMA AddKeeps ==
    ASSUME Inv, NEW c, AddClaim(c)
    PROVE  Inv'
  <1>1. \A q \in Commands : job'[q] = IF job[q] = Idle THEN Idle ELSE [job[q] EXCEPT !.alone = FALSE]
    BY DEF AddClaim
  <1>2. ASSUME NEW q \in Commands
        PROVE  IsJob(job'[q]) /\ ChainOK(job'[q]) /\ RecordOK(job'[q], ledger)
    <2>1. IsJob(job[q]) /\ ChainOK(job[q])
      BY DEF Inv, JobsOK, Chained
    <2>2. CASE job[q] = Idle
      BY <1>1, <2>2, IdleJob
    <2>3. CASE job[q] # Idle
      <3>1. job'[q] = [job[q] EXCEPT !.alone = FALSE]
        BY <1>1, <2>3
      <3>2. /\ IsJob([job[q] EXCEPT !.alone = FALSE]) /\ ChainOK([job[q] EXCEPT !.alone = FALSE])
            /\ RecordOK([job[q] EXCEPT !.alone = FALSE], ledger)
        BY <2>1, <2>3, Disturbed
      <3> QED
        BY <3>1, <3>2
    <2> QED
      BY <2>2, <2>3
  <1>3. job' = [q \in Commands |-> job'[q]] /\ ledger' = ledger
    BY DEF AddClaim
  <1>4. PackOK'
    <2>1. pack' = [lifecycle |-> pack.lifecycle, claims |-> Append(pack.claims, c), rows |-> pack.rows + 1]
      BY DEF AddClaim, Inv, PackOK
    <2> QED
      BY <2>1, ListedAppend DEF Inv, PackOK
  <1> QED
    BY <1>2, <1>3, <1>4 DEF Inv, JobsOK, LedgerOK, Chained, Recorded

LEMMA DieKeeps ==
    ASSUME Inv, NEW p \in Commands, Die(p)
    PROVE  Inv'
  <1>1. job' = Disturb(p, [job EXCEPT ![p] = Idle]) /\ pack' = pack
    BY DEF Die
  <1>2. ledger' = ledger \/ ledger' = TornLedger
    BY DEF Die
  <1>3. JobsOK' /\ Recorded' /\ \A q \in Commands : ChainOK(job'[q])
    BY <1>1, IdleJob, Disturbing DEF Inv
  <1>4. LedgerOK' /\ Verify(ledger'.events)
    BY <1>2, EmptyChain, ListedEmpty DEF Inv, LedgerOK, Chained, TornLedger
  <1> QED
    BY <1>1, <1>3, <1>4 DEF Inv, PackOK, Chained

LEMMA InitInv == Init => Inv
  <1> SUFFICES ASSUME Init PROVE Inv
    OBVIOUS
  <1>1. job = [p \in Commands |-> Idle] /\ ledger = NoLedger
    BY DEF Init
  <1>2. JobsOK /\ Recorded /\ \A p \in Commands : ChainOK(job[p])
    BY <1>1, IdleJob DEF JobsOK, Recorded
  <1>3. LedgerOK /\ Verify(ledger.events)
    BY <1>1, EmptyChain, ListedEmpty DEF LedgerOK, NoLedger
  <1>4. PackOK
    BY PacksAssumption DEF Init, PackOK, Listed
  <1> QED
    BY <1>2, <1>3, <1>4 DEF Inv, Chained

LEMMA NextInv == Inv /\ [Next]_vars => Inv'
  <1> SUFFICES ASSUME Inv, [Next]_vars PROVE Inv'
    OBVIOUS
  <1>1. ASSUME NEW p \in Commands, NEW policy \in Policies, Promote(p, policy) \/ Evaluate(p, policy)
        PROVE  Inv'
    BY <1>1, PromoteKeeps, EvaluateKeeps
  <1>2. ASSUME NEW p \in Commands, PromoteStep(p) PROVE Inv'
    BY <1>2, ReportKeeps, StalenessKeeps, LoadKeeps, OpenKeeps, WriteKeeps, EndKeeps DEF PromoteStep
  <1>3. ASSUME NEW p \in Commands, CertifyStep(p) PROVE Inv'
    BY <1>3, CertifyKeeps, EndKeeps DEF CertifyStep
  <1>4. ASSUME NEW p \in Commands, PromoteRefused(p) \/ Die(p) PROVE Inv'
    BY <1>4, EndKeeps, DieKeeps
  <1>5. ASSUME NEW c \in Added, AddClaim(c) PROVE Inv'
    BY <1>5, AddKeeps
  <1>6. CASE UNCHANGED vars
    BY <1>6 DEF vars, Inv, JobsOK, LedgerOK, PackOK, Chained, Recorded
  <1> QED
    BY <1>1, <1>2, <1>3, <1>4, <1>5, <1>6 DEF Next

\* Whoever appends to the ledger at the same time, and whatever a crash left
\* of it, what can be read of it is a chain that verifies.
THEOREM LedgerVerifies == Spec => []LedgerChains
  <1>1. Inv => LedgerChains
    BY DEF Inv, Chained, LedgerChains
  <1> QED
    BY <1>1, InitInv, NextInv, PTL DEF Spec

\* A promotion that no other command disturbs records every one of its
\* decisions behind what the ledger held.
THEOREM PromotionsRecorded == Spec => []PromotionRecorded
  <1>1. Inv => PromotionRecorded
    BY DEF Inv, Recorded, RecordOK, PromotionRecorded, At
  <1> QED
    BY <1>1, InitInv, NextInv, PTL DEF Spec

-----------------------------------------------------------------------------
(* The conflicts that the detectors find.                                  *)

LEMMA ListedFinite ==
    ASSUME NEW s, Listed(s)
    PROVE  Len(s) \in Nat /\ DOMAIN s = 1..Len(s) /\ IsFiniteSet(DOMAIN s) /\ IsFiniteSet(ToSet(s))
  <1>1. Len(s) \in Nat /\ DOMAIN s = 1..Len(s)
    BY LenProperties DEF Listed
  <1>2. IsFiniteSet(DOMAIN s)
    BY <1>1, FS_Interval
  <1>3. IsFiniteSet({s[i] : i \in DOMAIN s})
    BY <1>2, ImageFinite
  <1> QED
    BY <1>1, <1>2, <1>3 DEF ToSet

\* A conflict names every claim it is found among.
LEMMA Affected ==
    ASSUME NEW all, NEW type, NEW some, NEW c \in some, Conflict(type, some) \in all
    PROVE  \E x \in all : c.id \in x.affected
  <1>1. c.id \in Conflict(type, some).affected
    BY DEF Conflict, Ids
  <1> QED
    BY <1>1

LEMMA SeveralFound ==
    ASSUME NEW S, IsFiniteSet(S), NEW c \in S, NEW d \in S, NEW type,
           c.subject = d.subject, c.relation = d.relation, c.object # d.object
    PROVE  \E x \in SeveralObjects(type, S, c.relation) : c.id \in x.affected
  <1> DEFINE some == On(S, c.subject, {c.relation})
  <1>1. some \in SUBSET S /\ c \in some /\ d \in some
    BY DEF On
  <1> HIDE DEF some
  <1>2. IsFiniteSet(some)
    BY <1>1, FS_Subset
  <1> DEFINE f == [e \in some |-> e.object]
             T == {f[e] : e \in some}
  <1>3. Objects(some) = T
    BY DEF Objects
  <1>4. f[c] \in T /\ f[d] \in T /\ f[c] # f[d]
    BY <1>1
  <1> HIDE DEF f
  <1>5. IsFiniteSet(T)
    BY <1>2, ImageFinite
  <1> HIDE DEF T
  <1>6. Cardinality(Objects(some)) > 1
    BY <1>3, <1>4, <1>5, MoreThanOne
  <1>7. c.subject \in {x \in Subjects(S) : Cardinality(Objects(On(S, x, {c.relation}))) > 1}
    BY <1>6 DEF Subjects, some
  <1>8. Conflict(type, some) \in SeveralObjects(type, S, c.relation)
    BY <1>7 DEF SeveralObjects, some
  <1> QED
    BY <1>1, <1>8, Affected

LEMMA NegationFound ==
    ASSUME NEW S, NEW c \in S, NEW d \in S,
           c.subject = d.subject, c.relation = "is", d.relation = "not_is", c.object = d.object
    PROVE  \E x \in NegationConflicts(S) : d.id \in x.affected
  <1> DEFINE negated(s, o) == {e \in On(S, s, {"not_is"}) : e.object = o}
             some == negated(c.subject, c.object)
  <1>1. d \in some
    BY DEF On
  <1>2. c \in {e \in S : e.relation = "is" /\ negated(e.subject, e.object) # {}}
    BY <1>1
  <1>3. Conflict("NEGATION", some) \in NegationConflicts(S)
    BY <1>2 DEF NegationConflicts
  <1> HIDE DEF some
  <1> QED
    BY <1>1, <1>3, Affected

LEMMA RangeIsEmpty ==
    ASSUME NEW S, IsFiniteSet(S), NEW c \in S, NEW d \in S,
           \A e \in S : e.object \in DOMAIN Number,
           c.relation \in {">", ">="}, d.relation \in {"<", "<="},
           \/ Number[c.object] > Number[d.object]
           \/ Number[c.object] = Number[d.object] /\ ~(c.relation = ">=" /\ d.relation = "<=")
    PROVE  RangeEmpty(S)
  <1> DEFINE values(relations) == {Number[e.object] : e \in {e \in S : e.relation \in relations}}
             low == values({">", ">="})
             high == values({"<", "<="})
  <1>1. \A e \in S : Number[e.object] \in Int
    BY NumberAssumption
  <1>2. ASSUME NEW relations
        PROVE  IsFiniteSet(values(relations)) /\ values(relations) \in SUBSET Int
    <2> DEFINE some == {e \in S : e.relation \in relations}
               f == [e \in some |-> Number[e.object]]
    <2>1. some \in SUBSET S
      OBVIOUS
    <2>2. values(relations) = {f[e] : e \in some}
      OBVIOUS
    <2> HIDE DEF some
    <2>3. IsFiniteSet(some)
      BY <2>1, FS_Subset
    <2> HIDE DEF f
    <2>4. IsFiniteSet({f[e] : e \in some})
      BY <2>3, ImageFinite
    <2>5. values(relations) \in SUBSET Int
      BY <1>1
    <2> QED
      BY <2>2, <2>4, <2>5
  <1>3. Number[c.object] \in low /\ Number[d.object] \in high
    OBVIOUS
  <1>4. IsFiniteSet(low) /\ low \in SUBSET Int /\ IsFiniteSet(high) /\ high \in SUBSET Int
    BY <1>2
  <1>5. c.relation = ">" \/ d.relation = "<" => values({">", "<"}) # {}
    OBVIOUS
  <1>6. RangeEmpty(S) <=> /\ low # {} /\ high # {}
                          /\ \/ Max(low) > Min(high)
                             \/ Max(low) = Min(high) /\ values({">", "<"}) # {}
    BY DEF RangeEmpty
  <1> HIDE DEF low, high, values
  <1>7. low # {} /\ high # {}
    BY <1>3
  <1>8. Max(low) \in Int /\ Max(low) >= Number[c.object] /\ Min(high) \in Int /\ Min(high) <= Number[d.object]
    BY <1>3, <1>4, <1>7, Extremes
  <1>9. Number[c.object] \in Int /\ Number[d.object] \in Int
    BY <1>1
  <1> QED
    BY <1>5, <1>6, <1>7, <1>8, <1>9

LEMMA RangeFound ==
    ASSUME NEW S, IsFiniteSet(S), NEW c \in S, NEW d \in S, c.subject = d.subject,
           c.relation \in {">", ">="}, d.relation \in {"<", "<="}, {c.object, d.object} \subseteq DOMAIN Number,
           \/ Number[c.object] > Number[d.object]
           \/ Number[c.object] = Number[d.object] /\ ~(c.relation = ">=" /\ d.relation = "<=")
    PROVE  \E x \in RangeConflicts(S) : c.id \in x.affected
  <1> DEFINE bounds == {e \in S : e.relation \in Bounds /\ e.object \in DOMAIN Number}
             some == On(bounds, c.subject, Bounds)
  <1>1. some \in SUBSET S /\ c \in some /\ d \in some /\ (\A e \in some : e.object \in DOMAIN Number) /\ c \in bounds
    BY DEF On, Bounds
  <1>2. RangeEmpty(some)
    <2> HIDE DEF some
    <2>1. IsFiniteSet(some)
      BY <1>1, FS_Subset
    <2> QED
      BY <1>1, <2>1, RangeIsEmpty
  <1>3. Conflict("RANGE", some) \in RangeConflicts(S)
    <2>1. RangeConflicts(S) = {Conflict("RANGE", On(bounds, s, Bounds)) :
            s \in {x \in Subjects(bounds) : RangeEmpty(On(bounds, x, Bounds))}}
      BY DEF RangeConflicts
    <2>2. c.subject \in Subjects(bounds)
      BY <1>1 DEF Subjects
    <2> HIDE DEF bounds
    <2> QED
      BY <1>2, <2>1, <2>2
  <1> HIDE DEF some
  <1> QED
    BY <1>1, <1>3, Affected

\* Of two claims that cannot both be true, one is in a conflict.
LEMMA ContradictionFound ==
    ASSUME NEW S, IsFiniteSet(S), NEW c \in S, NEW d \in S, Contradict(c, d)
    PROVE  \E e \in {c, d} : e.id \in UNION {x.affected : x \in DetectConflicts(S)}
  <1>1. CASE c.relation = d.relation /\ c.relation = "equals" /\ c.object # d.object
    <2>1. \E x \in SeveralObjects("EQUALITY", S, "equals") : c.id \in x.affected
      BY <1>1, SeveralFound DEF Contradict
    <2> QED
      BY <2>1 DEF DetectConflicts, EqualityConflicts
  <1>2. CASE c.relation = d.relation /\ c.relation \in OneObject /\ c.object # d.object
    <2>1. \E x \in SeveralObjects("FUNCTIONAL", S, c.relation) : c.id \in x.affected
      BY <1>2, SeveralFound DEF Contradict
    <2>2. SeveralObjects("FUNCTIONAL", S, c.relation) \subseteq FunctionalConflicts(S)
      BY <1>2 DEF FunctionalConflicts
    <2> QED
      BY <2>1, <2>2 DEF DetectConflicts
  <1>3. CASE c.relation = "is" /\ d.relation = "not_is" /\ c.object = d.object
    <2>1. \E x \in NegationConflicts(S) : d.id \in x.affected
      BY <1>3, NegationFound DEF Contradict
    <2> QED
      BY <2>1 DEF DetectConflicts
  <1>4. CASE /\ c.relation \in {">", ">="} /\ d.relation \in {"<", "<="}
             /\ {c.object, d.object} \subseteq DOMAIN Number
             /\ \/ Number[c.object] > Number[d.object]
                \/ Number[c.object] = Number[d.object] /\ ~(c.relation = ">=" /\ d.relation = "<=")
    <2>1. \E x \in RangeConflicts(S) : c.id \in x.affected
      BY <1>4, RangeFound DEF Contradict
    <2> QED
      BY <2>1 DEF DetectConflicts
  <1> QED
    BY <1>1, <1>2, <1>3, <1>4 DEF Contradict

-----------------------------------------------------------------------------
(* The order in which claims are judged.                                   *)

\* The order in which claims are judged gives each of them one place.
LEMMA JudgedInPlaces ==
    ASSUME NEW claims, Listed(claims)
    PROVE  \A i \in 1..Len(claims) : \E n \in 1..Len(claims) :
             /\ Cardinality({j \in DOMAIN claims : JudgedBefore(claims, j, i)}) = n - 1
             /\ \A k \in 1..Len(claims) :
                  Cardinality({j \in DOMAIN claims : JudgedBefore(claims, j, k)}) = n - 1 => k = i
  <1> DEFINE n == Len(claims)
             D == DOMAIN claims
             alike(k) == {m \in D : CanonicalKey(claims[m]) = CanonicalKey(claims[k])}
             f == [k \in D |-> Min(alike(k))]
             before(i) == {j \in D : JudgedBefore(claims, j, i)}
  <1>1. n \in Nat /\ D = 1..n /\ IsFiniteSet(D)
    BY ListedFinite
  <1>2. \A k \in D : f[k] \in Int
    <2> TAKE k \in D
    <2>1. alike(k) \in SUBSET D /\ k \in alike(k)
      OBVIOUS
    <2> HIDE DEF alike
    <2>2. IsFiniteSet(alike(k)) /\ alike(k) \in SUBSET Int /\ alike(k) # {}
      BY <1>1, <2>1, FS_Subset
    <2>3. Min(alike(k)) \in alike(k)
      BY <2>2, Extremes
    <2> QED
      BY <2>2, <2>3
  <1>3. \A i, j \in D : JudgedBefore(claims, j, i) <=> f[j] < f[i] \/ (f[j] = f[i] /\ j < i)
    BY DEF JudgedBefore
  <1> HIDE DEF f, alike
  <1> DEFINE R == {x \in D \X D : f[x[1]] < f[x[2]] \/ (f[x[1]] = f[x[2]] /\ x[1] <= x[2])}
             upto(i) == {j \in 1..n : <<j, i>> \in R}
  <1>4. \A i, j \in 1..n : <<i, j>> \in R <=> f[i] < f[j] \/ (f[i] = f[j] /\ i <= j)
    BY <1>1
  <1> HIDE DEF R
  <1>5. /\ \A i \in 1..n : <<i, i>> \in R
        /\ \A i, j \in 1..n : <<i, j>> \in R \/ <<j, i>> \in R
        /\ \A i, j \in 1..n : <<i, j>> \in R /\ <<j, i>> \in R => i = j
        /\ \A i, j, k \in 1..n : <<i, j>> \in R /\ <<j, k>> \in R => <<i, k>> \in R
    <2> HIDE DEF n, D
    <2>1. \A i \in 1..n : f[i] \in Int /\ i \in Int
      BY <1>1, <1>2
    <2> QED
      BY <1>4, <2>1
  <1>6. /\ \A i \in 1..n : Cardinality(upto(i)) \in 1..n
        /\ \A i, k \in 1..n : Cardinality(upto(i)) = Cardinality(upto(k)) => i = k
    <2> HIDE DEF n, D
    <2> QED
      BY <1>1, <1>5, RankOnto
  <1>7. ASSUME NEW i \in 1..n
        PROVE  Cardinality(upto(i)) = Cardinality(before(i)) + 1 /\ Cardinality(before(i)) \in Nat
    <2>1. before(i) \in SUBSET D /\ i \notin before(i) /\ upto(i) = before(i) \cup {i}
      BY <1>1, <1>2, <1>3, <1>4
    <2> HIDE DEF before, upto, n, D
    <2>2. IsFiniteSet(before(i))
      BY <1>1, <2>1, FS_Subset
    <2> QED
      BY <2>1, <2>2, FS_AddElement, FS_CardinalityType
  <1> SUFFICES ASSUME NEW i \in 1..n
               PROVE  \E m \in 1..n :
                        /\ Cardinality(before(i)) = m - 1
                        /\ \A k \in 1..n : Cardinality(before(k)) = m - 1 => k = i
    OBVIOUS
  <1> HIDE DEF before, upto, D, n
  <1>8. Cardinality(before(i)) = Cardinality(upto(i)) - 1
    BY <1>6, <1>7
  <1>9. \A k \in 1..n : Cardinality(before(k)) = Cardinality(upto(i)) - 1 => k = i
    <2> TAKE k \in 1..n
    <2> HAVE Cardinality(before(k)) = Cardinality(upto(i)) - 1
    <2>1. Cardinality(upto(k)) = Cardinality(upto(i))
      BY <1>6, <1>7
    <2> QED
      BY <1>6, <2>1
  <1> QED
    BY <1>6, <1>8, <1>9

\* Each claim of the pack is judged, with its cluster.
LEMMA EveryClaimJudged ==
    ASSUME NEW claims, Listed(claims), NEW policy, NEW c \in ToSet(claims)
    PROVE  LET cluster == Cluster(claims, CanonicalKey(c))
           IN  EvaluateClaim(policy, c, Support(cluster), InConflict(claims, cluster))
                 \in ToSet(EvaluateClaims(policy, claims))
  <1>1. Len(claims) \in Nat /\ DOMAIN claims = 1..Len(claims)
    BY ListedFinite
  <1>2. PICK i \in 1..Len(claims) : claims[i] = c
    BY <1>1 DEF ToSet
  <1> DEFINE rank(k) == Cardinality({j \in DOMAIN claims : JudgedBefore(claims, j, k)})
  <1>3. PICK n \in 1..Len(claims) : /\ rank(i) = n - 1
                                    /\ \A k \in 1..Len(claims) : rank(k) = n - 1 => k = i
    BY JudgedInPlaces
  <1> DEFINE chosen == CHOOSE k \in DOMAIN claims : rank(k) = n - 1
             decisions == EvaluateClaims(policy, claims)
  <1>4. chosen = i
    <2> HIDE DEF rank
    <2> QED
      BY <1>1, <1>3
  <1>5. DecisionOn(policy, claims, n) =
          LET cluster == Cluster(claims, CanonicalKey(claims[chosen]))
          IN  EvaluateClaim(policy, claims[chosen], Support(cluster), InConflict(claims, cluster))
    BY DEF DecisionOn
  <1> HIDE DEF chosen
  <1>6. DOMAIN decisions = 1..Len(claims) /\ decisions[n] = DecisionOn(policy, claims, n)
    BY DEF EvaluateClaims
  <1> HIDE DEF decisions
  <1>7. decisions[n] \in ToSet(decisions)
    BY <1>6 DEF ToSet
  <1> QED
    BY <1>2, <1>4, <1>5, <1>6, <1>7 DEF decisions

\* Of two judged claims that cannot both be true, one is put at T7.
LEMMA ContradictionJudged ==
    ASSUME NEW claims, Listed(claims), NEW policy,
           NEW c \in ToSet(claims), NEW d \in ToSet(claims), Contradict(c, d)
    PROVE  \E x \in ToSet(EvaluateClaims(policy, claims)) :
             x.id \in {c.id, d.id} /\ x.recommended = Conflicted
  <1>1. IsFiniteSet(ToSet(claims))
    BY ListedFinite
  <1>2. PICK e \in {c, d} : e.id \in UNION {x.affected : x \in DetectConflicts(ToSet(claims))}
    BY <1>1, ContradictionFound
  <1> DEFINE cluster == Cluster(claims, CanonicalKey(e))
             x == EvaluateClaim(policy, e, Support(cluster), InConflict(claims, cluster))
  <1>3. InConflict(claims, cluster)
    BY <1>2 DEF InConflict, Cluster
  <1>4. x.id = e.id /\ x.recommended = Conflicted
    BY <1>3 DEF EvaluateClaim
  <1>5. x \in ToSet(EvaluateClaims(policy, claims))
    BY EveryClaimJudged
  <1> QED
    BY <1>4, <1>5

-----------------------------------------------------------------------------
(* What certifications know of their output.                               *)

\* One of two claims that cannot both be true was put at T7.
JudgedTrue(r) ==
    \A c, d \in ToSet(r.of) :
        Contradict(c, d) =>
            \E x \in ToSet(r.decisions) : x.id \in {c.id, d.id} /\ x.recommended = Conflicted

\* A certification at work on its output.
Making(j) == j.op = "certify" /\ j.step \in {"files", "verdict"}

ToCopy == <<"claims", "pack.json", "provenance">>

\* What an undisturbed certification knows: its verdict is on the pack as it
\* is, and the files it has copied are the pack's.
GateOK(j, pk, out) ==
    j.op = "certify" =>
        /\ j.alone => j.status = GateStatus(j.policy, pk.lifecycle, pk.claims, pk.rows)
        /\ j.step = "copy" => j.files = ToCopy
        /\ j.step = "files" =>
             /\ j.files \in {ToCopy, <<"pack.json", "provenance">>, <<"provenance">>, << >>}
             /\ (j.alone /\ j.files # ToCopy) => out.claims = pk.claims
             /\ (j.alone /\ j.files = << >>) => out.rows = pk.rows

JobFine(j, pk, out) == (j.op = "promote" => JudgedTrue(j.report)) /\ GateOK(j, pk, out)

FilesOK ==
    /\ report = [f \in {"trust", "conflicts", "stale", "integrity"} |-> report[f]]
    /\ output = [f \in {"files", "lifecycle", "claims", "rows", "judged", "undisturbed"} |-> output[f]]

\* At most one certification makes the output, and it is judged when the
\* copies are there.
OneMaker ==
    /\ \A p, q \in Commands : Making(job[p]) /\ Making(job[q]) => p = q
    /\ \A p \in Commands : Making(job[p]) => "directory" \in output.files
    /\ output.undisturbed =>
         /\ "directory" \in output.files
         /\ \A p \in Commands : ~(job[p].op = "certify" /\ job[p].step = "files")

VerdictInv ==
    /\ FilesOK
    /\ \A p \in Commands : JobFine(job[p], pack, output)
    /\ JudgedTrue(report.trust)
    /\ OneMaker
    /\ CertifiedPassesGate

\* What becomes of a command while another takes a step.
Near(j, k) ==
    /\ k.op = j.op /\ k.step = j.step
    /\ j.op = "promote" => k.report = j.report
    /\ j.op = "certify" =>
         /\ k.policy = j.policy /\ k.status = j.status /\ k.files = j.files
         /\ k.alone => j.alone

LEMMA NearOnes ==
    ASSUME NEW j, IsJob(j)
    PROVE  Near(j, j) /\ (j # Idle => Near(j, [j EXCEPT !.alone = FALSE]) /\ [j EXCEPT !.alone = FALSE].alone = FALSE)
  <1>1. Near(j, j)
    BY DEF Near
  <1> SUFFICES ASSUME j # Idle
               PROVE  Near(j, [j EXCEPT !.alone = FALSE]) /\ [j EXCEPT !.alone = FALSE].alone = FALSE
    BY <1>1
  <1> DEFINE d == [j EXCEPT !.alone = FALSE]
  <1>2. CASE IsPromotion(j)
    <2>1. d.op = j.op /\ j.op = "promote" /\ d.step = j.step /\ d.report = j.report /\ d.alone = FALSE
      BY <1>2 DEF IsPromotion, PromoteFields
    <2> HIDE DEF d
    <2> QED
      BY <2>1 DEF Near
  <1>3. CASE IsCertification(j)
    <2>1. /\ d.op = j.op /\ j.op = "certify" /\ d.step = j.step /\ d.alone = FALSE
          /\ d.policy = j.policy /\ d.status = j.status /\ d.files = j.files
      BY <1>3 DEF IsCertification, CertifyFields
    <2> HIDE DEF d
    <2> QED
      BY <2>1 DEF Near
  <1> QED
    BY <1>2, <1>3 DEF IsJob

LEMMA Stepped ==
    ASSUME Inv, NEW p \in Commands, NEW j,
           job' = [job EXCEPT ![p] = j] \/ job' = Disturb(p, [job EXCEPT ![p] = j])
    PROVE  job'[p] = j /\ \A q \in Commands \ {p} : Near(job[q], job'[q])
  <1> DEFINE jobs == [job EXCEPT ![p] = j]
  <1>1. \A q \in Commands : jobs[q] = IF q = p THEN j ELSE job[q]
    BY DEF Inv, JobsOK
  <1>2. \A q \in Commands : IsJob(job[q])
    BY DEF Inv, JobsOK
  <1> HIDE DEF jobs
  <1>3. CASE job' = jobs
    BY <1>1, <1>2, <1>3, NearOnes
  <1>4. CASE job' = Disturb(p, jobs)
    <2>1. \A q \in Commands : job'[q] = IF q # p /\ jobs[q] # Idle THEN [jobs[q] EXCEPT !.alone = FALSE] ELSE jobs[q]
      BY <1>4 DEF Disturb
    <2>2. ASSUME NEW q \in Commands \ {p} PROVE Near(job[q], job'[q])
      <3>1. job'[q] = job[q] \/ (job[q] # Idle /\ job'[q] = [job[q] EXCEPT !.alone = FALSE])
        BY <1>1, <2>1
      <3> QED
        BY <1>2, <3>1, NearOnes
    <2> QED
      BY <1>1, <2>1, <2>2
  <1> QED
    BY <1>3, <1>4 DEF jobs

LEMMA NearFine ==
    ASSUME NEW j, NEW k, Near(j, k), NEW pk, NEW out, JobFine(j, pk, out)
    PROVE  JobFine(k, pk, out) /\ (Making(k) <=> Making(j))
  BY Zenon DEF Near, JobFine, GateOK, Making

\* Only the copies are about the output.
LEMMA FineElsewhere ==
    ASSUME NEW j, NEW pk, NEW out, NEW other, JobFine(j, pk, out), ~Making(j)
    PROVE  JobFine(j, pk, other)
  BY DEF JobFine, GateOK, Making

\* A step that leaves the output alone.
LEMMA OutputStays ==
    ASSUME Inv, VerdictInv, NEW p \in Commands, NEW j,
           job' = [job EXCEPT ![p] = j] \/ job' = Disturb(p, [job EXCEPT ![p] = j]),
           pack' = pack, output' = output, FilesOK', JudgedTrue(report'.trust),
           JobFine(j, pack, output), ~Making(j)
    PROVE  VerdictInv'
  <1>1. job'[p] = j /\ \A q \in Commands \ {p} : Near(job[q], job'[q])
    BY Stepped
  <1>2. \A q \in Commands : JobFine(job[q], pack, output)
    BY DEF VerdictInv
  <1>3. \A q \in Commands : JobFine(job'[q], pack', output')
    BY <1>1, <1>2, NearFine
  <1>4. \A q \in Commands : Making(job'[q]) => q # p /\ Making(job[q])
    BY <1>1, <1>2, NearFine
  <1>5. OneMaker'
    <2>1. \A q \in Commands : (job'[q].op = "certify" /\ job'[q].step = "files") =>
                                 job[q].op = "certify" /\ job[q].step = "files"
      <3> TAKE q \in Commands
      <3>1. CASE q = p
        BY <1>1, <3>1 DEF Making
      <3>2. CASE q # p
        BY <1>1, <3>2 DEF Near
      <3> QED
        BY <3>1, <3>2
    <2> QED
      BY <1>4, <2>1 DEF VerdictInv, OneMaker
  <1> QED
    BY <1>3, <1>5 DEF VerdictInv, CertifiedPassesGate

\* A step of the one certification that makes the output.
LEMMA OutputMade ==
    ASSUME Inv, VerdictInv, NEW p \in Commands, NEW j,
           job' = [job EXCEPT ![p] = j] \/ job' = Disturb(p, [job EXCEPT ![p] = j]),
           pack' = pack, report' = report, FilesOK',
           \A q \in Commands : Making(job[q]) => q = p,
           JobFine(j, pack, output'), "directory" \in output'.files,
           output'.undisturbed => ~(j.op = "certify" /\ j.step = "files"),
           CertifiedPassesGate'
    PROVE  VerdictInv'
  <1>1. job'[p] = j /\ \A q \in Commands \ {p} : Near(job[q], job'[q])
    BY Stepped
  <1>2. \A q \in Commands : JobFine(job[q], pack, output)
    BY DEF VerdictInv
  <1>3. \A q \in Commands \ {p} : JobFine(job'[q], pack, output) /\ ~Making(job'[q])
    BY <1>1, <1>2, NearFine
  <1>4. \A q \in Commands : JobFine(job'[q], pack', output')
    BY <1>1, <1>3, FineElsewhere
  <1>5. OneMaker'
    BY <1>1, <1>3 DEF OneMaker, Making
  <1> QED
    BY <1>4, <1>5 DEF VerdictInv

LEMMA FilesStay ==
    ASSUME VerdictInv, report' = report, output' = output
    PROVE  FilesOK' /\ JudgedTrue(report'.trust)
  BY DEF VerdictInv, FilesOK

-----------------------------------------------------------------------------
(* The steps of the commands, for both reports.                            *)

LEMMA PromoteJudges ==
    ASSUME Inv, VerdictInv, NEW p \in Commands, NEW policy, Promote(p, policy)
    PROVE  VerdictInv'
  <1> DEFINE claims == Loaded(pack.claims)
             r == Report(policy, claims)
             j == [op |-> "promote", step |-> "report", alone |-> ~Others(p),
                   report |-> r, todo |-> EvaluateClaims(policy, claims),
                   events |-> << >>, before |-> << >>]
  <1>1. job' = [job EXCEPT ![p] = j] /\ pack' = pack /\ report' = report /\ output' = output
    BY DEF Promote, Start
  <1>2. Listed(claims)
    BY DecisionsListed DEF Inv, PackOK
  <1>3. r.of = claims /\ r.decisions = EvaluateClaims(policy, claims)
    BY DEF Report
  <1>4. j.op = "promote" /\ j.report = r
    OBVIOUS
  <1> HIDE DEF claims, r, j
  <1>5. JudgedTrue(r)
    BY <1>2, <1>3, ContradictionJudged DEF JudgedTrue
  <1>6. JobFine(j, pack, output) /\ ~Making(j)
    BY <1>4, <1>5 DEF JobFine, GateOK, Making
  <1> QED
    BY <1>1, <1>6, FilesStay, OutputStays

LEMMA IdleFine == \A pk, out : JobFine(Idle, pk, out) /\ ~Making(Idle)
  BY DEF JobFine, GateOK, Making, Idle

LEMMA EndJudges ==
    ASSUME Inv, VerdictInv, NEW p \in Commands,
           LoadTorn(p) \/ WriteIntegrity(p) \/ CopyRefused(p) \/ PromoteRefused(p) \/ Die(p)
    PROVE  VerdictInv'
  <1>1. pack' = pack /\ output' = output
    BY DEF LoadTorn, WriteIntegrity, CopyRefused, PromoteRefused, Die
  <1>2. job' = [job EXCEPT ![p] = Idle] \/ job' = Disturb(p, [job EXCEPT ![p] = Idle])
    BY DEF LoadTorn, WriteIntegrity, CopyRefused, PromoteRefused, Start, Die
  <1>3. FilesOK' /\ JudgedTrue(report'.trust)
    <2>1. CASE report' = report
      BY <1>1, <2>1, FilesStay
    <2>2. CASE WriteIntegrity(p)
      <3>1. report' = [report EXCEPT !.integrity = pack.claims]
        BY <2>2 DEF WriteIntegrity
      <3>2. report'.trust = report.trust
        BY <3>1 DEF VerdictInv, FilesOK
      <3> QED
        BY <1>1, <3>1, <3>2 DEF VerdictInv, FilesOK
    <2> QED
      BY <2>1, <2>2 DEF LoadTorn, CopyRefused, PromoteRefused, Die
  <1> QED
    BY <1>1, <1>2, <1>3, IdleFine, OutputStays

LEMMA PromotionJudges ==
    ASSUME Inv, VerdictInv, NEW p \in Commands,
           \/ WriteReport(p) \/ WriteConflicts(p) \/ WriteStaleness(p)
           \/ LoadLedger(p) \/ OpenLedger(p) \/ WriteLedger(p)
    PROVE  VerdictInv'
  <1>1. IsPromotion(job[p])
    BY AtPromotion DEF WriteReport, WriteConflicts, WriteStaleness, LoadLedger, OpenLedger, WriteLedger
  <1>2. job[p].op = "promote" /\ JudgedTrue(job[p].report)
    BY <1>1 DEF IsPromotion, VerdictInv, JobFine
  <1>3. PICK j : /\ job' = [job EXCEPT ![p] = j] \/ job' = Disturb(p, [job EXCEPT ![p] = j])
                 /\ j.op = "promote" /\ j.report = job[p].report
    <2>1. ASSUME NEW step, Goto(p, step)
          PROVE  \E j : /\ job' = Disturb(p, [job EXCEPT ![p] = j])
                        /\ j.op = "promote" /\ j.report = job[p].report
      <3> DEFINE j == [job[p] EXCEPT !.step = step]
      <3>1. j.op = "promote" /\ j.report = job[p].report
        BY <1>1 DEF IsPromotion, PromoteFields
      <3>2. job' = Disturb(p, [job EXCEPT ![p] = j])
        BY <2>1 DEF Goto
      <3> QED
        BY <3>1, <3>2
    <2>2. CASE WriteStaleness(p)
      <3> DEFINE j == [job[p] EXCEPT !.step = "load", !.before = ledger.events]
      <3>1. j.op = "promote" /\ j.report = job[p].report
        BY <1>1 DEF IsPromotion, PromoteFields
      <3>2. job' = Disturb(p, [job EXCEPT ![p] = j])
        BY <2>2 DEF WriteStaleness
      <3> QED
        BY <3>1, <3>2
    <2>3. CASE LoadLedger(p)
      <3> DEFINE j == [job[p] EXCEPT !.step = "open",
                          !.events = AppendEvent(ledger.events, NewEvent(Head(job[p].todo), Genesis)),
                          !.todo = Tail(job[p].todo)]
      <3>1. j.op = "promote" /\ j.report = job[p].report
        BY <1>1 DEF IsPromotion, PromoteFields
      <3>2. job' = [job EXCEPT ![p] = j]
        BY <2>3 DEF LoadLedger
      <3> QED
        BY <3>1, <3>2
    <2> QED
      BY <2>1, <2>2, <2>3 DEF WriteReport, WriteConflicts, OpenLedger, WriteLedger
  <1>4. pack' = pack /\ output' = output
    BY DEF WriteReport, WriteConflicts, WriteStaleness, LoadLedger, OpenLedger, WriteLedger
  <1>5. FilesOK' /\ JudgedTrue(report'.trust)
    <2>1. CASE report' = report
      BY <1>4, <2>1, FilesStay
    <2>2. CASE \E v : report' = [report EXCEPT !.trust = v] /\ JudgedTrue(v)
      <3>1. PICK v : report' = [report EXCEPT !.trust = v] /\ JudgedTrue(v)
        BY <2>2
      <3>2. report'.trust = v
        BY <3>1 DEF VerdictInv, FilesOK
      <3> QED
        BY <1>4, <3>1, <3>2 DEF VerdictInv, FilesOK
    <2>3. CASE (\E v : report' = [report EXCEPT !.conflicts = v]) \/ (\E v : report' = [report EXCEPT !.stale = v])
      <3>1. report'.trust = report.trust
        BY <2>3 DEF VerdictInv, FilesOK
      <3>2. FilesOK'
        BY <1>4, <2>3 DEF VerdictInv, FilesOK
      <3> QED
        BY <3>1, <3>2 DEF VerdictInv
    <2> QED
      BY <1>2, <2>1, <2>2, <2>3 DEF WriteReport, WriteConflicts, WriteStaleness, LoadLedger, OpenLedger, WriteLedger
  <1>6. JobFine(j, pack, output) /\ ~Making(j)
    BY <1>2, <1>3 DEF JobFine, GateOK, Making
  <1> QED
    BY <1>3, <1>4, <1>5, <1>6, OutputStays

LEMMA EvaluateJudges ==
    ASSUME Inv, VerdictInv, NEW p \in Commands, NEW policy, Evaluate(p, policy)
    PROVE  VerdictInv'
  <1> DEFINE j == [op |-> "certify", step |-> "copy", alone |-> ~Others(p), policy |-> policy,
                   status |-> GateStatus(policy, pack.lifecycle, pack.claims, pack.rows),
                   files |-> <<"claims", "pack.json", "provenance">>]
  <1>1. job' = [job EXCEPT ![p] = j] /\ pack' = pack /\ report' = report /\ output' = output
    BY DEF Evaluate, Start
  <1>2. /\ j.op = "certify" /\ j.step = "copy" /\ j.policy = policy /\ j.files = ToCopy
        /\ j.status = GateStatus(policy, pack.lifecycle, pack.claims, pack.rows)
    BY DEF ToCopy
  <1> HIDE DEF j
  <1>3. JobFine(j, pack, output) /\ ~Making(j)
    BY <1>2 DEF JobFine, GateOK, Making
  <1> QED
    BY <1>1, <1>3, FilesStay, OutputStays

\* What the invariants say of a certification.
LEMMA Certifying ==
    ASSUME Inv, VerdictInv, NEW p \in Commands, NEW step, At(p, "certify", step)
    PROVE  /\ IsCertification(job[p]) /\ job[p].op = "certify" /\ job[p].step = step
           /\ GateOK(job[p], pack, output)
           /\ step \in {"files", "verdict"} =>
                "directory" \in output.files /\ \A q \in Commands : Making(job[q]) => q = p
  <1>1. IsCertification(job[p]) /\ job[p].op = "certify" /\ job[p].step = step
    BY AtCertification DEF At
  <1> QED
    BY <1>1 DEF VerdictInv, JobFine, OneMaker, Making

LEMMA AtStep ==
    ASSUME NEW j, IsCertification(j), NEW step
    PROVE  LET k == [j EXCEPT !.step = step]
           IN  /\ k.op = "certify" /\ k.step = step /\ k.alone = j.alone /\ k.policy = j.policy
               /\ k.status = j.status /\ k.files = j.files
  BY DEF IsCertification, CertifyFields

LEMMA MakeJudges ==
    ASSUME Inv, VerdictInv, NEW p \in Commands, MakeOutput(p)
    PROVE  VerdictInv'
  <1> DEFINE j == [job[p] EXCEPT !.step = "files"]
  <1>1. IsCertification(job[p]) /\ job[p].op = "certify" /\ job[p].step = "copy" /\ GateOK(job[p], pack, output)
    BY Certifying DEF MakeOutput
  <1>2. /\ j.op = "certify" /\ j.step = "files" /\ j.alone = job[p].alone /\ j.policy = job[p].policy
        /\ j.status = job[p].status /\ j.files = job[p].files
    BY <1>1, AtStep
  <1>3. job' = Disturb(p, [job EXCEPT ![p] = j]) /\ pack' = pack /\ report' = report
    BY DEF MakeOutput, Goto
  <1> HIDE DEF j
  <1>4. output' = [output EXCEPT !.files = output.files \cup {"directory"}]
    BY DEF MakeOutput
  <1>5. FilesOK' /\ "directory" \in output'.files /\ output'.undisturbed = output.undisturbed
        /\ output'.lifecycle = output.lifecycle /\ output'.judged = output.judged
        /\ output'.claims = output.claims /\ output'.rows = output.rows
    BY <1>3, <1>4 DEF VerdictInv, FilesOK
  <1>6. ~output.undisturbed /\ \A q \in Commands : ~Making(job[q])
    BY DEF MakeOutput, VerdictInv, OneMaker
  <1>7. JobFine(j, pack, output')
    <2>1. j.alone => j.status = GateStatus(j.policy, pack.lifecycle, pack.claims, pack.rows)
      BY <1>1, <1>2, Zenon DEF GateOK
    <2>2. j.files = ToCopy
      BY <1>1, <1>2 DEF GateOK
    <2>3. ToCopy # << >>
      BY DEF ToCopy
    <2> QED
      BY <1>2, <2>1, <2>2, <2>3, Zenon DEF JobFine, GateOK
  <1>8. CertifiedPassesGate'
    BY <1>5, <1>6 DEF CertifiedPassesGate
  <1>9. ~output'.undisturbed
    BY <1>5, <1>6
  <1> QED
    BY <1>3, <1>5, <1>6, <1>7, <1>8, <1>9, OutputMade

LEMMA FilesInOrder ==
    /\ Head(ToCopy) = "claims" /\ Tail(ToCopy) = <<"pack.json", "provenance">>
    /\ Head(<<"pack.json", "provenance">>) = "pack.json"
    /\ Tail(<<"pack.json", "provenance">>) = <<"provenance">>
    /\ Head(<<"provenance">>) = "provenance" /\ Tail(<<"provenance">>) = << >>
    /\ ToCopy # <<"pack.json", "provenance">> /\ ToCopy # <<"provenance">>
    /\ <<"pack.json", "provenance">> # << >> /\ <<"provenance">> # << >>
  BY DEF ToCopy

LEMMA CopyJudges ==
    ASSUME Inv, VerdictInv, NEW p \in Commands, CopyFile(p)
    PROVE  VerdictInv'
  <1> DEFINE j == [job[p] EXCEPT !.files = Tail(job[p].files)]
             f == Head(job[p].files)
             into == [output EXCEPT !.files = output.files \cup {f}]
  <1>1. /\ IsCertification(job[p]) /\ job[p].op = "certify" /\ job[p].step = "files"
        /\ GateOK(job[p], pack, output) /\ "directory" \in output.files
        /\ \A q \in Commands : Making(job[q]) => q = p
    BY Certifying DEF CopyFile
  <1>2. /\ j.op = "certify" /\ j.step = "files" /\ j.alone = job[p].alone /\ j.policy = job[p].policy
        /\ j.status = job[p].status /\ j.files = Tail(job[p].files)
    BY <1>1 DEF IsCertification, CertifyFields
  <1>3. job' = Disturb(p, [job EXCEPT ![p] = j]) /\ pack' = pack /\ report' = report
    BY DEF CopyFile
  <1> HIDE DEF j
  <1>4. /\ f = "claims" => output' = [into EXCEPT !.claims = pack.claims]
        /\ f = "pack.json" => output' = [into EXCEPT !.lifecycle = pack.lifecycle]
        /\ f = "provenance" => output' = [into EXCEPT !.rows = pack.rows]
    BY DEF CopyFile
  <1>5. \/ job[p].files = ToCopy /\ f = "claims" /\ j.files = <<"pack.json", "provenance">>
        \/ job[p].files = <<"pack.json", "provenance">> /\ f = "pack.json" /\ j.files = <<"provenance">>
        \/ job[p].files = <<"provenance">> /\ f = "provenance" /\ j.files = << >>
    <2>1. job[p].files \in {ToCopy, <<"pack.json", "provenance">>, <<"provenance">>} 
      BY <1>1 DEF GateOK, CopyFile
    <2> QED
      BY <1>2, <2>1, FilesInOrder
  <1> HIDE DEF f
  <1>6. /\ FilesOK' /\ "directory" \in output'.files /\ output'.undisturbed = output.undisturbed
        /\ output'.claims = IF f = "claims" THEN pack.claims ELSE output.claims
        /\ output'.rows = IF f = "provenance" THEN pack.rows ELSE output.rows
    BY <1>1, <1>3, <1>4, <1>5 DEF VerdictInv, FilesOK
  <1>7. ~output.undisturbed
    BY <1>1 DEF VerdictInv, OneMaker
  <1>8. JobFine(j, pack, output')
    <2>1. j.alone => j.status = GateStatus(j.policy, pack.lifecycle, pack.claims, pack.rows)
      BY <1>1, <1>2, Zenon DEF GateOK
    <2>2. j.files \in {<<"pack.json", "provenance">>, <<"provenance">>, << >>}
      BY <1>5
    <2>3. ASSUME j.alone
          PROVE  output'.claims = pack.claims /\ (j.files = << >> => output'.rows = pack.rows)
      <3>1. job[p].files # ToCopy => output.claims = pack.claims
        BY <1>1, <1>2, <2>3, Zenon DEF GateOK
      <3>2. f # "claims" => job[p].files # ToCopy
        BY <1>5, FilesInOrder
      <3>3. j.files = << >> => f = "provenance"
        BY <1>5, FilesInOrder
      <3> QED
        BY <1>6, <3>1, <3>2, <3>3
    <2> QED
      BY <1>2, <2>1, <2>2, <2>3, Zenon DEF JobFine, GateOK
  <1>9. CertifiedPassesGate'
    BY <1>6, <1>7 DEF CertifiedPassesGate
  <1>10. ~output'.undisturbed
    BY <1>6, <1>7
  <1> QED
    BY <1>1, <1>3, <1>6, <1>8, <1>9, <1>10, OutputMade

LEMMA ManifestJudges ==
    ASSUME Inv, VerdictInv, NEW p \in Commands, WriteManifest(p)
    PROVE  VerdictInv'
  <1> DEFINE j == [job[p] EXCEPT !.step = "verdict"]
  <1>1. /\ IsCertification(job[p]) /\ job[p].op = "certify" /\ job[p].step = "files"
        /\ GateOK(job[p], pack, output) /\ "directory" \in output.files
        /\ \A q \in Commands : Making(job[q]) => q = p
    BY Certifying DEF WriteManifest
  <1>2. j.op = "certify" /\ j.step = "verdict" /\ j.alone = job[p].alone
        /\ j.policy = job[p].policy /\ j.status = job[p].status
    BY <1>1, AtStep
  <1>3. job' = Disturb(p, [job EXCEPT ![p] = j]) /\ pack' = pack /\ report' = report
    BY DEF WriteManifest, Goto
  <1> HIDE DEF j
  <1>4. output' = [output EXCEPT !.lifecycle = IF job[p].status = "PASSED" THEN "certified" ELSE "blocked",
                                 !.judged = {job[p].policy},
                                 !.undisturbed = job[p].alone]
    BY DEF WriteManifest
  <1>5. /\ FilesOK' /\ output'.files = output.files /\ output'.undisturbed = job[p].alone
        /\ output'.lifecycle = IF job[p].status = "PASSED" THEN "certified" ELSE "blocked"
        /\ output'.judged = {job[p].policy}
        /\ output'.claims = output.claims /\ output'.rows = output.rows
    BY <1>3, <1>4 DEF VerdictInv, FilesOK
  <1>6. JobFine(j, pack, output')
    BY <1>1, <1>2, Zenon DEF JobFine, GateOK
  <1>7. CertifiedPassesGate'
    <2> SUFFICES ASSUME output'.lifecycle = "certified", output'.undisturbed
                 PROVE  \E lifecycle \in job[p].policy.statuses :
                          GatePasses(job[p].policy, lifecycle, output'.claims, output'.rows)
      BY <1>5 DEF CertifiedPassesGate
    <2>1. job[p].alone
      BY <1>5, Zenon
    <2>2. job[p].files = << >> /\ << >> # ToCopy
      BY DEF WriteManifest, ToCopy
    <2>3. /\ output.claims = pack.claims /\ output.rows = pack.rows
          /\ job[p].status = GateStatus(job[p].policy, pack.lifecycle, pack.claims, pack.rows)
      BY <1>1, <2>1, <2>2, Zenon DEF GateOK
    <2>4. job[p].status = "PASSED"
      BY <1>5
    <2>5. GatePasses(job[p].policy, pack.lifecycle, pack.claims, pack.rows)
      BY <2>3, <2>4 DEF GateStatus
    <2>6. pack.lifecycle \in job[p].policy.statuses
      BY <2>5 DEF GatePasses
    <2> QED
      BY <1>5, <2>3, <2>5, <2>6
  <1> QED
    BY <1>1, <1>2, <1>3, <1>5, <1>6, <1>7, OutputMade

LEMMA VerdictJudges ==
    ASSUME Inv, VerdictInv, NEW p \in Commands, WriteVerdict(p)
    PROVE  VerdictInv'
  <1>1. "directory" \in output.files /\ \A q \in Commands : Making(job[q]) => q = p
    BY Certifying DEF WriteVerdict
  <1>2. job' = Disturb(p, [job EXCEPT ![p] = Idle]) /\ pack' = pack /\ report' = report
    BY DEF WriteVerdict
  <1>3. output' = [output EXCEPT !.files = output.files \cup {"trust_report"}]
    BY DEF WriteVerdict
  <1>4. /\ FilesOK' /\ "directory" \in output'.files /\ output'.undisturbed = output.undisturbed
        /\ output'.lifecycle = output.lifecycle /\ output'.judged = output.judged
        /\ output'.claims = output.claims /\ output'.rows = output.rows
    BY <1>1, <1>2, <1>3 DEF VerdictInv, FilesOK
  <1>5. CertifiedPassesGate'
    BY <1>4 DEF CertifiedPassesGate, VerdictInv
  <1>6. Idle.op = "none"
    BY DEF Idle
  <1> QED
    BY <1>1, <1>2, <1>4, <1>5, <1>6, IdleFine, OutputMade

LEMMA AddJudges ==
    ASSUME Inv, VerdictInv, NEW c, AddClaim(c)
    PROVE  VerdictInv'
  <1>1. \A q \in Commands : job'[q] = IF job[q] = Idle THEN Idle ELSE [job[q] EXCEPT !.alone = FALSE]
    BY DEF AddClaim
  <1>2. report' = report /\ output' = output
    BY DEF AddClaim
  <1>3. ASSUME NEW q \in Commands
        PROVE  Near(job[q], job'[q]) /\ JobFine(job'[q], pack', output')
    <2>1. IsJob(job[q]) /\ JobFine(job[q], pack, output)
      BY DEF Inv, JobsOK, VerdictInv
    <2>2. CASE job[q] = Idle
      BY <1>1, <2>1, <2>2, NearOnes, IdleFine
    <2>3. CASE job[q] # Idle
      <3>1. Near(job[q], job'[q]) /\ job'[q].alone = FALSE
        BY <1>1, <2>1, <2>3, NearOnes
      <3>2. JobFine(job'[q], pack, output)
        BY <2>1, <3>1, NearFine
      <3>3. ~job'[q].alone
        BY <3>1
      <3> QED
        BY <1>2, <3>1, <3>2, <3>3, Zenon DEF JobFine, GateOK
    <2> QED
      BY <2>2, <2>3
  <1>4. OneMaker'
    BY <1>2, <1>3 DEF VerdictInv, OneMaker, Near, Making
  <1> QED
    BY <1>2, <1>3, <1>4, FilesStay DEF VerdictInv, CertifiedPassesGate

LEMMA VerdictStarts == Init => VerdictInv
  <1> SUFFICES ASSUME Init PROVE VerdictInv
    OBVIOUS
  <1>1. /\ job = [p \in Commands |-> Idle] /\ output = NoOutput
        /\ report = [trust |-> NoReport, conflicts |-> {}, stale |-> {}, integrity |-> << >>]
    BY DEF Init
  <1>2. FilesOK
    BY <1>1 DEF FilesOK, NoOutput
  <1>3. JudgedTrue(report.trust)
    BY <1>1 DEF JudgedTrue, NoReport, ToSet
  <1>4. \A p \in Commands : JobFine(job[p], pack, output) /\ ~Making(job[p])
    BY <1>1, IdleFine
  <1>5. output.undisturbed = FALSE
    BY <1>1 DEF NoOutput
  <1>6. ~output.undisturbed
    BY <1>5
  <1> QED
    BY <1>2, <1>3, <1>4, <1>6 DEF VerdictInv, OneMaker, CertifiedPassesGate

LEMMA VerdictStep == Inv /\ VerdictInv /\ [Next]_vars => VerdictInv'
  <1> SUFFICES ASSUME Inv, VerdictInv, [Next]_vars PROVE VerdictInv'
    OBVIOUS
  <1>1. ASSUME NEW p \in Commands, NEW policy \in Policies, Promote(p, policy) \/ Evaluate(p, policy)
        PROVE  VerdictInv'
    BY <1>1, PromoteJudges, EvaluateJudges
  <1>2. ASSUME NEW p \in Commands, PromoteStep(p) PROVE VerdictInv'
    BY <1>2, PromotionJudges, EndJudges DEF PromoteStep
  <1>3. ASSUME NEW p \in Commands, CertifyStep(p) PROVE VerdictInv'
    BY <1>3, MakeJudges, CopyJudges, ManifestJudges, VerdictJudges, EndJudges DEF CertifyStep
  <1>4. ASSUME NEW p \in Commands, PromoteRefused(p) \/ Die(p) PROVE VerdictInv'
    BY <1>4, EndJudges
  <1>5. ASSUME NEW c \in Added, AddClaim(c) PROVE VerdictInv'
    BY <1>5, AddJudges
  <1>6. CASE UNCHANGED vars
    BY <1>6 DEF vars, VerdictInv, FilesOK, OneMaker, CertifiedPassesGate
  <1> QED
    BY <1>1, <1>2, <1>3, <1>4, <1>5, <1>6 DEF Next

\* Whatever two claims of the judged pack cannot both be true, the report of
\* a promotion puts one of them at T7.
THEOREM ContradictionsCaught == Spec => []ContradictionsNotBothTrusted
  <1>1. VerdictInv => ContradictionsNotBothTrusted
    BY DEF VerdictInv, JudgedTrue, ContradictionsNotBothTrusted
  <1> QED
    BY <1>1, InitInv, NextInv, VerdictStarts, VerdictStep, PTL DEF Spec

\* Several certifications at once, and a death between any two steps of one,
\* leave no output that is called certified and would not pass the gate.
THEOREM CertifiedPacksPass == Spec => []CertifiedPassesGate
  <1>1. VerdictInv => CertifiedPassesGate
    BY DEF VerdictInv
  <1> QED
    BY <1>1, InitInv, NextInv, VerdictStarts, VerdictStep, PTL DEF Spec

-----------------------------------------------------------------------------
(* The compiled runtime: a sort by claim id takes each record to one      *)
(* place.                                                                 *)

\* A list of records whose ids are numbers.
RecordList(v) ==
    /\ v \in Seq(ToSet(v))
    /\ \A i \in DOMAIN v : v[i].id \in Int

\* A sort by id: the records of v, each at one place.
LEMMA SortedPlaces ==
    ASSUME NEW v, RecordList(v)
    PROVE  \E p \in [DOMAIN v -> DOMAIN v] :
              /\ IsFiniteSet(DOMAIN v)
              /\ \A i \in DOMAIN v : ById(v)[i] = v[p[i]]
              /\ DOMAIN ById(v) = DOMAIN v
              /\ \A i, k \in DOMAIN v : p[i] = p[k] => i = k
              /\ \A k \in DOMAIN v : \E i \in DOMAIN v : p[i] = k
  <1> DEFINE n == Len(v)
             R == {x \in (1..n) \X (1..n) :
                     \/ v[x[1]].id < v[x[2]].id
                     \/ v[x[1]].id = v[x[2]].id /\ x[1] <= x[2]}
             rank(i) == Cardinality({j \in DOMAIN v : v[j].id < v[i].id \/ (v[j].id = v[i].id /\ j <= i)})
             below(i) == Cardinality({j \in 1..n : <<j, i>> \in R})
             p == [k \in DOMAIN v |-> CHOOSE i \in DOMAIN v : rank(i) = k]
  <1>1. n \in Nat /\ DOMAIN v = 1..n
    BY LenProperties DEF RecordList
  <1>2. \A i, j \in 1..n : <<i, j>> \in R <=> (v[i].id < v[j].id \/ (v[i].id = v[j].id /\ i <= j))
    OBVIOUS
  <1>3. \A i \in 1..n : v[i].id \in Int
    BY <1>1 DEF RecordList
  <1>4. /\ \A i \in 1..n : <<i, i>> \in R
        /\ \A i, j \in 1..n : <<i, j>> \in R \/ <<j, i>> \in R
        /\ \A i, j \in 1..n : <<i, j>> \in R /\ <<j, i>> \in R => i = j
    BY <1>1, <1>2, <1>3
  <1>5. \A i, j, k \in 1..n : <<i, j>> \in R /\ <<j, k>> \in R => <<i, k>> \in R
    BY <1>1, <1>2, <1>3
  <1> HIDE DEF n, R
  <1>6. \A i \in 1..n : rank(i) = below(i)
    <2> TAKE i \in 1..n
    <2>1. {j \in 1..n : <<j, i>> \in R} = {j \in DOMAIN v : v[j].id < v[i].id \/ (v[j].id = v[i].id /\ j <= i)}
      BY <1>1, <1>2
    <2> QED
      BY <2>1
  <1>7. /\ \A i \in 1..n : below(i) \in 1..n
        /\ \A i, k \in 1..n : below(i) = below(k) => i = k
        /\ \A m \in 1..n : \E i \in 1..n : below(i) = m
    BY <1>1, <1>4, <1>5, RankOnto
  <1>8. ById(v) = [k \in DOMAIN v |-> v[p[k]]]
    BY DEF ById
  <1> HIDE DEF rank, below
  <1>9. /\ \A i \in 1..n : rank(i) \in 1..n
        /\ \A i, k \in 1..n : rank(i) = rank(k) => i = k
        /\ \A m \in 1..n : \E i \in 1..n : rank(i) = m
    BY <1>6, <1>7
  <1>10. \A k \in 1..n : p[k] \in 1..n /\ rank(p[k]) = k
    BY <1>1, <1>9
  <1> HIDE DEF p
  <1>11. p \in [DOMAIN v -> DOMAIN v]
    BY <1>1, <1>10 DEF p
  <1>12. \A k \in DOMAIN v : ById(v)[k] = v[p[k]]
    BY <1>8
  <1>13. \A i, k \in DOMAIN v : p[i] = p[k] => i = k
    BY <1>1, <1>10
  <1>14. \A k \in DOMAIN v : \E i \in DOMAIN v : p[i] = k
    <2> TAKE k \in DOMAIN v
    <2>1. rank(k) \in 1..n /\ k \in 1..n
      BY <1>1, <1>9
    <2>2. rank(p[rank(k)]) = rank(k) /\ p[rank(k)] \in 1..n
      BY <2>1, <1>10
    <2>3. p[rank(k)] = k
      BY <2>1, <2>2, <1>9
    <2> QED
      BY <2>1, <2>3, <1>1
  <1>15. IsFiniteSet(DOMAIN v)
    BY <1>1, FS_Interval
  <1>16. DOMAIN ById(v) = DOMAIN v
    BY <1>8
  <1> QED
    BY <1>11, <1>12, <1>13, <1>14, <1>15, <1>16

-----------------------------------------------------------------------------
(* What is compiled of records, and what is answered of it.               *)

LEMMA CompiledFields ==
    ASSUME NEW v
    PROVE  /\ CompileRecords(v).whole = TRUE
           /\ CompileRecords(v).records = ById(v)
           /\ CompileRecords(v).bySubject = Positions(ById(v), LAMBDA r : r.subject)
           /\ CompileRecords(v).byRelation = Positions(ById(v), LAMBDA r : r.relation)
           /\ CompileRecords(v).byObject = Positions(ById(v), LAMBDA r : r.object)
  BY DEF CompileRecords, IndexOf

\* Each index holds each record under its own value.
LEMMA IndexedUnderItsValue ==
    ASSUME NEW v, NEW i \in DOMAIN ById(v)
    PROVE  LET w == ById(v)
               file == CompileRecords(v)
           IN  /\ w[i].subject \in DOMAIN file.bySubject /\ i \in file.bySubject[w[i].subject]
               /\ w[i].relation \in DOMAIN file.byRelation /\ i \in file.byRelation[w[i].relation]
               /\ w[i].object \in DOMAIN file.byObject /\ i \in file.byObject[w[i].object]
  <1> DEFINE w == ById(v)
  <1> HIDE DEF w
  <1>1. i \in DOMAIN w
    BY DEF w
  <1>2. LET m == Positions(w, LAMBDA r : r.subject)
        IN  w[i].subject \in DOMAIN m /\ i \in m[w[i].subject]
    BY <1>1 DEF Positions
  <1>3. LET m == Positions(w, LAMBDA r : r.relation)
        IN  w[i].relation \in DOMAIN m /\ i \in m[w[i].relation]
    BY <1>1 DEF Positions
  <1>4. LET m == Positions(w, LAMBDA r : r.object)
        IN  w[i].object \in DOMAIN m /\ i \in m[w[i].object]
    BY <1>1 DEF Positions
  <1> QED
    BY <1>2, <1>3, <1>4, CompiledFields DEF w

\* Nothing else is in an index.
LEMMA IndexesInRange ==
    ASSUME NEW v
    PROVE  LET file == CompileRecords(v)
           IN  /\ \A x \in DOMAIN file.bySubject : file.bySubject[x] \subseteq DOMAIN ById(v)
               /\ \A x \in DOMAIN file.byRelation : file.byRelation[x] \subseteq DOMAIN ById(v)
               /\ \A x \in DOMAIN file.byObject : file.byObject[x] \subseteq DOMAIN ById(v)
  <1> DEFINE w == ById(v)
  <1> HIDE DEF w
  <1>1. LET m == Positions(w, LAMBDA r : r.subject)
        IN  \A x \in DOMAIN m : m[x] \subseteq DOMAIN w
    BY DEF Positions
  <1>2. LET m == Positions(w, LAMBDA r : r.relation)
        IN  \A x \in DOMAIN m : m[x] \subseteq DOMAIN w
    BY DEF Positions
  <1>3. LET m == Positions(w, LAMBDA r : r.object)
        IN  \A x \in DOMAIN m : m[x] \subseteq DOMAIN w
    BY DEF Positions
  <1> QED
    BY <1>1, <1>2, <1>3, CompiledFields DEF w

\* A value is looked up under every key that normalises alike.
LEMMA FoundByItsValue ==
    ASSUME NEW map, NEW value, NEW k \in DOMAIN map, NEW i \in map[k], SameText(value, k)
    PROVE  i \in LookupIndices(map, value)
  BY DEF LookupIndices

\* What a question about a compiled file may be answered.
LEMMA CompiledAnswers ==
    ASSUME NEW v, RecordList(v), NEW q, q.limit \in Nat, PolicyLoads(q.policy),
           NEW rows \in QueryCompiled(CompileRecords(v), q)
    PROVE  /\ rows \subseteq {Row(v[i], "cmcf") : i \in AskedFor(v, q)}
           /\ Cardinality(AskedFor(v, q)) <= q.limit => rows = {Row(v[i], "cmcf") : i \in AskedFor(v, q)}
  <1> DEFINE file == CompileRecords(v)
             w == ById(v)
             candidates ==
               {i \in DOMAIN file.records :
                  /\ q.subject # Anything => i \in LookupIndices(file.bySubject, q.subject)
                  /\ q.relation # Anything => i \in LookupIndices(file.byRelation, q.relation)
                  /\ q.object # Anything => i \in LookupIndices(file.byObject, q.object)}
             hits == {i \in candidates :
                   /\ q.trusted => file.records[i].lifecycle \in TrustedStatuses
                   /\ PolicyAllows(q.policy, file.records[i].relation)
                   /\ Matches(file.records[i], q)}
             all == AskedFor(v, q)
  <1>1. PICK p \in [DOMAIN v -> DOMAIN v] :
              /\ IsFiniteSet(DOMAIN v)
              /\ \A i \in DOMAIN v : w[i] = v[p[i]]
              /\ DOMAIN w = DOMAIN v
              /\ \A i, k \in DOMAIN v : p[i] = p[k] => i = k
              /\ \A k \in DOMAIN v : \E i \in DOMAIN v : p[i] = k
    BY SortedPlaces
  <1>2. PICK kept \in Limited(hits, q.limit) : rows = {Row(file.records[i], "cmcf") : i \in kept}
    BY DEF QueryCompiled
  <1>3. hits = {i \in DOMAIN w : /\ q.trusted => w[i].lifecycle \in TrustedStatuses
                                 /\ PolicyAllows(q.policy, w[i].relation)
                                 /\ Matches(w[i], q)}
    <2>1. file.records = w
      BY CompiledFields
    <2>2. ASSUME NEW i \in DOMAIN w, Matches(w[i], q)
          PROVE  i \in candidates
      <3>1. q.subject # Anything => SameText(q.subject, w[i].subject)
        BY <2>2 DEF Matches
      <3>2. q.relation # Anything => SameText(q.relation, w[i].relation)
        BY <2>2 DEF Matches
      <3>3. q.object # Anything => SameText(q.object, w[i].object)
        BY <2>2 DEF Matches
      <3>4. /\ w[i].subject \in DOMAIN file.bySubject /\ i \in file.bySubject[w[i].subject]
            /\ w[i].relation \in DOMAIN file.byRelation /\ i \in file.byRelation[w[i].relation]
            /\ w[i].object \in DOMAIN file.byObject /\ i \in file.byObject[w[i].object]
        BY IndexedUnderItsValue
      <3> HIDE DEF file, w
      <3>5. /\ q.subject # Anything => i \in LookupIndices(file.bySubject, q.subject)
            /\ q.relation # Anything => i \in LookupIndices(file.byRelation, q.relation)
            /\ q.object # Anything => i \in LookupIndices(file.byObject, q.object)
        BY <3>1, <3>2, <3>3, <3>4, FoundByItsValue
      <3> QED
        BY <3>5, <2>1
    <2> HIDE DEF file, w
    <2> QED
      BY <2>1, <2>2
  <1>4. \A i \in DOMAIN w : i \in hits <=> p[i] \in all
    <2>1. \A relation : PolicyAllows(q.policy, relation) <=> ~Blocks(q.policy, relation)
      BY DEF PolicyAllows, Blocks, PolicyLoads
    <2>2. \A i \in DOMAIN w : w[i] = v[p[i]] /\ p[i] \in DOMAIN v
      BY <1>1
    <2> HIDE DEF file, w
    <2> QED
      BY <1>3, <2>1, <2>2 DEF AskedFor, Matches
  <1>5. Cardinality(hits) <= Cardinality(all)
    <2>1. all \in SUBSET DOMAIN v
      BY DEF AskedFor
    <2>2. IsFiniteSet(all)
      BY <1>1, <2>1, FS_Subset
    <2>3. \A i \in hits : i \in DOMAIN v /\ p[i] \in all
      BY <1>1, <1>3, <1>4
    <2> DEFINE f == [i \in hits |-> p[i]]
    <2> HIDE DEF hits, all
    <2>4. f \in Injection(hits, all)
      BY <1>1, <2>3 DEF Injection, IsInjective
    <2> HIDE DEF f
    <2> QED
      BY <2>2, <2>4, FS_Injection
  <1>6. kept \subseteq hits /\ (q.limit >= Cardinality(hits) => kept = hits)
    BY <1>2 DEF Limited, kSubset
  <1>7. \A i \in hits : i \in DOMAIN w /\ file.records[i] = v[p[i]] /\ p[i] \in all
    BY <1>1, <1>3, <1>4, CompiledFields
  <1>8. \A k \in all : \E i \in hits : p[i] = k
    <2>1. all \subseteq DOMAIN v
      BY DEF AskedFor
    <2> QED
      BY <1>1, <2>1, <1>4
  <1>9. IsFiniteSet(all) /\ Cardinality(all) \in Nat /\ Cardinality(hits) \in Nat
    <2>1. all \in SUBSET DOMAIN v /\ hits \in SUBSET DOMAIN v
      BY <1>1, <1>3 DEF AskedFor
    <2> HIDE DEF all, hits
    <2> QED
      BY <1>1, <2>1, FS_Subset, FS_CardinalityType
  <1> HIDE DEF hits, all, file, w
  <1>10. rows \subseteq {Row(v[i], "cmcf") : i \in all}
    BY <1>2, <1>6, <1>7
  <1>11. ASSUME Cardinality(all) <= q.limit
         PROVE  rows = {Row(v[i], "cmcf") : i \in all}
    <2>1. kept = hits
      BY <1>5, <1>6, <1>9, <1>11
    <2> QED
      BY <1>2, <1>7, <1>8, <2>1
  <1> QED
    BY <1>10, <1>11 DEF all

\* What is compiled of valid records passes validate_csrf_index.
LEMMA CompiledIsValid ==
    ASSUME NEW v, RecordList(v), \A i \in DOMAIN v : ValidRecord(v[i])
    PROVE  RuntimeValid(CompileRecords(v))
  <1> DEFINE w == ById(v)
             file == CompileRecords(v)
  <1>1. \A i \in DOMAIN w : w[i].tier >= 0
    <2>1. PICK p \in [DOMAIN v -> DOMAIN v] :
              /\ \A i \in DOMAIN v : w[i] = v[p[i]]
              /\ DOMAIN w = DOMAIN v
      BY SortedPlaces
    <2>2. \A i \in DOMAIN w : w[i] = v[p[i]] /\ p[i] \in DOMAIN v
      BY <2>1
    <2> QED
      BY <2>2 DEF ValidRecord
  <1>2. file.records = w
    BY CompiledFields
  <1>3. \A i \in DOMAIN w :
               /\ w[i].subject \in DOMAIN file.bySubject /\ i \in file.bySubject[w[i].subject]
               /\ w[i].relation \in DOMAIN file.byRelation /\ i \in file.byRelation[w[i].relation]
               /\ w[i].object \in DOMAIN file.byObject /\ i \in file.byObject[w[i].object]
    BY IndexedUnderItsValue
  <1>4. /\ \A x \in DOMAIN file.bySubject : file.bySubject[x] \subseteq DOMAIN w
        /\ \A x \in DOMAIN file.byRelation : file.byRelation[x] \subseteq DOMAIN w
        /\ \A x \in DOMAIN file.byObject : file.byObject[x] \subseteq DOMAIN w
    BY IndexesInRange
  <1> HIDE DEF file, w
  <1>5. /\ UNION {file.bySubject[x] : x \in DOMAIN file.bySubject} \subseteq DOMAIN w
        /\ UNION {file.byRelation[x] : x \in DOMAIN file.byRelation} \subseteq DOMAIN w
        /\ UNION {file.byObject[x] : x \in DOMAIN file.byObject} \subseteq DOMAIN w
    BY <1>4
  <1>6. RuntimeValid(file)
    BY <1>1, <1>2, <1>3, <1>5 DEF RuntimeValid
  <1> QED
    BY <1>6 DEF file

\* The proof index holds the proof of every record.
LEMMA CompiledProofs ==
    ASSUME NEW v, RecordList(v)
    PROVE  ProofIndex(CompileRecords(v)).proofs = {ProofPath(v[i]) : i \in DOMAIN v}
  <1> DEFINE w == ById(v)
  <1>1. PICK p \in [DOMAIN v -> DOMAIN v] :
              /\ \A i \in DOMAIN v : w[i] = v[p[i]]
              /\ DOMAIN w = DOMAIN v
              /\ \A k \in DOMAIN v : \E i \in DOMAIN v : p[i] = k
    BY SortedPlaces
  <1>2. ProofIndex(CompileRecords(v)).proofs = {ProofPath(w[i]) : i \in DOMAIN w}
    BY CompiledFields DEF ProofIndex
  <1> HIDE DEF w
  <1>3. {ProofPath(w[i]) : i \in DOMAIN w} = {ProofPath(v[i]) : i \in DOMAIN v}
    BY <1>1
  <1> QED
    BY <1>2, <1>3

\* The proof of a claim that vcse proof why prints is one of the records,
\* and none of them has a better one.
LEMMA ProofAnswers ==
    ASSUME NEW v, RecordList(v), NEW id,
           NEW best \in BestProofs(ProofIndex(CompileRecords(v)).proofs, id)
    PROVE  /\ \E i \in DOMAIN v : ProofPath(v[i]) = best
           /\ \A i \in DOMAIN v : v[i].id = best.id => NoWorse(best, v[i])
  <1> DEFINE proofs == {ProofPath(v[i]) : i \in DOMAIN v}
  <1>1. best \in proofs /\ best.id = id /\ \A q \in proofs : q.id = id => NoWorse(best, q)
    BY CompiledProofs DEF BestProofs
  <1>2. \E i \in DOMAIN v : ProofPath(v[i]) = best
    BY <1>1
  <1>3. ASSUME NEW i \in DOMAIN v, v[i].id = best.id
        PROVE  NoWorse(best, v[i])
    <2>1. ProofPath(v[i]) \in proofs
      OBVIOUS
    <2>2. ProofPath(v[i]).id = v[i].id /\ ProofPath(v[i]).status = v[i].status
          /\ ProofPath(v[i]).tier = v[i].tier
      BY DEF ProofPath
    <2>3. NoWorse(best, ProofPath(v[i]))
      BY <1>1, <1>3, <2>1, <2>2
    <2> QED
      BY <2>2, <2>3 DEF NoWorse
  <1> QED
    BY <1>2, <1>3

\* A claim that is reasoned from is one of those in the records.
SameClaim(c, x) ==
    /\ c.subject = x.subject /\ c.relation = x.relation /\ c.object = x.object
    /\ c.id = x.id /\ c.tier = x.tier /\ c.pack = x.pack

\* A finite number of claims, whose tiers and places are numbers.
ClaimSet(claims) ==
    /\ IsFiniteSet(claims)
    /\ \A a \in claims : a.tier \in Int /\ Alphabetical(a.object) \in Int /\ a.at[1] \in Int /\ a.at[2] \in Int

LEMMA ClaimFields ==
    ASSUME NEW r, NEW from, NEW directory, NEW line
    PROVE  LET c == Claim(r, from, directory, line)
           IN  /\ SameClaim(c, Row(r, from)) /\ c.at[1] = directory /\ c.at[2] = line
               /\ c.tier = r.tier /\ c.object = r.object
  BY DEF Claim, SameClaim, Row

\* Records that a version may hold.
Rated(v) == RecordList(v) /\ \A i \in DOMAIN v : v[i].tier \in Int /\ Alphabetical(v[i].object) \in Int

\* Reasoning starts from the claims of the records that were compiled.
LEMMA CompiledClaimsAre ==
    ASSUME NEW v, Rated(v), NEW trusted
    PROVE  LET claims == CompiledClaims(CompileRecords(v), trusted)
           IN  /\ ClaimSet(claims)
               /\ \A c \in claims : \E x \in ClaimsOf(v, trusted) : SameClaim(c, x)
               /\ \A x \in ClaimsOf(v, trusted) : \E c \in claims : SameClaim(c, x)
  <1> DEFINE w == ById(v)
             used(s) == {i \in DOMAIN s : trusted => s[i].lifecycle \in TrustedStatuses}
             claim(i) == Claim(w[i], "cmcf", 0, i)
             claims == CompiledClaims(CompileRecords(v), trusted)
  <1>1. PICK p \in [DOMAIN v -> DOMAIN v] :
              /\ IsFiniteSet(DOMAIN v)
              /\ \A i \in DOMAIN v : w[i] = v[p[i]]
              /\ DOMAIN w = DOMAIN v
              /\ \A k \in DOMAIN v : \E i \in DOMAIN v : p[i] = k
    BY SortedPlaces DEF Rated
  <1>2. claims = {claim(i) : i \in used(w)}
    BY CompiledFields DEF CompiledClaims
  <1>3. \A i \in used(w) : i \in DOMAIN v /\ p[i] \in used(v) /\ w[i] = v[p[i]]
    BY <1>1
  <1>4. \A k \in used(v) : \E i \in used(w) : w[i] = v[k]
    BY <1>1
  <1>5. DOMAIN v \subseteq Int
    BY LenProperties DEF Rated, RecordList
  <1>6. IsFiniteSet(claims)
    <2>1. used(w) \in SUBSET DOMAIN v
      BY <1>3
    <2> HIDE DEF used, w, claims
    <2>2. IsFiniteSet(used(w))
      BY <1>1, <2>1, FS_Subset
    <2> DEFINE f == [i \in used(w) |-> claim(i)]
    <2>3. claims = {f[i] : i \in used(w)}
      BY <1>2
    <2> HIDE DEF f, claim
    <2> QED
      BY <2>2, <2>3, ImageFinite
  <1>7. ClaimsOf(v, trusted) = {Row(v[k], "cmcf") : k \in used(v)}
    BY DEF ClaimsOf
  <1> HIDE DEF used, w
  <1>8. ASSUME NEW i \in used(w)
        PROVE  /\ claim(i).tier \in Int /\ Alphabetical(claim(i).object) \in Int
               /\ claim(i).at[1] \in Int /\ claim(i).at[2] \in Int
               /\ SameClaim(claim(i), Row(w[i], "cmcf"))
    <2>1. /\ SameClaim(claim(i), Row(w[i], "cmcf")) /\ claim(i).at[1] = 0 /\ claim(i).at[2] = i
          /\ claim(i).tier = w[i].tier /\ claim(i).object = w[i].object
      BY ClaimFields
    <2>2. w[i].tier \in Int /\ Alphabetical(w[i].object) \in Int /\ i \in Int
      BY <1>1, <1>3, <1>5 DEF Rated
    <2> HIDE DEF claim
    <2> QED
      BY <2>1, <2>2
  <1> HIDE DEF claim, claims
  <1>9. ClaimSet(claims)
    BY <1>2, <1>6, <1>8 DEF ClaimSet
  <1>10. \A c \in claims : \E x \in ClaimsOf(v, trusted) : SameClaim(c, x)
    BY <1>2, <1>3, <1>7, <1>8
  <1>11. \A x \in ClaimsOf(v, trusted) : \E c \in claims : SameClaim(c, x)
    BY <1>2, <1>4, <1>7, <1>8
  <1> QED
    BY <1>9, <1>10, <1>11 DEF claims

\* A row keeps the fields of what it is a row of.
LEMMA RowFields ==
    ASSUME NEW r, NEW from
    PROVE  /\ Row(r, from).subject = r.subject /\ Row(r, from).relation = r.relation
           /\ Row(r, from).object = r.object /\ Row(r, from).id = r.id /\ Row(r, from).tier = r.tier
           /\ Row(r, from).lifecycle = r.lifecycle /\ Row(r, from).pack = from
           /\ Row(Row(r, from), Row(r, from).pack) = Row(r, from)
           /\ "status" \notin DOMAIN Row(r, from)
  BY DEF Row

LEMMA MinOfTwo ==
    ASSUME NEW x \in Int, NEW y \in Int
    PROVE  Min({x, y}) <= x /\ Min({x, y}) <= y
  <1>1. \E z \in {x, y} : \A u \in {x, y} : z =< u
    OBVIOUS
  <1> QED
    BY <1>1 DEF Min

\* An inference is of two claims, and no more trusted than they.
LEMMA Inferred ==
    ASSUME NEW claims, NEW i \in CrossPackReason(claims)
    PROVE  /\ i.status = "UNVERIFIED"
           /\ \E a, b \in claims :
                /\ Joins(a, b) /\ i.from = <<Named(a), Named(b)>>
                /\ i.subject = a.subject /\ i.object = b.object
                /\ (a.tier \in Int /\ b.tier \in Int) => i.tier <= a.tier /\ i.tier <= b.tier
  <1>1. PICK p \in claims \X claims :
          /\ Joins(p[1], p[2])
          /\ i = [subject |-> p[1].subject, relation |-> "is", object |-> p[2].object,
                  tier |-> Min({p[1].tier, p[2].tier}), from |-> <<Named(p[1]), Named(p[2])>>,
                  status |-> "UNVERIFIED", proofs |-> 2]
    BY DEF CrossPackReason
  <1>2. /\ i.from = <<Named(p[1]), Named(p[2])>> /\ i.tier = Min({p[1].tier, p[2].tier})
        /\ i.subject = p[1].subject /\ i.object = p[2].object /\ i.status = "UNVERIFIED"
    BY <1>1
  <1>3. (p[1].tier \in Int /\ p[2].tier \in Int) => i.tier <= p[1].tier /\ i.tier <= p[2].tier
    BY <1>2, MinOfTwo
  <1>4. p[1] \in claims /\ p[2] \in claims
    OBVIOUS
  <1> QED
    BY <1>1, <1>2, <1>3, <1>4

\* Of two claims that imply a third one there is an inference with their ids:
\* of all pairs that go by them one comes last.
LEMMA EveryInference ==
    ASSUME NEW claims, ClaimSet(claims), NEW x \in claims, NEW y \in claims, Joins(x, y)
    PROVE  \E i \in CrossPackReason(claims) :
              /\ i.subject = x.subject /\ i.object = y.object
              /\ i.from[1].id = x.id /\ i.from[2].id = y.id
  <1> DEFINE joined == {p \in claims \X claims : Joins(p[1], p[2])}
             key(p) == <<p[1].subject, p[2].object, p[1].pack, p[1].id, p[2].pack, p[2].id>>
             later(p, q) == ComesAfter(p[1], q[1]) \/ (p[1] = q[1] /\ ComesAfter(p[2], q[2]))
             last == {p \in joined : \A q \in joined : key(q) = key(p) => ~later(q, p)}
             inference(p) ==
               [subject |-> p[1].subject, relation |-> "is", object |-> p[2].object,
                tier |-> Min({p[1].tier, p[2].tier}), from |-> <<Named(p[1]), Named(p[2])>>,
                status |-> "UNVERIFIED", proofs |-> 2]
             S == {p \in joined : key(p) = key(<<x, y>>)}
             R == {r \in S \X S : later(r[1], r[2])}
  <1>1. CrossPackReason(claims) = {inference(p) : p \in last}
    BY DEF CrossPackReason
  <1>2. <<x, y>> \in S /\ S \in SUBSET (claims \X claims)
    OBVIOUS
  <1>3. IsFiniteSet(S)
    <2>1. IsFiniteSet(claims \X claims)
      BY FS_Product DEF ClaimSet
    <2> HIDE DEF S
    <2> QED
      BY <1>2, <2>1, FS_Subset
  <1>4. \A a \in claims : ~ComesAfter(a, a)
    BY DEF ComesAfter, ClaimSet
  <1>5. \A a, b, c \in claims : ComesAfter(a, b) /\ ComesAfter(b, c) => ComesAfter(a, c)
    BY DEF ComesAfter, ClaimSet
  <1>6. \A p \in S : p[1] \in claims /\ p[2] \in claims
    BY <1>2
  <1>7. \A p \in S : ~later(p, p)
    BY <1>4, <1>6
  <1>8. \A p, q, r \in S : later(p, q) /\ later(q, r) => later(p, r)
    BY <1>5, <1>6
  <1>9. \A p, q \in S : <<p, q>> \in R <=> later(p, q)
    OBVIOUS
  <1>10. PICK p \in S : \A q \in S : <<q, p>> \notin R
    <2> HIDE DEF S, R, later
    <2>1. S # {}
      BY <1>2
    <2>2. \A q \in S : <<q, q>> \notin R
      BY <1>7, <1>9
    <2>3. \A q, r, t \in S : <<q, r>> \in R /\ <<r, t>> \in R => <<q, t>> \in R
      BY <1>8, <1>9
    <2> QED
      BY <1>3, <2>1, <2>2, <2>3, SomeComeLast
  <1>11. p \in joined /\ key(p) = key(<<x, y>>)
    BY <1>10
  <1>12. p \in last
    <2> SUFFICES ASSUME NEW q \in joined, key(q) = key(p)
                 PROVE  ~later(q, p)
      BY <1>11
    <2>1. q \in S
      BY <1>11
    <2> QED
      BY <1>9, <1>10, <2>1
  <1>13. p[1].subject = x.subject /\ p[2].object = y.object /\ p[1].id = x.id /\ p[2].id = y.id
    BY <1>11
  <1>14. inference(p) \in CrossPackReason(claims)
    <2> HIDE DEF last
    <2> QED
      BY <1>1, <1>12
  <1> HIDE DEF joined, last, S, R, key, later
  <1>15. inference(p).from[1].id = p[1].id /\ inference(p).from[2].id = p[2].id
    BY DEF Named
  <1>16. inference(p).subject = p[1].subject /\ inference(p).object = p[2].object
    OBVIOUS
  <1> HIDE DEF inference
  <1> QED
    BY <1>13, <1>14, <1>15, <1>16

\* What a limit keeps of the claims a question about packs finds.
LEMMA PackAnswersFrom ==
    ASSUME NEW packs, NEW q, NEW rows \in QueryPacks(packs, q)
    PROVE  \A row \in rows : \E p \in packs : \E i \in DOMAIN p.rows :
              /\ row = Row(PackRecords(p)[i], p.id)
              /\ q.trusted => p.lifecycle \in TrustedStatuses
              /\ ~q.inferred => ~p.rows[i].derived
  <1> DEFINE usable(p) == q.trusted => p.lifecycle \in TrustedStatuses
             seen(r) == /\ ~q.inferred => ~r.derived
                        /\ PolicyAllows(q.policy, r.relation)
                        /\ Matches(r, q)
             hits == UNION {{p} \X {i \in DOMAIN p.rows : seen(p.rows[i])} : p \in {p \in packs : usable(p)}}
  <1>1. PICK kept \in Limited(hits, q.limit) : rows = {Row(PackRecords(h[1])[h[2]], h[1].id) : h \in kept}
    BY DEF QueryPacks
  <1>2. kept \subseteq hits
    BY DEF Limited, kSubset
  <1>3. \A h \in hits : h[1] \in packs /\ usable(h[1]) /\ h[2] \in DOMAIN h[1].rows /\ seen(h[1].rows[h[2]])
    OBVIOUS
  <1> HIDE DEF hits
  <1>4. TAKE row \in rows
  <1>5. PICK h \in hits : row = Row(PackRecords(h[1])[h[2]], h[1].id)
    BY <1>1, <1>2
  <1>6. h[1] \in packs /\ usable(h[1]) /\ h[2] \in DOMAIN h[1].rows /\ seen(h[1].rows[h[2]])
    BY <1>3
  <1> QED
    BY <1>5, <1>6

\* The records a pack is read as.
LEMMA PackRecordFields ==
    ASSUME NEW p, NEW i \in DOMAIN p.rows
    PROVE  /\ DOMAIN PackRecords(p) = DOMAIN p.rows
           /\ \A f \in {"id", "subject", "relation", "object", "tier"} : PackRecords(p)[i][f] = p.rows[i][f]
           /\ PackRecords(p)[i].lifecycle = p.lifecycle
           /\ PackRecords(p)[i].id = p.rows[i].id
  BY DEF PackRecords

LEMMA PackRecordsAre ==
    ASSUME NEW p \in ShelfPacks
    PROVE  RecordList(PackRecords(p))
  <1>1. p.rows \in Seq(ToSet(p.rows)) /\ \A i \in DOMAIN p.rows : p.rows[i].id \in Int
    BY RecordsAssumption
  <1>2. Len(p.rows) \in Nat /\ DOMAIN p.rows = 1..Len(p.rows)
    BY <1>1, LenProperties
  <1>3. DOMAIN PackRecords(p) = 1..Len(p.rows)
    BY <1>2 DEF PackRecords
  <1>4. PackRecords(p) = [i \in 1..Len(p.rows) |-> PackRecords(p)[i]]
    BY <1>2 DEF PackRecords
  <1>5. \A i \in 1..Len(p.rows) : PackRecords(p)[i] \in ToSet(PackRecords(p))
    BY <1>3 DEF ToSet
  <1>6. PackRecords(p) \in Seq(ToSet(PackRecords(p)))
    BY <1>2, <1>4, <1>5, SeqDef
  <1>7. \A i \in DOMAIN PackRecords(p) : PackRecords(p)[i].id \in Int
    BY <1>1, <1>2, <1>3, PackRecordFields
  <1> QED
    BY <1>6, <1>7 DEF RecordList

-----------------------------------------------------------------------------
(* What the processes are about to write and what the files hold.         *)

\* Records that vcse compile csrf does not refuse.
Compilable(v) == v # << >> /\ \A i \in DOMAIN v : ValidRecord(v[i])

\* What a save of one of the files may be about to write or have written.
MadeOf(which, content, canons) ==
    \E v \in canons :
        /\ Compilable(v)
        /\ content = IF which = "csrf" THEN CompileRecords(v) ELSE ProofIndex(CompileRecords(v))

Saving(j, canons) ==
    /\ j.step \in {"open", "fill"} /\ j.file \in {"csrf", "proofs"}
    /\ j = [step |-> j.step, file |-> j.file, content |-> j.content]
    /\ MadeOf(j.file, j.content, canons)

\* Between the two reads of vcse reason.
Reasoning(j, canons) ==
    /\ j.step = "second"
    /\ j = [step |-> "second", trusted |-> j.trusted, policy |-> j.policy, inferred |-> j.inferred]
    /\ \E v \in canons : Compilable(v) /\ j.inferred = CrossPackReason(CompiledClaims(CompileRecords(v), j.trusted))

JobHolds(j, canons) == j = Ready \/ Saving(j, canons) \/ Reasoning(j, canons)

\* Two reads of the file are of one file unless commands clashed.
Unclashed(clients, files) ==
    /\ \A c, d \in Clients : clients[c].step = "fill" /\ clients[d].step = "fill" => c = d
    /\ \A c \in Clients : clients[c].step = "fill" => files[clients[c].file] = CutFile
    /\ \A c \in Clients : clients[c].step = "second" =>
          /\ files["csrf"] # CutFile
          /\ clients[c].inferred = CrossPackReason(CompiledClaims(files["csrf"], clients[c].trusted))

\* The inductive invariant: every file is cut or holds what one version of
\* the records compiles to, and so does what a process is about to save or
\* has inferred; and the two reads of vcse reason see one file unless a save
\* came between.
RuntimeInvariant ==
    /\ canon \in past.canons /\ past.canons \subseteq CanonFiles
    /\ past = [canons |-> past.canons, clash |-> past.clash]
    /\ image = [f \in {"csrf", "proofs"} |-> image[f]]
    /\ \A f \in {"csrf", "proofs"} : image[f] = CutFile \/ MadeOf(f, image[f], past.canons)
    /\ client = [c \in Clients |-> client[c]]
    /\ \A c \in Clients : JobHolds(client[c], past.canons)
    /\ past.clash \/ Unclashed(client, image)

-----------------------------------------------------------------------------
(* Each answer, of what it is taken from.                                 *)

LEMMA NotAVersion ==
    ASSUME NEW a, NEW canons, NEW clash, "explained" \notin DOMAIN a,
           a.kind \in {"none", "saved", "error"}, a.kind = "error" => a.what # "runtime invalid"
    PROVE  AnswersComeFromOneVersion(a, canons) /\ ReasonsFromItsInput(a, clash)
  BY DEF AnswersComeFromOneVersion, ReasonsFromItsInput

LEMMA QuietReplies ==
    ASSUME NEW canons, NEW clash
    PROVE  /\ AnswersComeFromOneVersion(NoReply, canons) /\ ReasonsFromItsInput(NoReply, clash)
           /\ LET a == [kind |-> "saved"] IN AnswersComeFromOneVersion(a, canons) /\ ReasonsFromItsInput(a, clash)
           /\ \A what \in {"cmcf", "csrf", "policy", "proofs"} :
                LET a == Failure(what) IN AnswersComeFromOneVersion(a, canons) /\ ReasonsFromItsInput(a, clash)
  <1>1. "explained" \notin DOMAIN NoReply /\ NoReply.kind = "none"
    BY DEF NoReply
  <1>2. LET a == [kind |-> "saved"] IN "explained" \notin DOMAIN a /\ a.kind = "saved"
    OBVIOUS
  <1>3. \A what \in {"cmcf", "csrf", "policy", "proofs"} :
            LET a == Failure(what) IN "explained" \notin DOMAIN a /\ a.kind = "error" /\ a.what # "runtime invalid"
    BY DEF Failure
  <1> QED
    BY <1>1, <1>2, <1>3, NotAVersion

LEMMA ExplainedRows ==
    ASSUME NEW rows, \A r \in rows : "status" \notin DOMAIN r
    PROVE  "VERIFIED" \notin {ExplainClaim(r) : r \in rows}
  BY DEF ExplainClaim

LEMMA RowsHold ==
    ASSUME NEW canons, NEW clash, NEW v \in canons, RecordList(v), NEW q, q.limit \in Nat, PolicyLoads(q.policy),
           NEW rows \in QueryCompiled(CompileRecords(v), q)
    PROVE  LET a == [kind |-> "csrf rows", question |-> q, rows |-> rows,
                     explained |-> {ExplainClaim(r) : r \in rows}]
           IN  AnswersComeFromOneVersion(a, canons) /\ ReasonsFromItsInput(a, clash)
  <1> DEFINE a == [kind |-> "csrf rows", question |-> q, rows |-> rows,
                   explained |-> {ExplainClaim(r) : r \in rows}]
  <1>1. /\ rows \subseteq {Row(v[i], "cmcf") : i \in AskedFor(v, q)}
        /\ Cardinality(AskedFor(v, q)) <= q.limit => rows = {Row(v[i], "cmcf") : i \in AskedFor(v, q)}
    BY CompiledAnswers
  <1>2. "VERIFIED" \notin a.explained
    <2>1. \A r \in rows : "status" \notin DOMAIN r
      BY <1>1, RowFields
    <2> QED
      BY <2>1, ExplainedRows
  <1>3. a.kind = "csrf rows" /\ a.question = q /\ a.rows = rows
    OBVIOUS
  <1> HIDE DEF a
  <1>4. AnswersComeFromOneVersion(a, canons)
    BY <1>1, <1>2, <1>3 DEF AnswersComeFromOneVersion
  <1>5. ReasonsFromItsInput(a, clash)
    BY <1>3 DEF ReasonsFromItsInput
  <1> QED
    BY <1>4, <1>5 DEF a

LEMMA ProofHolds ==
    ASSUME NEW canons, NEW clash, NEW v \in canons, RecordList(v), NEW id,
           NEW best \in BestProofs(ProofIndex(CompileRecords(v)).proofs, id)
    PROVE  LET a == [kind |-> "proof", proof |-> best]
           IN  AnswersComeFromOneVersion(a, canons) /\ ReasonsFromItsInput(a, clash)
  <1> DEFINE a == [kind |-> "proof", proof |-> best]
  <1>1. /\ \E i \in DOMAIN v : ProofPath(v[i]) = best
        /\ \A i \in DOMAIN v : v[i].id = best.id => NoWorse(best, v[i])
    BY ProofAnswers
  <1>2. a.kind = "proof" /\ a.proof = best /\ "explained" \notin DOMAIN a
    OBVIOUS
  <1> HIDE DEF a
  <1>3. AnswersComeFromOneVersion(a, canons)
    BY <1>1, <1>2 DEF AnswersComeFromOneVersion
  <1>4. ReasonsFromItsInput(a, clash)
    BY <1>2 DEF ReasonsFromItsInput
  <1> QED
    BY <1>3, <1>4 DEF a

LEMMA ReasonedFields ==
    ASSUME NEW trusted, NEW policy, NEW input, NEW inferred, \A i \in inferred : i.status = "UNVERIFIED"
    PROVE  LET a == Reasoned(trusted, policy, input, inferred)
               b == [a EXCEPT !.kind = "reasoned packs"]
           IN  /\ a.kind = "reasoned" /\ a.trusted = trusted /\ a.policy = policy /\ a.input = input
               /\ a.inferred = inferred /\ "VERIFIED" \notin a.explained
               /\ b.kind = "reasoned packs" /\ b.policy = policy /\ b.input = input /\ b.inferred = inferred
               /\ "VERIFIED" \notin b.explained
  <1>1. "VERIFIED" \notin {ExplainInferred(i) : i \in inferred}
    BY DEF ExplainInferred
  <1> QED
    BY <1>1 DEF Reasoned

\* What is inferred of a version's claims follows from them, and is all.
LEMMA ReasonedHolds ==
    ASSUME NEW canons, NEW clash, NEW v \in canons, Rated(v), NEW trusted, NEW policy, NEW input,
           clash \/ \A i \in CrossPackReason(CompiledClaims(CompileRecords(v), trusted)) : \A n \in 1..2 :
                      (\E c \in input : Named(c) = i.from[n]) \/ Blocks(policy, i.from[n].relation)
    PROVE  LET a == Reasoned(trusted, policy, input, CrossPackReason(CompiledClaims(CompileRecords(v), trusted)))
           IN  AnswersComeFromOneVersion(a, canons) /\ ReasonsFromItsInput(a, clash)
  <1> DEFINE claims == CompiledClaims(CompileRecords(v), trusted)
             records == ClaimsOf(v, trusted)
             inferred == CrossPackReason(claims)
             a == Reasoned(trusted, policy, input, inferred)
  <1>1. /\ ClaimSet(claims)
        /\ \A c \in claims : \E x \in records : SameClaim(c, x)
        /\ \A x \in records : \E c \in claims : SameClaim(c, x)
    BY CompiledClaimsAre
  <1>2. clash \/ \A i \in inferred : \A n \in 1..2 :
                      (\E c \in input : Named(c) = i.from[n]) \/ Blocks(policy, i.from[n].relation)
    OBVIOUS
  <1> HIDE DEF claims, records
  <1>3. ASSUME NEW c, NEW d, NEW x, NEW y, SameClaim(c, x), SameClaim(d, y)
        PROVE  (Joins(c, d) <=> Joins(x, y)) /\ Named(c) = Named(x)
    BY <1>3 DEF SameClaim, Joins, Named
  <1>4. ASSUME NEW i \in inferred
        PROVE  \E x, y \in records :
                 /\ Joins(x, y) /\ i.from = <<Named(x), Named(y)>>
                 /\ i.subject = x.subject /\ i.object = y.object
                 /\ i.tier <= x.tier /\ i.tier <= y.tier
    <2>1. PICK c \in claims, d \in claims :
                /\ Joins(c, d) /\ i.from = <<Named(c), Named(d)>>
                /\ i.subject = c.subject /\ i.object = d.object
                /\ (c.tier \in Int /\ d.tier \in Int) => i.tier <= c.tier /\ i.tier <= d.tier
      BY Inferred
    <2>2. PICK x \in records, y \in records : SameClaim(c, x) /\ SameClaim(d, y)
      BY <1>1
    <2>3. Joins(x, y) /\ Named(c) = Named(x) /\ Named(d) = Named(y)
      BY <1>3, <2>1, <2>2
    <2>4. /\ i.subject = x.subject /\ i.object = y.object
          /\ i.tier <= x.tier /\ i.tier <= y.tier
      BY <1>1, <2>1, <2>2 DEF SameClaim, ClaimSet
    <2> QED
      BY <2>1, <2>3, <2>4
  <1>5. ASSUME NEW x \in records, NEW y \in records, Joins(x, y)
        PROVE  \E i \in inferred : /\ i.subject = x.subject /\ i.object = y.object
                                  /\ i.from[1].id = x.id /\ i.from[2].id = y.id
    <2>1. PICK c \in claims, d \in claims : SameClaim(c, x) /\ SameClaim(d, y)
      BY <1>1
    <2>2. Joins(c, d)
      BY <1>3, <1>5, <2>1
    <2>3. PICK i \in inferred : /\ i.subject = c.subject /\ i.object = d.object
                               /\ i.from[1].id = c.id /\ i.from[2].id = d.id
      BY <1>1, <2>2, EveryInference
    <2>4. c.subject = x.subject /\ c.id = x.id /\ d.object = y.object /\ d.id = y.id
      BY <2>1 DEF SameClaim
    <2> HIDE DEF inferred
    <2> QED
      BY <2>3, <2>4
  <1>6. \A i \in inferred : i.status = "UNVERIFIED"
    BY Inferred
  <1> HIDE DEF inferred
  <1>7. /\ a.kind = "reasoned" /\ a.trusted = trusted /\ a.policy = policy /\ a.input = input
        /\ a.inferred = inferred /\ "VERIFIED" \notin a.explained
    BY <1>6, ReasonedFields
  <1>8. records = ClaimsOf(v, a.trusted)
    BY <1>7 DEF records
  <1> HIDE DEF a
  <1>9. AnswersComeFromOneVersion(a, canons)
    BY <1>4, <1>5, <1>7, <1>8 DEF AnswersComeFromOneVersion
  <1>10. ReasonsFromItsInput(a, clash)
    BY <1>2, <1>7 DEF ReasonsFromItsInput
  <1> QED
    BY <1>9, <1>10 DEF a, inferred, claims

LEMMA PacksReasonedHolds ==
    ASSUME NEW canons, NEW clash, NEW packs, NEW trusted, NEW policy, PolicyLoads(policy)
    PROVE  LET input == Permitted(GraphClaims(packs, trusted), policy)
               a == [Reasoned(trusted, policy, input, CrossPackReason(input)) EXCEPT !.kind = "reasoned packs"]
           IN  AnswersComeFromOneVersion(a, canons) /\ ReasonsFromItsInput(a, clash)
  <1> DEFINE input == Permitted(GraphClaims(packs, trusted), policy)
             inferred == CrossPackReason(input)
             a == [Reasoned(trusted, policy, input, inferred) EXCEPT !.kind = "reasoned packs"]
  <1>1. \A x \in input : ~Blocks(policy, x.relation)
    BY DEF Permitted, PolicyAllows, Blocks, PolicyLoads
  <1> HIDE DEF input
  <1>2. ASSUME NEW i \in inferred
        PROVE  /\ i.status = "UNVERIFIED"
               /\ \A n \in 1..2 : (\E c \in input : Named(c) = i.from[n]) /\ ~Blocks(policy, i.from[n].relation)
    <2>1. PICK c \in input, d \in input : i.from = <<Named(c), Named(d)>>
      BY Inferred
    <2>2. i.from[1] = Named(c) /\ i.from[2] = Named(d)
      BY <2>1
    <2>3. Named(c).relation = c.relation /\ Named(d).relation = d.relation
      BY DEF Named
    <2>4. ASSUME NEW n \in 1..2
          PROVE  (\E k \in input : Named(k) = i.from[n]) /\ ~Blocks(policy, i.from[n].relation)
      <3>1. CASE n = 1
        BY <1>1, <2>2, <2>3, <3>1
      <3>2. CASE n = 2
        BY <1>1, <2>2, <2>3, <3>2
      <3> QED
        BY <3>1, <3>2
    <2>5. i.status = "UNVERIFIED"
      BY Inferred
    <2> QED
      BY <2>4, <2>5
  <1> HIDE DEF inferred
  <1>3. /\ a.kind = "reasoned packs" /\ a.policy = policy /\ a.inferred = inferred /\ a.input = input
        /\ "VERIFIED" \notin a.explained
    BY <1>2, ReasonedFields
  <1> HIDE DEF a
  <1>4. AnswersComeFromOneVersion(a, canons)
    BY <1>3 DEF AnswersComeFromOneVersion
  <1>5. ReasonsFromItsInput(a, clash)
    BY <1>2, <1>3 DEF ReasonsFromItsInput
  <1> QED
    BY <1>4, <1>5 DEF a, inferred, input

LEMMA PackRowsHold ==
    ASSUME NEW canons, NEW clash, NEW packs, NEW q, NEW rows \in QueryPacks(packs, q)
    PROVE  LET a == [kind |-> "pack rows", question |-> q, packs |-> packs, rows |-> rows]
           IN  AnswersComeFromOneVersion(a, canons) /\ ReasonsFromItsInput(a, clash)
  <1> DEFINE a == [kind |-> "pack rows", question |-> q, packs |-> packs, rows |-> rows]
  <1>1. a.kind = "pack rows" /\ a.question = q /\ a.packs = packs /\ a.rows = rows /\ "explained" \notin DOMAIN a
    OBVIOUS
  <1>2. ASSUME NEW row \in rows
        PROVE  \E p \in packs : \E i \in DOMAIN p.rows :
                 /\ \A f \in {"id", "subject", "relation", "object", "tier"} : row[f] = p.rows[i][f]
                 /\ row.lifecycle = p.lifecycle
                 /\ q.trusted => p.lifecycle \in TrustedStatuses
                 /\ p.rows[i].derived => q.inferred
    <2>1. PICK p \in packs : \E i \in DOMAIN p.rows :
              /\ row = Row(PackRecords(p)[i], p.id)
              /\ q.trusted => p.lifecycle \in TrustedStatuses
              /\ ~q.inferred => ~p.rows[i].derived
      BY PackAnswersFrom
    <2>2. PICK i \in DOMAIN p.rows :
              /\ row = Row(PackRecords(p)[i], p.id)
              /\ q.trusted => p.lifecycle \in TrustedStatuses
              /\ ~q.inferred => ~p.rows[i].derived
      BY <2>1
    <2>3. /\ \A f \in {"id", "subject", "relation", "object", "tier"} : row[f] = p.rows[i][f]
          /\ row.lifecycle = p.lifecycle
      BY <2>2, RowFields, PackRecordFields
    <2> QED
      BY <2>2, <2>3
  <1> HIDE DEF a
  <1>3. AnswersComeFromOneVersion(a, canons)
    BY <1>1, <1>2 DEF AnswersComeFromOneVersion
  <1>4. ReasonsFromItsInput(a, clash)
    BY <1>1 DEF ReasonsFromItsInput
  <1> QED
    BY <1>3, <1>4 DEF a

LEMMA CompiledPackHolds ==
    ASSUME NEW canons, NEW clash, NEW p \in ShelfPacks, NEW q, q.limit \in Nat, PolicyLoads(q.policy),
           NEW rows \in QueryCompiled(CompileRecords(PackRecords(p)), q)
    PROVE  LET a == [kind |-> "compiled pack rows", question |-> q, packs |-> {p}, rows |-> rows]
           IN  AnswersComeFromOneVersion(a, canons) /\ ReasonsFromItsInput(a, clash)
  <1> DEFINE a == [kind |-> "compiled pack rows", question |-> q, packs |-> {p}, rows |-> rows]
             v == PackRecords(p)
  <1>1. /\ a.kind = "compiled pack rows" /\ a.question = q /\ a.packs = {p} /\ a.rows = rows
        /\ "explained" \notin DOMAIN a
    OBVIOUS
  <1>2. rows \subseteq {Row(v[i], "cmcf") : i \in AskedFor(v, q)}
    BY PackRecordsAre, CompiledAnswers
  <1>3. ASSUME NEW row \in rows
        PROVE  \E i \in DOMAIN p.rows :
                 /\ \A f \in {"id", "subject", "relation", "object", "tier"} : row[f] = p.rows[i][f]
                 /\ row.lifecycle = p.lifecycle
                 /\ q.trusted => p.lifecycle \in TrustedStatuses
    <2>1. PICK i \in AskedFor(v, q) : row = Row(v[i], "cmcf")
      BY <1>2
    <2>2. i \in DOMAIN p.rows /\ (q.trusted => v[i].lifecycle \in TrustedStatuses)
      BY PackRecordFields DEF AskedFor, PackRecords
    <2>3. /\ \A f \in {"id", "subject", "relation", "object", "tier"} : row[f] = p.rows[i][f]
          /\ row.lifecycle = p.lifecycle /\ v[i].lifecycle = p.lifecycle
      BY <2>1, <2>2, RowFields, PackRecordFields
    <2> QED
      BY <2>2, <2>3
  <1> HIDE DEF a
  <1>4. AnswersComeFromOneVersion(a, canons)
    BY <1>1, <1>3 DEF AnswersComeFromOneVersion
  <1>5. ReasonsFromItsInput(a, clash)
    BY <1>1 DEF ReasonsFromItsInput
  <1> QED
    BY <1>4, <1>5 DEF a

-----------------------------------------------------------------------------
(* Each step keeps the invariant, and what it answers holds.              *)

AnswerHolds == AnswersComeFromOneVersion(reply, past.canons) /\ ReasonsFromItsInput(reply, past.clash)

LEMMA VersionsAre ==
    ASSUME NEW v \in CanonFiles
    PROVE  RecordList(v) /\ Rated(v)
  BY RecordsAssumption DEF RecordList, Rated

LEMMA CutIsNotWhole == ASSUME NEW v PROVE CompileRecords(v) # CutFile /\ CompileRecords(v).whole = TRUE
                                          /\ ProofIndex(v).whole = TRUE /\ CutFile.whole = FALSE
  <1>1. CompileRecords(v).whole = TRUE
    BY CompiledFields
  <1>2. ProofIndex(v).whole = TRUE /\ CutFile.whole = FALSE
    BY DEF ProofIndex, CutFile
  <1> QED
    BY <1>1, <1>2

LEMMA JobSteps ==
    ASSUME NEW j, NEW canons
    PROVE  /\ Saving(j, canons) => j.step \in {"open", "fill"}
           /\ Reasoning(j, canons) => j.step = "second"
           /\ Ready.step = "ready"
  BY DEF Saving, Reasoning, Ready

\* More canonical records leave what is under way as it was.
LEMMA JobsStay ==
    ASSUME NEW j, NEW canons, NEW more, canons \subseteq more, JobHolds(j, canons)
    PROVE  JobHolds(j, more)
  BY DEF JobHolds, Saving, Reasoning, MadeOf

LEMMA ClientStepped ==
    ASSUME client = [c \in Clients |-> client[c]], NEW c \in Clients, NEW j
    PROVE  LET next == [client EXCEPT ![c] = j]
           IN  /\ next = [d \in Clients |-> next[d]]
               /\ next[c] = j
               /\ \A d \in Clients \ {c} : next[d] = client[d]
  OBVIOUS

\* A command that ends, or fails, with the files as they were.
LEMMA Ends ==
    ASSUME RuntimeInvariant, NEW c \in Clients, client' = [client EXCEPT ![c] = Ready],
           UNCHANGED <<canon, image, past>>
    PROVE  RuntimeInvariant'
  <1> USE DEF RuntimeInvariant
  <1>1. client'[c] = Ready /\ (\A d \in Clients \ {c} : client'[d] = client[d])
        /\ client' = [d \in Clients |-> client'[d]]
    BY ClientStepped
  <1>2. \A d \in Clients : JobHolds(client'[d], past.canons)
    BY <1>1 DEF JobHolds
  <1>3. past.clash \/ Unclashed(client', image)
    <2>1. \A d \in Clients : client'[d].step \in {"fill", "second"} => client'[d] = client[d]
      BY <1>1, JobSteps
    <2> QED
      BY <2>1 DEF Unclashed
  <1> QED
    BY <1>1, <1>2, <1>3

LEMMA Saves ==
    ASSUME RuntimeInvariant, NEW c \in Clients, NEW which \in {"csrf", "proofs"}, NEW content,
           MadeOf(which, content, past.canons), ToSave(c, which, content), UNCHANGED <<canon, image, past>>
    PROVE  RuntimeInvariant' /\ AnswerHolds'
  <1> USE DEF RuntimeInvariant
  <1> DEFINE j == [step |-> "open", file |-> which, content |-> content]
  <1>0. client' = [client EXCEPT ![c] = j] /\ reply' = NoReply
    BY DEF ToSave
  <1>1. client'[c] = j /\ (\A d \in Clients \ {c} : client'[d] = client[d])
        /\ client' = [d \in Clients |-> client'[d]]
    BY <1>0, ClientStepped
  <1>2. Saving(j, past.canons) /\ j.step = "open"
    BY DEF Saving
  <1> HIDE DEF j
  <1>3. \A d \in Clients : JobHolds(client'[d], past.canons)
    BY <1>1, <1>2 DEF JobHolds
  <1>4. past.clash \/ Unclashed(client', image)
    <2>1. \A d \in Clients : client'[d].step \in {"fill", "second"} => client'[d] = client[d]
      BY <1>1, <1>2
    <2> QED
      BY <2>1 DEF Unclashed
  <1>5. RuntimeInvariant'
    BY <1>1, <1>3, <1>4
  <1>6. AnswerHolds'
    BY <1>0, QuietReplies DEF AnswerHolds
  <1> QED
    BY <1>5, <1>6

LEMMA ReviseKeeps ==
    ASSUME RuntimeInvariant, Revise
    PROVE  RuntimeInvariant' /\ AnswerHolds'
  <1> USE DEF RuntimeInvariant, Revise
  <1>1. past' = [canons |-> past.canons \cup {canon'}, clash |-> past.clash]
    OBVIOUS
  <1>2. past'.canons = past.canons \cup {canon'} /\ past'.clash = past.clash
        /\ past' = [canons |-> past'.canons, clash |-> past'.clash]
    BY <1>1
  <1>3. canon' \in CanonFiles /\ client' = client /\ image' = image /\ reply' = NoReply
    OBVIOUS
  <1>4. \A c \in Clients : JobHolds(client[c], past'.canons)
    BY <1>2, JobsStay
  <1>5. \A f \in {"csrf", "proofs"} : image[f] = CutFile \/ MadeOf(f, image[f], past'.canons)
    BY <1>2 DEF MadeOf
  <1>6. RuntimeInvariant'
    BY <1>2, <1>3, <1>4, <1>5
  <1> QED
    BY <1>3, <1>6, QuietReplies DEF AnswerHolds

LEMMA FailsWith ==
    ASSUME RuntimeInvariant, NEW c \in Clients, NEW what \in {"cmcf", "csrf", "policy", "proofs"},
           Answer(c, Failure(what)), UNCHANGED <<canon, image, past>>
    PROVE  RuntimeInvariant' /\ AnswerHolds'
  BY Ends, QuietReplies DEF Answer, AnswerHolds

LEMMA CompileCsrfKeeps ==
    ASSUME RuntimeInvariant, NEW c \in Clients, CompileCsrf(c)
    PROVE  RuntimeInvariant' /\ AnswerHolds'
  <1>1. CASE CanonLoads /\ \A i \in DOMAIN canon : ValidRecord(canon[i])
    <2>1. MadeOf("csrf", CompileRecords(canon), past.canons)
      BY <1>1 DEF MadeOf, Compilable, CanonLoads, RuntimeInvariant
    <2>2. ToSave(c, "csrf", CompileRecords(canon)) /\ UNCHANGED <<canon, image, past>>
      BY <1>1 DEF CompileCsrf
    <2> QED
      BY <2>1, <2>2, Saves
  <1>2. CASE ~(CanonLoads /\ \A i \in DOMAIN canon : ValidRecord(canon[i]))
    BY <1>2, FailsWith DEF CompileCsrf
  <1> QED
    BY <1>1, <1>2

LEMMA ImageIs ==
    ASSUME RuntimeInvariant, NEW f \in {"csrf", "proofs"}
    PROVE  /\ ~image[f].whole <=> image[f] = CutFile
           /\ image[f].whole => MadeOf(f, image[f], past.canons)
           /\ MadeOf(f, image[f], past.canons) =>
                \E v \in past.canons : /\ v \in CanonFiles /\ Compilable(v)
                                       /\ image[f] = IF f = "csrf" THEN CompileRecords(v)
                                                     ELSE ProofIndex(CompileRecords(v))
  <1>1. MadeOf(f, image[f], past.canons) => image[f].whole = TRUE
    BY CutIsNotWhole DEF MadeOf
  <1>2. CutFile.whole = FALSE
    BY DEF CutFile
  <1> QED
    BY <1>1, <1>2 DEF RuntimeInvariant, MadeOf

LEMMA BuildProofsKeeps ==
    ASSUME RuntimeInvariant, NEW c \in Clients, BuildProofs(c)
    PROVE  RuntimeInvariant' /\ AnswerHolds'
  <1>1. CASE image["csrf"].whole
    <2>1. MadeOf("proofs", ProofIndex(image["csrf"]), past.canons)
      BY <1>1, ImageIs DEF MadeOf
    <2>2. ToSave(c, "proofs", ProofIndex(image["csrf"])) /\ UNCHANGED <<canon, image, past>>
      BY <1>1 DEF BuildProofs
    <2> QED
      BY <2>1, <2>2, Saves
  <1>2. CASE ~image["csrf"].whole
    BY <1>2, FailsWith DEF BuildProofs
  <1> QED
    BY <1>1, <1>2

LEMMA OpenImageKeeps ==
    ASSUME RuntimeInvariant, NEW c \in Clients, OpenImage(c)
    PROVE  RuntimeInvariant' /\ AnswerHolds'
  <1> DEFINE j == [client[c] EXCEPT !.step = "fill"]
             which == client[c].file
  <1>1. Saving(client[c], past.canons)
    BY JobSteps DEF RuntimeInvariant, OpenImage, JobHolds
  <1>2. which \in {"csrf", "proofs"} /\ Saving(j, past.canons) /\ j.step = "fill" /\ j.file = which
    BY <1>1 DEF Saving
  <1>3. client' = [client EXCEPT ![c] = j]
    BY <1>1 DEF OpenImage, RuntimeInvariant
  <1> HIDE DEF j
  <1>4. client'[c] = j /\ (\A d \in Clients \ {c} : client'[d] = client[d])
        /\ client' = [d \in Clients |-> client'[d]]
    BY <1>3, ClientStepped DEF RuntimeInvariant
  <1>5. image' = [image EXCEPT ![which] = CutFile]
    BY DEF OpenImage
  <1>6. image' = [f \in {"csrf", "proofs"} |-> image'[f]] /\ image'[which] = CutFile
        /\ \A f \in {"csrf", "proofs"} : image'[f] = CutFile \/ image'[f] = image[f]
    BY <1>2, <1>5 DEF RuntimeInvariant
  <1>7. past' = [canons |-> past.canons, clash |-> past'.clash] /\ canon' = canon /\ reply' = NoReply
    BY DEF OpenImage, RuntimeInvariant
  <1>8. past'.canons = past.canons
    BY <1>7
  <1>9. past'.clash \/ (\A d \in Clients \ {c} : client[d].step \notin {"second", "fill"})
    BY DEF OpenImage, RuntimeInvariant
  <1>10. past'.clash \/ Unclashed(client', image')
    <2>1. ASSUME \A d \in Clients \ {c} : client[d].step \notin {"second", "fill"}
          PROVE  Unclashed(client', image')
      <3>1. \A d \in Clients : client'[d].step \in {"second", "fill"} => d = c
        BY <1>4, <2>1
      <3>2. client'[c].step = "fill" /\ client'[c].file = which
        BY <1>2, <1>4
      <3> QED
        BY <3>1, <3>2, <1>6 DEF Unclashed
    <2> QED
      BY <1>9, <2>1
  <1>11. \A d \in Clients : JobHolds(client'[d], past.canons)
    BY <1>2, <1>4 DEF JobHolds, RuntimeInvariant
  <1>12. \A f \in {"csrf", "proofs"} : image'[f] = CutFile \/ MadeOf(f, image'[f], past.canons)
    BY <1>6 DEF RuntimeInvariant
  <1>13. RuntimeInvariant'
    BY <1>4, <1>6, <1>7, <1>8, <1>10, <1>11, <1>12 DEF RuntimeInvariant
  <1> QED
    BY <1>7, <1>13, QuietReplies DEF AnswerHolds

LEMMA FillImageKeeps ==
    ASSUME RuntimeInvariant, NEW c \in Clients, FillImage(c)
    PROVE  RuntimeInvariant' /\ AnswerHolds'
  <1> DEFINE which == client[c].file
  <1>1. Saving(client[c], past.canons) /\ client[c].step = "fill"
    BY JobSteps DEF RuntimeInvariant, FillImage, JobHolds
  <1>2. which \in {"csrf", "proofs"} /\ MadeOf(which, client[c].content, past.canons)
    BY <1>1 DEF Saving
  <1>3. client' = [client EXCEPT ![c] = Ready] /\ reply' = [kind |-> "saved"]
        /\ canon' = canon /\ past' = past
    BY DEF FillImage, Answer
  <1>4. client'[c] = Ready /\ (\A d \in Clients \ {c} : client'[d] = client[d])
        /\ client' = [d \in Clients |-> client'[d]]
    BY <1>3, ClientStepped DEF RuntimeInvariant
  <1>5. PICK content \in {client[c].content} \cup (IF image[which] = CutFile THEN {} ELSE {CutFile}) :
            image' = [image EXCEPT ![which] = content]
    BY DEF FillImage
  <1> HIDE DEF which
  <1>6. image' = [f \in {"csrf", "proofs"} |-> image'[f]] /\ image'[which] = content
        /\ \A f \in {"csrf", "proofs"} : f = which \/ image'[f] = image[f]
    BY <1>2, <1>5 DEF RuntimeInvariant
  <1>7. content = CutFile \/ MadeOf(which, content, past.canons)
    BY <1>2, <1>5
  <1>8. \A f \in {"csrf", "proofs"} : image'[f] = CutFile \/ MadeOf(f, image'[f], past.canons)
    BY <1>6, <1>7 DEF RuntimeInvariant
  <1>9. \A d \in Clients : JobHolds(client'[d], past.canons)
    BY <1>4 DEF JobHolds, RuntimeInvariant
  <1>10. past.clash \/ Unclashed(client', image')
    <2>1. ASSUME Unclashed(client, image)
          PROVE  Unclashed(client', image')
      <3>1. \A d \in Clients : client'[d].step \in {"fill", "second"} => client'[d] = client[d] /\ d # c
        BY <1>4, JobSteps
      <3>2. \A d \in Clients : client'[d].step # "fill"
        BY <3>1, <2>1, <1>1 DEF Unclashed
      <3>3. image[which] = CutFile
        BY <2>1, <1>1 DEF Unclashed, which
      <3>4. ASSUME NEW d \in Clients, client'[d].step = "second"
            PROVE  /\ image'["csrf"] # CutFile
                   /\ client'[d].inferred = CrossPackReason(CompiledClaims(image'["csrf"], client'[d].trusted))
        <4>1. client'[d] = client[d] /\ client[d].step = "second"
          BY <3>1, <3>4
        <4>2. image["csrf"] # CutFile
              /\ client[d].inferred = CrossPackReason(CompiledClaims(image["csrf"], client[d].trusted))
          BY <4>1, <2>1 DEF Unclashed
        <4>3. image'["csrf"] = image["csrf"]
          BY <4>2, <3>3, <1>6
        <4> QED
          BY <4>1, <4>2, <4>3
      <3> QED
        BY <3>2, <3>4 DEF Unclashed
    <2> QED
      BY <2>1 DEF RuntimeInvariant
  <1>11. RuntimeInvariant'
    BY <1>3, <1>4, <1>6, <1>8, <1>9, <1>10 DEF RuntimeInvariant
  <1> QED
    BY <1>3, <1>11, QuietReplies DEF AnswerHolds

LEMMA QuestionsAre == ASSUME NEW q \in Questions PROVE q.limit \in Nat
  BY QuestionsAssumption

LEMMA QueryRuntimeKeeps ==
    ASSUME RuntimeInvariant, NEW c \in Clients, QueryRuntime(c)
    PROVE  RuntimeInvariant' /\ AnswerHolds'
  <1>0. UNCHANGED <<canon, image, past>>
    BY DEF QueryRuntime
  <1>1. CASE ~image["csrf"].whole
    BY <1>1, FailsWith DEF QueryRuntime
  <1>2. CASE image["csrf"].whole
    <2>1. PICK v \in past.canons : v \in CanonFiles /\ Compilable(v) /\ image["csrf"] = CompileRecords(v)
      BY <1>2, ImageIs
    <2>2. RecordList(v) /\ RuntimeValid(image["csrf"])
      BY <2>1, VersionsAre, CompiledIsValid DEF Compilable
    <2>3. PICK q \in Questions :
            IF ~PolicyLoads(q.policy) THEN Answer(c, Failure("policy"))
            ELSE \E rows \in QueryCompiled(image["csrf"], q) :
                   Answer(c, [kind |-> "csrf rows", question |-> q, rows |-> rows,
                              explained |-> {ExplainClaim(r) : r \in rows}])
      BY <1>2, <2>2 DEF QueryRuntime
    <2>4. CASE ~PolicyLoads(q.policy)
      BY <1>0, <2>3, <2>4, FailsWith
    <2>5. CASE PolicyLoads(q.policy)
      <3>1. PICK rows \in QueryCompiled(CompileRecords(v), q) :
                   Answer(c, [kind |-> "csrf rows", question |-> q, rows |-> rows,
                              explained |-> {ExplainClaim(r) : r \in rows}])
        BY <2>1, <2>3, <2>5
      <3>2. RuntimeInvariant'
        BY <1>0, <3>1, Ends DEF Answer
      <3>3. AnswerHolds'
        BY <1>0, <2>2, <2>5, <3>1, QuestionsAre, RowsHold DEF Answer, AnswerHolds
      <3> QED
        BY <3>2, <3>3
    <2> QED
      BY <2>4, <2>5
  <1> QED
    BY <1>1, <1>2

LEMMA QueryCanonKeeps ==
    ASSUME RuntimeInvariant, NEW c \in Clients, QueryCanon(c)
    PROVE  RuntimeInvariant' /\ AnswerHolds'
  <1>0. UNCHANGED <<canon, image, past>>
    BY DEF QueryCanon
  <1>1. CASE ~CanonLoads \/ \E i \in DOMAIN canon : ~ValidRecord(canon[i])
    BY <1>1, FailsWith DEF QueryCanon
  <1>2. CASE ~(~CanonLoads \/ \E i \in DOMAIN canon : ~ValidRecord(canon[i]))
    <2>1. canon \in past.canons /\ RecordList(canon)
      BY VersionsAre DEF RuntimeInvariant
    <2>2. PICK q \in Questions : PolicyLoads(q.policy) /\
            \E rows \in QueryCompiled(CompileRecords(canon), q) :
                   Answer(c, [kind |-> "csrf rows", question |-> q, rows |-> rows,
                              explained |-> {ExplainClaim(r) : r \in rows}])
      BY <1>2 DEF QueryCanon
    <2>3. PICK rows \in QueryCompiled(CompileRecords(canon), q) :
                   Answer(c, [kind |-> "csrf rows", question |-> q, rows |-> rows,
                              explained |-> {ExplainClaim(r) : r \in rows}])
      BY <2>2
    <2>4. RuntimeInvariant'
      BY <1>0, <2>3, Ends DEF Answer
    <2>5. AnswerHolds'
      BY <1>0, <2>1, <2>2, <2>3, QuestionsAre, RowsHold DEF Answer, AnswerHolds
    <2> QED
      BY <2>4, <2>5
  <1> QED
    BY <1>1, <1>2

LEMMA QueryShelfKeeps ==
    ASSUME RuntimeInvariant, NEW c \in Clients, QueryShelf(c)
    PROVE  RuntimeInvariant' /\ AnswerHolds'
  <1>0. UNCHANGED <<canon, image, past>>
    BY DEF QueryShelf
  <1>1. PICK q \in Questions, packs \in {ShelfPacks} \cup {{p} : p \in ShelfPacks} :
         /\ PolicyLoads(q.policy)
         /\ \/ \E rows \in QueryPacks(packs, q) :
                 Answer(c, [kind |-> "pack rows", question |-> q, packs |-> packs, rows |-> rows])
            \/ \E p \in packs :
                 /\ packs = {p} /\ \A r \in ToSet(PackRecords(p)) : ValidRecord(r)
                 /\ \E rows \in QueryCompiled(CompileRecords(PackRecords(p)), q) :
                      Answer(c, [kind |-> "compiled pack rows", question |-> q, packs |-> packs, rows |-> rows])
    BY DEF QueryShelf
  <1>2. CASE \E rows \in QueryPacks(packs, q) :
                 Answer(c, [kind |-> "pack rows", question |-> q, packs |-> packs, rows |-> rows])
    <2>1. PICK rows \in QueryPacks(packs, q) :
                 Answer(c, [kind |-> "pack rows", question |-> q, packs |-> packs, rows |-> rows])
      BY <1>2
    <2>2. RuntimeInvariant'
      BY <1>0, <2>1, Ends DEF Answer
    <2>3. AnswerHolds'
      BY <1>0, <2>1, PackRowsHold DEF Answer, AnswerHolds
    <2> QED
      BY <2>2, <2>3
  <1>3. CASE \E p \in packs :
                 /\ packs = {p}
                 /\ \E rows \in QueryCompiled(CompileRecords(PackRecords(p)), q) :
                      Answer(c, [kind |-> "compiled pack rows", question |-> q, packs |-> packs, rows |-> rows])
    <2>1. PICK p \in packs :
                 /\ packs = {p}
                 /\ \E rows \in QueryCompiled(CompileRecords(PackRecords(p)), q) :
                      Answer(c, [kind |-> "compiled pack rows", question |-> q, packs |-> {p}, rows |-> rows])
      BY <1>3
    <2>2. p \in ShelfPacks
      BY <2>1
    <2>3. PICK rows \in QueryCompiled(CompileRecords(PackRecords(p)), q) :
                 Answer(c, [kind |-> "compiled pack rows", question |-> q, packs |-> {p}, rows |-> rows])
      BY <2>1
    <2>4. RuntimeInvariant'
      BY <1>0, <2>3, Ends DEF Answer
    <2>5. AnswerHolds'
      BY <1>0, <1>1, <2>2, <2>3, QuestionsAre, CompiledPackHolds DEF Answer, AnswerHolds
    <2> QED
      BY <2>4, <2>5
  <1> QED
    BY <1>1, <1>2, <1>3

LEMMA ProofWhyKeeps ==
    ASSUME RuntimeInvariant, NEW c \in Clients, ProofWhy(c)
    PROVE  RuntimeInvariant' /\ AnswerHolds'
  <1>0. UNCHANGED <<canon, image, past>>
    BY DEF ProofWhy
  <1>1. CASE ~image["proofs"].whole
    BY <1>1, FailsWith DEF ProofWhy
  <1>2. CASE image["proofs"].whole
    <2>1. PICK v \in past.canons : v \in CanonFiles /\ image["proofs"] = ProofIndex(CompileRecords(v))
      BY <1>2, ImageIs
    <2>2. PICK id : \E best \in BestProofs(image["proofs"].proofs, id) :
                      Answer(c, [kind |-> "proof", proof |-> best])
      BY <1>2 DEF ProofWhy
    <2>3. PICK best \in BestProofs(ProofIndex(CompileRecords(v)).proofs, id) :
                      Answer(c, [kind |-> "proof", proof |-> best])
      BY <2>1, <2>2
    <2>4. RuntimeInvariant'
      BY <1>0, <2>3, Ends DEF Answer
    <2>5. RecordList(v)
      BY <2>1, VersionsAre
    <2>6. AnswerHolds'
      BY <1>0, <2>5, <2>3, ProofHolds DEF Answer, AnswerHolds
    <2> QED
      BY <2>4, <2>6
  <1> QED
    BY <1>1, <1>2

LEMMA ReasonFirstKeeps ==
    ASSUME RuntimeInvariant, NEW c \in Clients, ReasonFirst(c)
    PROVE  RuntimeInvariant' /\ AnswerHolds'
  <1>0. UNCHANGED <<canon, image, past>>
    BY DEF ReasonFirst
  <1>1. CASE ~image["csrf"].whole
    BY <1>1, FailsWith DEF ReasonFirst
  <1>2. CASE image["csrf"].whole
    <2>1. PICK v \in past.canons : v \in CanonFiles /\ Compilable(v) /\ image["csrf"] = CompileRecords(v)
      BY <1>2, ImageIs
    <2>2. RecordList(v) /\ RuntimeValid(image["csrf"])
      BY <2>1, VersionsAre, CompiledIsValid DEF Compilable
    <2>3. PICK trusted \in BOOLEAN, q \in Questions :
             client' = [client EXCEPT ![c] =
               [step |-> "second", trusted |-> trusted, policy |-> q.policy,
                inferred |-> CrossPackReason(CompiledClaims(image["csrf"], trusted))]]
      BY <1>2, <2>2 DEF ReasonFirst
    <2>4. reply' = NoReply
      BY <1>2, <2>2 DEF ReasonFirst
    <2> DEFINE j == [step |-> "second", trusted |-> trusted, policy |-> q.policy,
                     inferred |-> CrossPackReason(CompiledClaims(image["csrf"], trusted))]
    <2>6. /\ j.step = "second" /\ j.inferred = CrossPackReason(CompiledClaims(image["csrf"], j.trusted))
          /\ Reasoning(j, past.canons)
      BY <2>1 DEF Reasoning
    <2>7. client' = [client EXCEPT ![c] = j]
      BY <2>3
    <2> HIDE DEF j
    <2>8. client'[c] = j /\ (\A d \in Clients \ {c} : client'[d] = client[d])
          /\ client' = [d \in Clients |-> client'[d]]
      BY <2>7, ClientStepped DEF RuntimeInvariant
    <2>9. \A d \in Clients : JobHolds(client'[d], past.canons)
      BY <2>6, <2>8 DEF JobHolds, RuntimeInvariant
    <2>10. past.clash \/ Unclashed(client', image)
      <3>1. \A d \in Clients \ {c} : client'[d] = client[d]
        BY <2>8
      <3>2. image["csrf"] # CutFile
        BY <1>2, ImageIs
      <3> QED
        BY <2>6, <2>8, <3>1, <3>2 DEF Unclashed, RuntimeInvariant
    <2>11. RuntimeInvariant'
      BY <1>0, <2>8, <2>9, <2>10 DEF RuntimeInvariant
    <2> QED
      BY <2>4, <2>11, QuietReplies DEF AnswerHolds
  <1> QED
    BY <1>1, <1>2

LEMMA ReasonSecondKeeps ==
    ASSUME RuntimeInvariant, NEW c \in Clients, ReasonSecond(c)
    PROVE  RuntimeInvariant' /\ AnswerHolds'
  <1>0. UNCHANGED <<canon, image, past>> /\ client[c].step = "second"
    BY DEF ReasonSecond
  <1>1. CASE ~image["csrf"].whole
    BY <1>1, FailsWith DEF ReasonSecond
  <1>2. CASE image["csrf"].whole /\ ~PolicyLoads(client[c].policy)
    BY <1>2, FailsWith DEF ReasonSecond
  <1>3. CASE image["csrf"].whole /\ PolicyLoads(client[c].policy)
    <2> DEFINE trusted == client[c].trusted
               policy == client[c].policy
               claims == CompiledClaims(image["csrf"], trusted)
               input == Permitted(claims, policy)
    <2>1. Answer(c, Reasoned(trusted, policy, input, client[c].inferred))
      BY <1>3 DEF ReasonSecond
    <2>2. Reasoning(client[c], past.canons)
      BY <1>0, JobSteps DEF RuntimeInvariant, JobHolds
    <2>3. PICK v \in past.canons : client[c].inferred = CrossPackReason(CompiledClaims(CompileRecords(v), trusted))
      BY <2>2 DEF Reasoning
    <2>4. Rated(v)
      BY VersionsAre DEF RuntimeInvariant
    <2>5. past.clash \/ \A i \in client[c].inferred : \A n \in 1..2 :
                      (\E d \in input : Named(d) = i.from[n]) \/ Blocks(policy, i.from[n].relation)
      <3>1. SUFFICES ASSUME Unclashed(client, image), NEW i \in client[c].inferred, NEW n \in 1..2
                     PROVE  (\E d \in input : Named(d) = i.from[n]) \/ Blocks(policy, i.from[n].relation)
        BY DEF RuntimeInvariant
      <3>2. i \in CrossPackReason(claims)
        BY <1>0, <3>1 DEF Unclashed
      <3> HIDE DEF claims
      <3>3. PICK a \in claims, b \in claims : i.from = <<Named(a), Named(b)>>
        BY <3>2, Inferred
      <3>4. PICK d \in claims : i.from[n] = Named(d)
        <4>1. i.from[1] = Named(a) /\ i.from[2] = Named(b) /\ (n = 1 \/ n = 2)
          BY <3>3
        <4> QED
          BY <4>1
      <3>5. i.from[n].relation = d.relation
        BY <3>4 DEF Named
      <3>6. PolicyAllows(policy, d.relation) \/ Blocks(policy, d.relation)
        BY <1>3 DEF Blocks, PolicyLoads, PolicyAllows
      <3> QED
        BY <3>4, <3>5, <3>6 DEF Permitted
    <2>6. RuntimeInvariant'
      BY <1>0, <2>1, Ends DEF Answer
    <2> DEFINE a == Reasoned(trusted, policy, input, CrossPackReason(CompiledClaims(CompileRecords(v), trusted)))
    <2>7. reply' = a /\ past' = past
      BY <1>0, <2>1, <2>3 DEF Answer
    <2> HIDE DEF input, trusted, policy
    <2>8. AnswersComeFromOneVersion(a, past.canons) /\ ReasonsFromItsInput(a, past.clash)
      BY <2>3, <2>4, <2>5, ReasonedHolds
    <2> HIDE DEF a
    <2>9. AnswerHolds'
      BY <2>7, <2>8 DEF AnswerHolds
    <2> QED
      BY <2>6, <2>9
  <1> QED
    BY <1>1, <1>2, <1>3

LEMMA ReasonPacksKeeps ==
    ASSUME RuntimeInvariant, NEW c \in Clients, ReasonPacks(c)
    PROVE  RuntimeInvariant' /\ AnswerHolds'
  <1>0. UNCHANGED <<canon, image, past>>
    BY DEF ReasonPacks
  <1>1. PICK trusted \in BOOLEAN, q \in Questions :
           /\ PolicyLoads(q.policy)
           /\ LET input == Permitted(GraphClaims(ShelfPacks, trusted), q.policy)
              IN  Answer(c, [Reasoned(trusted, q.policy, input, CrossPackReason(input)) EXCEPT !.kind = "reasoned packs"])
    BY DEF ReasonPacks
  <1>2. RuntimeInvariant'
    BY <1>0, <1>1, Ends DEF Answer
  <1>3. AnswerHolds'
    BY <1>0, <1>1, PacksReasonedHolds DEF Answer, AnswerHolds
  <1> QED
    BY <1>2, <1>3

LEMMA AbortClientKeeps ==
    ASSUME RuntimeInvariant, NEW c \in Clients, AbortClient(c)
    PROVE  RuntimeInvariant' /\ AnswerHolds'
  BY Ends, QuietReplies DEF AbortClient, AnswerHolds

LEMMA RuntimeInvariantStarts == RuntimeInit => RuntimeInvariant /\ AnswerHolds
  <1> SUFFICES ASSUME RuntimeInit PROVE RuntimeInvariant /\ AnswerHolds
    OBVIOUS
  <1> USE DEF RuntimeInit
  <1>1. reply = NoReply
    OBVIOUS
  <1>2. past.canons = {canon} /\ past.clash = FALSE /\ past = [canons |-> past.canons, clash |-> past.clash]
    OBVIOUS
  <1>3. Unclashed(client, image)
    BY JobSteps DEF Unclashed
  <1>4. \A c \in Clients : JobHolds(client[c], past.canons)
    BY DEF JobHolds
  <1>5. RuntimeInvariant
    BY <1>2, <1>3, <1>4 DEF RuntimeInvariant
  <1> QED
    BY <1>1, <1>5, QuietReplies DEF AnswerHolds

LEMMA RuntimeInvariantStep ==
    ASSUME RuntimeInvariant, AnswerHolds, [RuntimeNext]_runtimeVars
    PROVE  RuntimeInvariant' /\ AnswerHolds'
  <1>1. CASE Revise
    BY <1>1, ReviseKeeps
  <1>2. ASSUME NEW c \in Clients, ShelfStep(c)
        PROVE  RuntimeInvariant' /\ AnswerHolds'
    BY <1>2, QueryShelfKeeps, ReasonPacksKeeps DEF ShelfStep
  <1>3. ASSUME NEW c \in Clients, ImageStep(c)
        PROVE  RuntimeInvariant' /\ AnswerHolds'
    BY <1>3, CompileCsrfKeeps, BuildProofsKeeps, OpenImageKeeps, FillImageKeeps, QueryRuntimeKeeps,
       QueryCanonKeeps, ProofWhyKeeps, ReasonFirstKeeps, ReasonSecondKeeps, AbortClientKeeps DEF ImageStep
  <1>4. CASE UNCHANGED runtimeVars
    BY <1>4 DEF runtimeVars, RuntimeInvariant, AnswerHolds, Unclashed
  <1> QED
    BY <1>1, <1>2, <1>3, <1>4 DEF RuntimeNext

\* What is answered of a compiled file, or of packs, holds: all of what one
\* version of the canonical records says and nothing else, whatever compile,
\* death or second process comes between, and whichever of its claims share
\* an id; and what vcse reason infers follows from its input and from what
\* its policy blocked, unless saves met (runtime/compiler.py, query/engine.py,
\* proof/index.py, pipeline/runner.py, cli.run_reason).
THEOREM RuntimeAnswers == RuntimeSpec => []RuntimeAnswersHold
  <1>1. RuntimeInit => RuntimeInvariant /\ AnswerHolds
    BY RuntimeInvariantStarts
  <1>2. (RuntimeInvariant /\ AnswerHolds) /\ [RuntimeNext]_runtimeVars => (RuntimeInvariant /\ AnswerHolds)'
    BY RuntimeInvariantStep
  <1>3. RuntimeInvariant /\ AnswerHolds => RuntimeAnswersHold
    BY DEF AnswerHolds, RuntimeAnswersHold
  <1> QED
    BY <1>1, <1>2, <1>3, PTL DEF RuntimeSpec
=============================================================================
