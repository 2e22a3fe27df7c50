------------------------------ MODULE TaskProofs -------------------------------
(***************************************************************************)
(* Proofs about the task executor, for any plan, any commands and any      *)
(* steps the validator rejects: what is saved of a task is so, a completed *)
(* step is not run again, and the files implement TaskRecord.  And about   *)
(* Generation, for any specifications and templates: of the candidates     *)
(* there is a first one, and what is VERIFIED of it is so.  And about      *)
(* FileIngest, for any documents: an import is whole.                      *)
(***************************************************************************)
EXTENDS TaskExecution, Generation, FileIngest, OrderProofs, SequenceTheorems, TLAPS

-----------------------------------------------------------------------------
(* The inductive invariant.  Its parts are about one record or one job, so *)
(* that they can be stated of values; bad stands for the steps rejected,   *)
(* count for how often the tools have succeeded.                           *)

Ops == {"none", "submit", "run", "resume"}

Stages == {"idle", "execute", "open", "write", "rename"}

Saving == {"open", "write", "rename"}

Jobs == [op : Ops, stage : Stages, plan : Plans, state : States, before : SUBSET Ids,
         todo : SUBSET Ids, updated : Plans, handle : Inodes \cup {0}]

Done(plan) == {i \in DOMAIN plan : plan[i] # "PENDING"}

Undone(plan) == DOMAIN plan \ Done(plan)

\* Why a plan does not go on behind step i.
Stops(steps, i, bad) == steps[i] = "FAILED" \/ i \in bad

\* The tool of every completed step has succeeded.
Counted(plan, count) == \A i \in DOMAIN plan : plan[i] = "COMPLETED" => count[i] > 0

\* What one command concludes from one plan and one state.
Good(r, bad, count) ==
    /\ ToSet(r.state.completed) = Done(r.plan)
    /\ Counted(r.plan, count)
    /\ \A i \in Ids \ DOMAIN r.plan : \E k \in DOMAIN r.plan : k < i /\ Stops(r.plan, k, bad)
    /\ \A i \in Done(r.plan), k \in Undone(r.plan) : i < k
    /\ HasFailed(r.plan) => Undone(r.plan) = {}
    /\ (r.state.status = "FAILED") <=> HasFailed(r.plan)
    /\ r.state.status = "COMPLETED" => \A i \in Undone(r.plan) : \E k \in bad : k <= i

\* What it has loaded, or has planned.
Loaded(j, bad, count) ==
    /\ j.op \in {"run", "resume"}
    /\ j.before = Done(j.plan)
    /\ ~HasFailed(j.plan)
    /\ Counted(j.plan, count)
    /\ \A i \in Ids \ DOMAIN j.plan : \E k \in DOMAIN j.plan : k < i /\ k \in bad
    /\ \A i \in j.before, k \in Undone(j.plan) : i < k
    /\ j.op = "run" => j.before = {} /\ (j.state.completed = << >> => j.state.status = "RUNNING")

\* How far it has come: the steps reached, then those it still has to do.
Going(j, bad, count) ==
    /\ DOMAIN j.updated \cup j.todo \subseteq Undone(j.plan)
    /\ \A i \in DOMAIN j.updated, k \in j.todo : i < k
    /\ \A i \in Undone(j.plan) \ (DOMAIN j.updated \cup j.todo) :
         \E k \in DOMAIN j.updated : k < i /\ Stops(j.updated, k, bad)
    /\ \A i \in DOMAIN j.updated :
         /\ i \in bad <=> j.updated[i] = "PENDING"
         /\ j.updated[i] # "COMPLETED" => j.todo = {} /\ \A k \in DOMAIN j.updated : k <= i
    /\ Counted(j.updated, count)
    /\ ToSet(j.state.completed) = j.before \cup Done(j.updated)
    /\ j.op = "resume" => DOMAIN j.updated \cup j.todo # {}

JobGood(j, bad, count) ==
    /\ j.stage = "execute" => Loaded(j, bad, count) /\ Going(j, bad, count)
    /\ j.stage \in Saving => j.op # "none" /\ Good(Record(j.plan, j.state), bad, count)
    /\ j.op = "submit" => /\ j.stage \in Saving /\ j.plan = FreshPlan /\ j.state = FreshState
                          /\ j.before = {} /\ j.updated = NoSteps
    /\ j.stage = "idle" => j.op = "none"
    /\ j.stage = "write" => j.handle # 0

TypeOK ==
    /\ alone \in BOOLEAN
    /\ content \in [Inodes -> Records \cup {Empty, Torn}]
    /\ tmp \in Inodes \cup {0}
    /\ path \in Inodes \cup {0}
    /\ job \in [Commands -> Jobs]
    /\ ran \in [Ids -> Nat]

RecordsGood == \A n \in Inodes : IsRecord(content[n]) => Good(content[n], invalid, ran)

JobsGood == \A p \in Commands : JobGood(job[p], invalid, ran)

\* One command at a time has the files to itself.
OneAtATime == \A p, q \in Commands : job[p].stage # "idle" /\ job[q].stage # "idle" => p = q

FilesApart == tmp # 0 => tmp # path

\* What is in the temporary file while a command saves.
OwnTemporary(j) ==
    /\ j.stage = "write" => tmp # 0 /\ j.handle = tmp /\ content[tmp] = Empty
    /\ j.stage = "rename" => tmp # 0 /\ content[tmp] = Record(j.plan, j.state)

\* TaskRecord's record of a saved one, and the attempt TaskRecord allows.
Abstract(r) == [step |-> [i \in Ids |-> StepStatus(r, i)], status |-> r.state.status]

PendingIn(r) == {i \in Ids : r.step[i] = "PENDING"}

AheadIn(r, i) == {k \in PendingIn(r) : k < i}

StoppedAt(r, i, outcome) ==
    [k \in Ids |-> IF k \notin PendingIn(r) THEN r.step[k]
                   ELSE IF k < i THEN "COMPLETED" ELSE IF k = i THEN outcome ELSE "DROPPED"]

AllDone(r) == [i \in Ids |-> IF i \in PendingIn(r) THEN "COMPLETED" ELSE r.step[i]]

Attempted(r, s, bad) ==
    \/ /\ PendingIn(r) # {} /\ PendingIn(r) \cap bad = {}
       /\ s = [step |-> AllDone(r), status |-> "COMPLETED"]
    \/ \E i \in PendingIn(r) :
         /\ AheadIn(r, i) \cap bad = {}
         /\ \/ i \notin bad /\ s = [step |-> StoppedAt(r, i, "FAILED"), status |-> "FAILED"]
            \/ /\ i \in bad
               /\ \/ s = [step |-> StoppedAt(r, i, "PENDING"), status |-> "COMPLETED"]
                  \/ AheadIn(r, i) = {} /\ s = [step |-> StoppedAt(r, i, "PENDING"), status |-> r.status]

\* The command works on what the task's file says, and what it has concluded
\* is an attempt at it, or the same again.
Follows(j, r, bad) ==
    /\ j.stage = "execute" => r.plan = j.plan /\ (j.op = "run" => r.state.status = "RUNNING")
    /\ j.stage \in Saving =>
         LET s == Record(j.plan, j.state) IN Abstract(s) = Abstract(r) \/ Attempted(Abstract(r), Abstract(s), bad)

OwnRecord(j) == j.op \in {"run", "resume"} => SavedRecord /\ Follows(j, Saved, invalid)

AloneInv ==
    alone => OneAtATime /\ FilesApart /\ \A p \in Commands : OwnTemporary(job[p]) /\ OwnRecord(job[p])

TaskInv == TypeOK /\ RecordsGood /\ JobsGood /\ AloneInv

-----------------------------------------------------------------------------
(* Plans, and what the steps of the loop do to a plan and a state.         *)

LEMMA PlanParts ==
    ASSUME NEW f \in Plans
    PROVE  /\ DOMAIN f \subseteq Ids
           /\ f \in [DOMAIN f -> StepStatuses]
  BY DEF Plans

LEMMA PlanMade ==
    ASSUME NEW some \in SUBSET Ids, NEW f \in [some -> StepStatuses]
    PROVE  f \in Plans
  BY DEF Plans

LEMMA PlansThere == FreshPlan \in Plans /\ NoSteps \in Plans /\ DOMAIN FreshPlan = Ids /\ DOMAIN NoSteps = {}
  <1>1. FreshPlan \in [Ids -> StepStatuses]
    BY DEF FreshPlan, StepStatuses
  <1>2. NoSteps \in [{} -> StepStatuses]
    BY DEF NoSteps, StepStatuses
  <1> QED
    BY <1>1, <1>2, PlanMade DEF FreshPlan, NoSteps

LEMMA Added ==
    ASSUME NEW f \in Plans, NEW i \in Ids, NEW status \in StepStatuses
    PROVE  LET g == With(f, i, status) IN
           /\ g \in Plans
           /\ DOMAIN g = DOMAIN f \cup {i}
           /\ g[i] = status
           /\ \A k \in DOMAIN f : k # i => g[k] = f[k]
  <1>1. With(f, i, status) \in [DOMAIN f \cup {i} -> StepStatuses]
    BY PlanParts DEF With
  <1>2. DOMAIN f \cup {i} \in SUBSET Ids
    BY PlanParts
  <1> QED
    BY <1>1, <1>2, PlanMade DEF With

LEMMA ElementsOfAppend ==
    ASSUME NEW S, NEW s \in Seq(S), NEW x \in S
    PROVE  ToSet(Append(s, x)) = ToSet(s) \cup {x}
  <1> DEFINE t == Append(s, x)
  <1>1. /\ Len(s) \in Nat /\ DOMAIN s = 1..Len(s)
        /\ DOMAIN t = 1..(Len(s) + 1)
        /\ t[Len(s) + 1] = x
        /\ \A k \in 1..Len(s) : t[k] = s[k]
    OBVIOUS
  <1>2. DOMAIN t = DOMAIN s \cup {Len(s) + 1}
    BY <1>1
  <1> HIDE DEF t
  <1>3. \A y \in ToSet(t) : y \in ToSet(s) \cup {x}
    BY <1>1, <1>2 DEF ToSet
  <1>4. ToSet(s) \subseteq ToSet(t)
    BY <1>1, <1>2 DEF ToSet
  <1>5. x \in ToSet(t)
    BY <1>1, <1>2 DEF ToSet
  <1> QED
    BY <1>3, <1>4, <1>5 DEF t

LEMMA NoElements ==
    ASSUME NEW S, NEW s \in Seq(S)
    PROVE  s = << >> <=> ToSet(s) = {}
  <1>1. ASSUME s # << >>  PROVE s[1] \in ToSet(s)
    <2>1. 1 \in DOMAIN s
      BY <1>1
    <2> QED
      BY <2>1 DEF ToSet
  <1>2. ASSUME s = << >>  PROVE ToSet(s) = {}
    <2>1. DOMAIN s = {}
      BY <1>2
    <2> QED
      BY <2>1 DEF ToSet
  <1> QED
    BY <1>1, <1>2

LEMMA Updated ==
    ASSUME NEW state \in States, NEW i \in Ids, NEW status \in {"COMPLETED", "FAILED"}
    PROVE  /\ Update(state, i, status) \in States
           /\ Update(state, i, status).completed = Append(state.completed, i)
           /\ ToSet(Update(state, i, status).completed) = ToSet(state.completed) \cup {i}
  <1>1. state.completed \in Seq(Ids) /\ state.status \in TaskStatuses
    BY DEF States
  <1>2. Append(state.completed, i) \in Seq(Ids)
    BY <1>1
  <1>3. ToSet(Append(state.completed, i)) = ToSet(state.completed) \cup {i}
    BY <1>1, ElementsOfAppend
  <1> QED
    BY <1>1, <1>2, <1>3 DEF Update, States, State, TaskStatuses

LEMMA GoodKept ==
    ASSUME NEW r \in Records, NEW bad, NEW count \in [Ids -> Nat], NEW more \in [Ids -> Nat],
           \A i \in Ids : count[i] <= more[i],
           Good(r, bad, count)
    PROVE  Good(r, bad, more)
  <1>1. DOMAIN r.plan \subseteq Ids
    BY PlanParts DEF Records
  <1>2. Counted(r.plan, more)
    BY <1>1 DEF Good, Counted
  <1> QED
    BY <1>2 DEF Good

LEMMA JobKept ==
    ASSUME NEW j \in Jobs, NEW bad, NEW count \in [Ids -> Nat], NEW more \in [Ids -> Nat],
           \A i \in Ids : count[i] <= more[i],
           JobGood(j, bad, count)
    PROVE  JobGood(j, bad, more)
  <1>1. j.plan \in Plans /\ j.updated \in Plans /\ j.state \in States
    BY DEF Jobs
  <1>2. DOMAIN j.plan \subseteq Ids /\ DOMAIN j.updated \subseteq Ids
    BY <1>1, PlanParts
  <1>3. Record(j.plan, j.state) \in Records
    BY <1>1 DEF Record, Records
  <1>4. Counted(j.plan, count) => Counted(j.plan, more)
    BY <1>2 DEF Counted
  <1>5. Counted(j.updated, count) => Counted(j.updated, more)
    BY <1>2 DEF Counted
  <1>6. Good(Record(j.plan, j.state), bad, count) => Good(Record(j.plan, j.state), bad, more)
    BY <1>3, GoodKept
  <1> QED
    BY <1>4, <1>5, <1>6 DEF JobGood, Loaded, Going

-----------------------------------------------------------------------------
(* One step of the loop: what was reached, and what is left, stays apart.  *)

\* A job between two steps of the loop, with the sets the invariant is about.
LEMMA Executing ==
    ASSUME NEW j \in Jobs, NEW bad, NEW count, j.stage = "execute", JobGood(j, bad, count)
    PROVE  /\ Loaded(j, bad, count) /\ Going(j, bad, count)
           /\ j.op \in {"run", "resume"}
           /\ j.plan \in Plans /\ j.updated \in Plans /\ j.state \in States
           /\ DOMAIN j.plan \subseteq Ids /\ DOMAIN j.updated \subseteq Ids /\ j.todo \subseteq Ids
  <1>1. j.plan \in Plans /\ j.updated \in Plans /\ j.state \in States /\ j.todo \subseteq Ids
    BY DEF Jobs
  <1> QED
    BY <1>1, PlanParts DEF JobGood, Loaded

\* A step that was reached and how it ended: the steps before it are as they
\* were, and nothing behind it was reached.
LEMMA Reached ==
    ASSUME NEW j \in Jobs, NEW bad, NEW count \in [Ids -> Nat], NEW more \in [Ids -> Nat],
           j.stage = "execute", JobGood(j, bad, count),
           NEW i \in j.todo, \A k \in j.todo : i <= k,
           NEW status \in StepStatuses, i \in bad <=> status = "PENDING",
           status = "COMPLETED" => more[i] > 0,
           \A k \in Ids : count[k] <= more[k],
           NEW n, n \in Jobs,
           n.op = j.op, n.stage = j.stage, n.plan = j.plan, n.before = j.before,
           n.updated = With(j.updated, i, status),
           n.todo = IF status = "COMPLETED" THEN j.todo \ {i} ELSE {},
           n.state = IF status = "PENDING" THEN j.state ELSE Update(j.state, i, status)
    PROVE  JobGood(n, bad, more)
  <1> DEFINE D == DOMAIN j.updated
             U == With(j.updated, i, status)
  <1>1. /\ Loaded(j, bad, count) /\ Going(j, bad, count)
        /\ j.op \in {"run", "resume"}
        /\ j.plan \in Plans /\ j.updated \in Plans /\ j.state \in States
        /\ DOMAIN j.plan \subseteq Ids /\ D \subseteq Ids /\ j.todo \subseteq Ids
    BY Executing
  <1>2. i \in Ids /\ i \notin D /\ i \in Undone(j.plan) /\ Ids \subseteq Nat
    BY <1>1 DEF Going, Ids
  <1>3. /\ DOMAIN U = D \cup {i}
        /\ U[i] = status
        /\ \A k \in D : U[k] = j.updated[k]
    <2>1. i \in Ids /\ j.updated \in Plans
      BY <1>1, <1>2
    <2>2. /\ DOMAIN U = D \cup {i}
          /\ U[i] = status
          /\ \A k \in D : k # i => U[k] = j.updated[k]
      BY ONLY <2>1, status \in StepStatuses, Added
    <2> QED
      BY <2>2, <1>2
  <1> HIDE DEF U
  <1>left. /\ n.todo \subseteq j.todo \ {i}
           /\ status = "COMPLETED" => n.todo = j.todo \ {i}
           /\ status # "COMPLETED" => n.todo = {}
    OBVIOUS
  <1>nat. Ids \subseteq Nat /\ D \subseteq Nat /\ i \in Nat /\ j.todo \subseteq Nat
    BY <1>1, <1>2
  <1>least. \A k \in j.todo : i <= k
    OBVIOUS
  <1>behind. \A k \in j.todo \ {i} : i < k
    BY ONLY <1>nat, <1>least
  <1>counts. \A k \in Ids : count[k] \in Nat /\ more[k] \in Nat /\ count[k] <= more[k]
    OBVIOUS
  <1>4. \A k \in D : k < i /\ U[k] = "COMPLETED" /\ k \notin bad
    <2>1. \A k \in D : j.updated[k] = "COMPLETED" /\ k \notin bad /\ k < i
      BY <1>1 DEF Going
    <2> QED
      BY <2>1, <1>3
  <1>5. Done(U) = Done(j.updated) \cup (IF status = "PENDING" THEN {} ELSE {i})
    BY <1>2, <1>3 DEF Done
  <1>6. ToSet(n.state.completed) = n.before \cup Done(U)
    <2>1. ToSet(j.state.completed) = j.before \cup Done(j.updated)
      BY <1>1 DEF Going
    <2>2. CASE status = "PENDING"
      BY <2>1, <2>2, <1>5
    <2>3. CASE status # "PENDING"
      <3>1. status \in {"COMPLETED", "FAILED"}
        BY <2>3 DEF StepStatuses
      <3>2. ToSet(n.state.completed) = ToSet(j.state.completed) \cup {i}
        <4>1. n.state = Update(j.state, i, status)
          BY <2>3
        <4>2. j.state \in States /\ i \in Ids
          BY <1>1, <1>2
        <4>3. ToSet(Update(j.state, i, status).completed) = ToSet(j.state.completed) \cup {i}
          BY ONLY <4>2, <3>1, Updated
        <4> QED
          BY ONLY <4>1, <4>3
      <3> QED
        BY <3>2, <2>1, <2>3, <1>5
    <2> QED
      BY <2>2, <2>3
  <1>7. Loaded(n, bad, more)
    <2>1. Counted(j.plan, count)
      BY <1>1 DEF Loaded
    <2>3. Counted(n.plan, more)
      <3>1. DOMAIN j.plan \subseteq Ids
        BY <1>1
      <3>2. Counted(j.plan, more)
        <4>1. ASSUME NEW k \in DOMAIN j.plan, j.plan[k] = "COMPLETED"
              PROVE  more[k] > 0
          <5>1. k \in Ids /\ count[k] > 0
            BY <4>1, <2>1, <3>1 DEF Counted
          <5> QED
            BY ONLY <5>1, <1>counts
        <4> QED
          BY ONLY <4>1 DEF Counted
      <3> QED
        BY <3>2
    <2>2. n.op = "run" => (n.state.completed = << >> => n.state.status = "RUNNING")
      <3>1. CASE status = "PENDING"
        BY <3>1, <1>1 DEF Loaded
      <3>2. CASE status # "PENDING"
        <4>1. n.state \in States /\ i \in ToSet(n.state.completed)
          BY <3>2, <1>2, <1>3, <1>6 DEF Jobs, Done
        <4>2. n.state.completed \in Seq(Ids)
          BY <4>1 DEF States
        <4> QED
          BY <4>1, <4>2, NoElements
      <3> QED
        BY <3>1, <3>2
    <2> QED
      BY <2>3, <2>2, <1>1 DEF Loaded
  <1>8. Going(n, bad, more)
    <2>1. DOMAIN U \cup n.todo \subseteq Undone(n.plan)
      BY <1>1, <1>2, <1>3 DEF Going
    <2>2. \A k \in DOMAIN U, l \in n.todo : k < l
      <3>1. \A k \in D, l \in j.todo : k < l
        BY <1>1 DEF Going
      <3> QED
        BY ONLY <3>1, <1>3, <1>left, <1>behind
    <2>3. \A k \in Undone(n.plan) \ (DOMAIN U \cup n.todo) :
             \E l \in DOMAIN U : l < k /\ Stops(U, l, bad)
      <3> SUFFICES ASSUME NEW k \in Undone(n.plan) \ (DOMAIN U \cup n.todo)
                   PROVE  \E l \in DOMAIN U : l < k /\ Stops(U, l, bad)
        OBVIOUS
      <3>1. k \in Undone(j.plan) /\ k \notin D /\ k # i
        BY <1>3
      <3>2. CASE k \in j.todo
        <4>1. status # "COMPLETED" /\ i < k
          BY ONLY <3>1, <3>2, <1>left, <1>behind, k \notin n.todo
        <4>2. i \in DOMAIN U /\ Stops(U, i, bad)
          BY <4>1, <1>3 DEF Stops, StepStatuses
        <4> QED
          BY <4>1, <4>2
      <3>3. CASE k \notin j.todo
        <4>1. PICK l \in D : l < k /\ Stops(j.updated, l, bad)
          BY <3>1, <3>3, <1>1 DEF Going
        <4> QED
          BY <4>1, <1>3 DEF Stops
      <3> QED
        BY <3>2, <3>3
    <2>4. \A k \in DOMAIN U :
             /\ k \in bad <=> U[k] = "PENDING"
             /\ U[k] # "COMPLETED" => n.todo = {} /\ \A l \in DOMAIN U : l <= k
      <3>1. \A l \in DOMAIN U : l <= i
        BY ONLY <1>nat, <1>3, <1>4
      <3>2. i \in bad <=> U[i] = "PENDING"
        BY <1>3
      <3>3. U[i] # "COMPLETED" => n.todo = {}
        BY <1>3, <1>left
      <3> QED
        BY ONLY <3>1, <3>2, <3>3, <1>3, <1>4
    <2>5. Counted(U, more)
      <3>1. \A k \in D : U[k] = "COMPLETED" => count[k] > 0
        BY <1>1, <1>3 DEF Going, Counted
      <3>2. \A k \in D : U[k] = "COMPLETED" => more[k] > 0
        BY ONLY <3>1, <1>1, <1>counts, <1>nat
      <3>3. U[i] = "COMPLETED" => more[i] > 0
        BY <1>3
      <3> QED
        BY ONLY <3>2, <3>3, <1>3 DEF Counted
    <2>6. DOMAIN U # {}
      BY <1>3
    <2>7. n.updated = U
      BY DEF U
    <2> QED
      BY <2>1, <2>2, <2>3, <2>4, <2>5, <2>6, <2>7, <1>6 DEF Going
  <1> QED
    BY <1>1, <1>7, <1>8 DEF JobGood, Saving

-----------------------------------------------------------------------------
(* What a command concludes is good, and is an attempt at what it loaded.  *)

FinalPlan(j) == IF j.op = "run" THEN PlanOfRun(j) ELSE PlanOfResume(j)

StatusAtEnd(j) == IF j.op = "run" THEN StatusOfRun(j) ELSE StatusOfResume(j)

LEMMA FinalPlanIs ==
    ASSUME NEW j \in Jobs, NEW bad, NEW count, j.stage = "execute", JobGood(j, bad, count)
    PROVE  LET q == FinalPlan(j) IN
           /\ q \in Plans
           /\ DOMAIN q = j.before \cup DOMAIN j.updated
           /\ \A i \in j.before : i \notin DOMAIN j.updated /\ q[i] = j.plan[i]
           /\ \A i \in DOMAIN j.updated : q[i] = j.updated[i]
  <1>1. /\ Loaded(j, bad, count) /\ Going(j, bad, count)
        /\ j.op \in {"run", "resume"}
        /\ j.plan \in Plans /\ j.updated \in Plans
        /\ DOMAIN j.plan \subseteq Ids /\ DOMAIN j.updated \subseteq Ids
    BY Executing
  <1>2. j.before \subseteq DOMAIN j.plan /\ j.before \cap DOMAIN j.updated = {}
    BY <1>1 DEF Loaded, Going, Done, Undone
  <1>3. CASE j.op = "run"
    BY <1>1, <1>2, <1>3 DEF FinalPlan, PlanOfRun, Loaded
  <1>4. CASE j.op = "resume"
    <2> DEFINE q == PlanOfResume(j)
    <2>1. /\ DOMAIN q = j.before \cup DOMAIN j.updated
          /\ \A i \in j.before : q[i] = j.plan[i]
          /\ \A i \in DOMAIN j.updated : q[i] = j.updated[i]
      BY <1>2 DEF PlanOfResume
    <2>2. q \in [j.before \cup DOMAIN j.updated -> StepStatuses]
      <3>1. \A i \in j.before \cup DOMAIN j.updated :
               (IF i \in DOMAIN j.updated THEN j.updated[i] ELSE j.plan[i]) \in StepStatuses
        BY <1>1, <1>2, PlanParts
      <3>2. (DOMAIN j.plan \cap j.before) \cup DOMAIN j.updated = j.before \cup DOMAIN j.updated
        BY <1>2
      <3> QED
        BY <3>1, <3>2 DEF PlanOfResume
    <2>3. q \in Plans
      <3>1. j.before \cup DOMAIN j.updated \in SUBSET Ids
        BY <1>1, <1>2
      <3> QED
        BY ONLY <3>1, <2>2, PlanMade
    <2>4. FinalPlan(j) = q
      BY <1>4 DEF FinalPlan
    <2> QED
      BY <2>1, <2>3, <2>4, <1>2
  <1> QED
    BY <1>1, <1>3, <1>4

LEMMA FinalStatusIs ==
    ASSUME NEW j \in Jobs, NEW bad, NEW count, j.stage = "execute", JobGood(j, bad, count), j.todo = {}
    PROVE  LET s == StatusAtEnd(j) IN
           /\ s \in TaskStatuses
           /\ s = "FAILED" <=> HasFailed(j.updated)
           /\ s = "RUNNING" => j.op = "run" /\ Done(j.updated) = {}
           /\ j.op = "run" /\ Done(j.updated) = {} => s = "RUNNING"
  <1>1. /\ Loaded(j, bad, count) /\ Going(j, bad, count)
        /\ j.op \in {"run", "resume"} /\ j.state \in States
    BY Executing
  <1>2. CASE j.op = "run"
    <2>1. CASE j.state.completed = << >>
      <3>1. ToSet(j.state.completed) = {}
        BY <2>1, <1>1, NoElements DEF States
      <3>2. Done(j.updated) = {}
        BY <3>1, <1>1 DEF Going
      <3>3. ~HasFailed(j.updated)
        BY <3>2 DEF Done, HasFailed
      <3>4. StatusAtEnd(j) = "RUNNING"
        BY <1>1, <1>2, <2>1 DEF StatusAtEnd, StatusOfRun, Loaded
      <3> QED
        BY <3>2, <3>3, <3>4, <1>2 DEF TaskStatuses
    <2>2. CASE j.state.completed # << >>
      <3>1. ToSet(j.state.completed) # {}
        BY <2>2, <1>1, NoElements DEF States
      <3>2. Done(j.updated) # {}
        BY <3>1, <1>1, <1>2 DEF Loaded, Going
      <3> QED
        BY <3>2, <1>2, <2>2 DEF StatusAtEnd, StatusOfRun, TaskStatuses
    <2> QED
      BY <2>1, <2>2
  <1>3. CASE j.op = "resume"
    <2>1. DOMAIN j.updated # {}
      BY <1>1, <1>3 DEF Going
    <2>2. j.updated # NoSteps
      BY <2>1, PlansThere
    <2> QED
      BY <2>2, <1>3 DEF StatusAtEnd, StatusOfResume, TaskStatuses
  <1> QED
    BY <1>1, <1>2, <1>3

LEMMA Concluded ==
    ASSUME NEW j \in Jobs, NEW bad, NEW count, j.stage = "execute", JobGood(j, bad, count), j.todo = {}
    PROVE  /\ Record(FinalPlan(j), State(j.state.completed, StatusAtEnd(j))) \in Records
           /\ Good(Record(FinalPlan(j), State(j.state.completed, StatusAtEnd(j))), bad, count)
  <1> DEFINE q == FinalPlan(j)
             s == StatusAtEnd(j)
             D == DOMAIN j.updated
             r == Record(q, State(j.state.completed, s))
  <1>1. /\ Loaded(j, bad, count) /\ Going(j, bad, count)
        /\ j.op \in {"run", "resume"}
        /\ j.plan \in Plans /\ j.updated \in Plans /\ j.state \in States
        /\ DOMAIN j.plan \subseteq Ids /\ D \subseteq Ids
    BY Executing
  <1>2. /\ q \in Plans
        /\ DOMAIN q = j.before \cup D
        /\ \A i \in j.before : i \notin D /\ q[i] = j.plan[i]
        /\ \A i \in D : q[i] = j.updated[i]
    BY FinalPlanIs
  <1>3. /\ s \in TaskStatuses
        /\ s = "FAILED" <=> HasFailed(j.updated)
    BY FinalStatusIs
  <1> HIDE DEF q, s
  <1>4. r \in Records /\ r.plan = q /\ r.state.completed = j.state.completed /\ r.state.status = s
    BY <1>1, <1>2, <1>3 DEF Record, Records, State, States
  <1> HIDE DEF r
  <1>5. Ids \subseteq Nat
    BY DEF Ids
  <1>6. \A i \in j.before : i \in DOMAIN j.plan /\ j.plan[i] # "PENDING" /\ j.plan[i] # "FAILED"
    BY <1>1 DEF Loaded, Done, HasFailed
  <1>7. Done(q) = j.before \cup Done(j.updated) /\ Undone(q) = {i \in D : j.updated[i] = "PENDING"}
    BY <1>2, <1>6 DEF Done, Undone
  <1>8. \A i \in D : j.updated[i] # "COMPLETED" => \A k \in D : k <= i
    BY <1>1 DEF Going
  <1>9. HasFailed(q) <=> HasFailed(j.updated)
    BY <1>2, <1>6 DEF HasFailed
  <1>10. ToSet(r.state.completed) = Done(r.plan)
    BY <1>1, <1>4, <1>7 DEF Going
  <1>11. Counted(q, count)
    BY <1>1, <1>2, <1>6 DEF Loaded, Going, Counted
  <1>12. \A i \in Undone(j.plan) \ D : \E k \in DOMAIN q : k < i /\ Stops(q, k, bad)
    BY <1>1, <1>2 DEF Going, Stops
  <1>13. \A i \in Ids \ DOMAIN q : \E k \in DOMAIN q : k < i /\ Stops(q, k, bad)
    <2> SUFFICES ASSUME NEW i \in Ids \ DOMAIN q
                 PROVE  \E k \in DOMAIN q : k < i /\ Stops(q, k, bad)
      OBVIOUS
    <2>1. CASE i \in DOMAIN j.plan
      BY <2>1, <1>1, <1>2, <1>12 DEF Loaded, Undone
    <2>2. CASE i \notin DOMAIN j.plan
      <3>1. PICK k \in DOMAIN j.plan : k < i /\ k \in bad
        BY <2>2, <1>1 DEF Loaded
      <3>2. CASE k \in DOMAIN q
        BY <3>1, <3>2 DEF Stops
      <3>3. CASE k \notin DOMAIN q
        <4>1. k \in Undone(j.plan) \ D
          BY <3>3, <1>1, <1>2 DEF Loaded, Undone
        <4>2. PICK l \in DOMAIN q : l < k /\ Stops(q, l, bad)
          BY <4>1, <1>12
        <4>3. l \in Nat /\ k \in Nat /\ i \in Nat
          BY <1>1, <1>2, <1>5, <1>6
        <4> QED
          BY <4>2, <4>3, <3>1
      <3> QED
        BY <3>2, <3>3
    <2> QED
      BY <2>1, <2>2
  <1>14. \A i \in Done(q), k \in Undone(q) : i < k
    <2> SUFFICES ASSUME NEW i \in Done(q), NEW k \in Undone(q)
                 PROVE  i < k
      OBVIOUS
    <2>1. k \in D /\ k \in Undone(j.plan) /\ \A l \in D : l <= k
      BY <1>1, <1>7, <1>8 DEF Going
    <2>2. CASE i \in j.before
      BY <2>1, <2>2, <1>1 DEF Loaded
    <2>3. CASE i \in Done(j.updated)
      <3>1. i \in D /\ i # k
        BY <2>3, <1>7 DEF Done
      <3>2. i \in Nat /\ k \in Nat
        BY <3>1, <2>1, <1>1, <1>5
      <3> QED
        BY <3>1, <3>2, <2>1
    <2> QED
      BY <2>2, <2>3, <1>7
  <1>15. HasFailed(q) => Undone(q) = {}
    <2> SUFFICES ASSUME NEW i \in D, j.updated[i] = "FAILED", NEW k \in Undone(q)
                 PROVE  FALSE
      BY <1>9 DEF HasFailed
    <2>1. k \in D /\ j.updated[k] = "PENDING"
      BY <1>7
    <2>2. k <= i /\ i <= k /\ i \in Nat /\ k \in Nat
      BY <2>1, <1>1, <1>5, <1>8
    <2> QED
      BY <2>1, <2>2
  <1>16. \A i \in Undone(q) : i \in bad /\ i <= i
    BY <1>1, <1>5, <1>7 DEF Going
  <1>17. Good(r, bad, count)
    BY <1>3, <1>4, <1>9, <1>10, <1>11, <1>13, <1>14, <1>15, <1>16 DEF Good
  <1> QED
    BY <1>4, <1>17 DEF r, q, s

LEMMA FreshIs ==
    ASSUME NEW bad, NEW count
    PROVE  /\ FreshState \in States /\ FreshPlan \in Plans /\ NoSteps \in Plans
           /\ Record(FreshPlan, FreshState) \in Records
           /\ ToSet(FreshState.completed) = {} /\ FreshState.status = "RUNNING"
           /\ Done(FreshPlan) = {} /\ Undone(FreshPlan) = Ids /\ ~HasFailed(FreshPlan)
           /\ Counted(FreshPlan, count)
           /\ Good(Record(FreshPlan, FreshState), bad, count)
  <1>1. FreshState.completed = << >> /\ FreshState.status = "RUNNING"
    BY DEF FreshState, State
  <1>2. FreshState \in States
    BY DEF FreshState, State, States, TaskStatuses
  <1>3. ToSet(FreshState.completed) = {}
    BY <1>1, <1>2, NoElements DEF States
  <1>4. Record(FreshPlan, FreshState) \in Records
    BY <1>2, PlansThere DEF Record, Records
  <1>5. Done(FreshPlan) = {} /\ Undone(FreshPlan) = Ids /\ ~HasFailed(FreshPlan) /\ Counted(FreshPlan, count)
    BY DEF FreshPlan, Done, Undone, HasFailed, Counted
  <1>6. Record(FreshPlan, FreshState).plan = FreshPlan /\ Record(FreshPlan, FreshState).state = FreshState
    BY DEF Record
  <1>7. Good(Record(FreshPlan, FreshState), bad, count)
    BY <1>1, <1>3, <1>5, <1>6, PlansThere DEF Good
  <1> QED
    BY <1>1, <1>2, <1>3, <1>4, <1>5, <1>7, PlansThere

LEMMA IdleIs ==
    ASSUME NEW bad, NEW count
    PROVE  Idle \in Jobs /\ JobGood(Idle, bad, count) /\ Idle.stage = "idle" /\ Idle.op = "none"
  <1>1. Idle \in Jobs
    BY FreshIs DEF Idle, Jobs, Ops, Stages
  <1> QED
    BY <1>1 DEF Idle, JobGood, Saving

\* A plan saved untouched, and then executed.
LEMMA Submitted ==
    ASSUME NEW bad, NEW count, NEW n,
           n = [Idle EXCEPT !.op = "submit", !.stage = "open", !.plan = FreshPlan]
    PROVE  n \in Jobs /\ JobGood(n, bad, count) /\ n.op = "submit" /\ n.stage = "open"
  <1>1. /\ n.op = "submit" /\ n.stage = "open" /\ n.plan = FreshPlan /\ n.state = FreshState
        /\ n.before = {} /\ n.updated = NoSteps
    BY DEF Idle
  <1>2. n \in Jobs
    BY FreshIs DEF Idle, Jobs, Ops, Stages
  <1> QED
    BY <1>1, <1>2, FreshIs DEF JobGood, Saving

LEMMA Begun ==
    ASSUME NEW j \in Jobs, NEW bad, NEW count, JobGood(j, bad, count), j.op = "submit",
           NEW n, n = [j EXCEPT !.op = "run", !.stage = "execute", !.todo = DOMAIN j.plan]
    PROVE  /\ n \in Jobs /\ JobGood(n, bad, count)
           /\ n.op = "run" /\ n.stage = "execute" /\ n.plan = FreshPlan
           /\ Record(j.plan, j.state) = Record(FreshPlan, FreshState)
  <1>1. j.plan = FreshPlan /\ j.state = FreshState /\ j.before = {} /\ j.updated = NoSteps
    BY DEF JobGood
  <1>2. n \in Jobs
    BY <1>1, PlansThere DEF Jobs, Ops, Stages
  <1>3. /\ n.op = "run" /\ n.stage = "execute" /\ n.plan = FreshPlan /\ n.state = FreshState
        /\ n.before = {} /\ n.updated = NoSteps /\ n.todo = Ids
    BY <1>1, PlansThere DEF Jobs
  <1>4. Loaded(n, bad, count)
    BY <1>3, FreshIs, PlansThere DEF Loaded
  <1>5. Done(NoSteps) = {} /\ Counted(NoSteps, count)
    BY PlansThere DEF Done, Counted
  <1>6. Going(n, bad, count)
    BY <1>3, <1>5, FreshIs, PlansThere DEF Going
  <1> QED
    BY <1>1, <1>2, <1>3, <1>4, <1>6 DEF JobGood, Saving

ResumeOf(r) ==
    LET todo == Remaining(r.plan, r.state) IN
    [Idle EXCEPT !.op = "resume", !.stage = IF todo = {} THEN "open" ELSE "execute",
                 !.plan = r.plan, !.state = r.state, !.before = ToSet(r.state.completed), !.todo = todo]

LEMMA Resumed ==
    ASSUME NEW r \in Records, NEW bad, NEW count, Good(r, bad, count)
    PROVE  LET n == ResumeOf(r) IN
           /\ n \in Jobs /\ JobGood(n, bad, count)
           /\ n.op = "resume" /\ n.stage \in {"open", "execute"} /\ n.plan = r.plan /\ n.state = r.state
  <1> DEFINE todo == Remaining(r.plan, r.state)
             n == ResumeOf(r)
  <1>1. r.plan \in Plans /\ r.state \in States /\ DOMAIN r.plan \subseteq Ids
    BY PlanParts DEF Records
  <1>2. ToSet(r.state.completed) = Done(r.plan) /\ todo = Undone(r.plan)
    BY DEF Good, Remaining, Undone
  <1>3. ToSet(r.state.completed) \subseteq Ids /\ todo \subseteq Ids
    BY <1>1, <1>2 DEF Done, Undone
  <1>4. /\ n.op = "resume" /\ n.plan = r.plan /\ n.state = r.state /\ n.before = ToSet(r.state.completed)
        /\ n.todo = todo /\ n.updated = NoSteps /\ n.stage = IF todo = {} THEN "open" ELSE "execute"
    BY DEF Idle, ResumeOf
  <1>5. n \in Jobs
    BY <1>1, <1>3, FreshIs DEF ResumeOf, Idle, Jobs, Ops, Stages
  <1> HIDE DEF n, todo
  <1>6. r = Record(r.plan, r.state)
    BY DEF Records, Record
  <1>7. ASSUME todo = {}  PROVE JobGood(n, bad, count)
    BY <1>4, <1>5, <1>6, <1>7 DEF JobGood, Saving
  <1>8. ASSUME todo # {}  PROVE JobGood(n, bad, count)
    <2>1. ~HasFailed(r.plan)
      BY <1>2, <1>8 DEF Good
    <2>2. \A i \in Ids \ DOMAIN r.plan : \E k \in DOMAIN r.plan : k < i /\ k \in bad
      BY <2>1 DEF Good, Stops, HasFailed
    <2>3. Loaded(n, bad, count)
      BY <2>1, <2>2, <1>2, <1>4 DEF Loaded, Good
    <2>4. Done(NoSteps) = {} /\ Counted(NoSteps, count)
      BY PlansThere DEF Done, Counted
    <2>5. Going(n, bad, count)
      BY <2>4, <1>2, <1>4, <1>8, PlansThere DEF Going
    <2>6. n.stage = "execute" /\ n.op = "resume"
      BY <1>4, <1>8
    <2> QED
      BY ONLY <2>3, <2>5, <2>6 DEF JobGood, Saving
  <1>9. n.stage \in {"open", "execute"}
    BY <1>4
  <1> QED
    BY <1>4, <1>5, <1>7, <1>8, <1>9 DEF n

LEMMA AttemptMade ==
    ASSUME NEW j \in Jobs, NEW bad, NEW count, j.stage = "execute", JobGood(j, bad, count), j.todo = {},
           NEW r \in Records, r.plan = j.plan, j.op = "run" => r.state.status = "RUNNING",
           NEW s, s = Record(FinalPlan(j), State(j.state.completed, StatusAtEnd(j)))
    PROVE  Abstract(s) = Abstract(r) \/ Attempted(Abstract(r), Abstract(s), bad)
  <1> DEFINE D == DOMAIN j.updated
             P == Undone(j.plan)
             a == Abstract(r)
             b == Abstract(s)
  <1>1. /\ Loaded(j, bad, count) /\ Going(j, bad, count)
        /\ j.op \in {"run", "resume"}
        /\ j.plan \in Plans /\ j.updated \in Plans
        /\ DOMAIN j.plan \subseteq Ids /\ D \subseteq Ids
    BY Executing
  <1>2. /\ DOMAIN FinalPlan(j) = j.before \cup D
        /\ \A i \in j.before : i \notin D /\ FinalPlan(j)[i] = j.plan[i]
        /\ \A i \in D : FinalPlan(j)[i] = j.updated[i]
    BY FinalPlanIs
  <1>3. /\ b.status \in TaskStatuses
        /\ b.status = "FAILED" <=> HasFailed(j.updated)
        /\ b.status = "RUNNING" => j.op = "run" /\ Done(j.updated) = {}
        /\ j.op = "run" /\ Done(j.updated) = {} => b.status = "RUNNING"
    BY FinalStatusIs DEF Abstract, Record, State
  <1>4. s.plan = FinalPlan(j)
    BY DEF Record
  <1>5. /\ a = [step |-> [i \in Ids |-> StepStatus(r, i)], status |-> r.state.status]
        /\ \A i \in DOMAIN j.plan : a.step[i] = j.plan[i]
        /\ \A i \in Ids \ DOMAIN j.plan : a.step[i] = "DROPPED"
    BY <1>1 DEF Abstract, StepStatus
  <1>6. /\ b = [step |-> [i \in Ids |-> StepStatus(s, i)], status |-> b.status]
        /\ \A i \in j.before : b.step[i] = j.plan[i]
        /\ \A i \in D : b.step[i] = j.updated[i]
        /\ \A i \in Ids \ (j.before \cup D) : b.step[i] = "DROPPED"
    BY <1>1, <1>2, <1>4 DEF Abstract, StepStatus, Loaded, Done
  <1>7. b.step = [i \in Ids |-> b.step[i]] /\ a.step = [i \in Ids |-> a.step[i]]
    BY DEF Abstract
  <1>8. a = [step |-> a.step, status |-> r.state.status] /\ b = [step |-> b.step, status |-> b.status]
    BY DEF Abstract
  <1>9. /\ j.before \cup P = DOMAIN j.plan /\ j.before \cap P = {} /\ P \subseteq Ids /\ D \subseteq P
        /\ P = {i \in DOMAIN j.plan : j.plan[i] = "PENDING"}
    BY <1>1 DEF Loaded, Going, Done, Undone
  <1>10. PendingIn(a) = P
    BY <1>5, <1>9 DEF PendingIn
  <1>11. Ids \subseteq Nat
    BY DEF Ids
  <1>12. \A i \in P \ D : \E k \in D : k < i /\ (j.updated[k] = "FAILED" \/ k \in bad)
    BY <1>1 DEF Going, Stops
  <1>13. \A i \in D : /\ i \in bad <=> j.updated[i] = "PENDING"
                      /\ j.updated[i] # "COMPLETED" => \A k \in D : k <= i
    BY <1>1 DEF Going
  <1>14. \A i \in D : j.updated[i] \in StepStatuses
    BY <1>1, PlanParts
  <1>15. j.op = "resume" => D # {}
    BY <1>1 DEF Going
  <1> HIDE DEF P, a, b
  <1>16. CASE D = {}
    <2>1. P = {} /\ j.op = "run" /\ Done(j.updated) = {}
      BY <1>1, <1>12, <1>15, <1>16 DEF Done
    <2>2. \A i \in Ids : b.step[i] = a.step[i]
      BY <2>1, <1>5, <1>6, <1>9, <1>16
    <2>3. b.status = r.state.status
      BY <2>1, <1>3
    <2>4. b.step = a.step
      BY <2>2, <1>7
    <2>5. b = a
      BY <2>3, <2>4, <1>8
    <2> QED
      BY <2>5 DEF a, b
  <1>17. CASE D # {} /\ \A i \in D : j.updated[i] = "COMPLETED"
    <2>1. P = D /\ \A i \in D : i \notin bad
      BY <1>9, <1>12, <1>13, <1>17
    <2>2. b.status = "COMPLETED"
      <3>1. ~HasFailed(j.updated)
        BY <1>17 DEF HasFailed
      <3>2. Done(j.updated) # {}
        BY <1>17 DEF Done
      <3> QED
        BY <3>1, <3>2, <1>3 DEF TaskStatuses
    <2>3. \A i \in Ids : b.step[i] = IF i \in PendingIn(a) THEN "COMPLETED" ELSE a.step[i]
      BY <2>1, <1>5, <1>6, <1>9, <1>10, <1>17
    <2>4. b.step = AllDone(a)
      BY <2>3, <1>7 DEF AllDone
    <2>5. b = [step |-> AllDone(a), status |-> "COMPLETED"]
      BY <2>2, <2>4, <1>8
    <2>6. PendingIn(a) # {} /\ PendingIn(a) \cap bad = {}
      BY <2>1, <1>10, <1>17
    <2> QED
      BY <2>5, <2>6 DEF Attempted, a, b
  <1>18. ASSUME NEW d \in D, j.updated[d] # "COMPLETED"
         PROVE  Attempted(a, b, bad)
    <2>1. \A k \in D : k <= d /\ k \in Nat /\ d \in Nat
      BY <1>1, <1>11, <1>13, <1>18
    <2>2. \A k \in D : k # d => k < d /\ j.updated[k] = "COMPLETED" /\ k \notin bad
      BY <2>1, <1>13
    <2>3. \A k \in P : k < d => k \in D
      <3> SUFFICES ASSUME NEW k \in P, k < d, k \notin D
                   PROVE  FALSE
        OBVIOUS
      <3>1. PICK l \in D : l < k /\ (j.updated[l] = "FAILED" \/ l \in bad)
        BY <1>12
      <3>2. l = d
        BY <3>1, <2>2
      <3> QED
        BY <3>1, <3>2, <2>1, <1>9, <1>11
    <2>4. \A k \in Ids : b.step[k] = IF k \notin PendingIn(a) THEN a.step[k]
                                     ELSE IF k < d THEN "COMPLETED" ELSE IF k = d THEN j.updated[d] ELSE "DROPPED"
      <3> SUFFICES ASSUME NEW k \in Ids
                   PROVE  b.step[k] = IF k \notin PendingIn(a) THEN a.step[k]
                                      ELSE IF k < d THEN "COMPLETED" ELSE IF k = d THEN j.updated[d] ELSE "DROPPED"
        OBVIOUS
      <3>1. CASE k \notin P
        <4>1. b.step[k] = a.step[k]
          BY <3>1, <1>5, <1>6, <1>9
        <4> QED
          BY <4>1, <3>1, <1>10
      <3>2. CASE k \in P /\ k < d
        <4>1. k \in D /\ k # d
          BY <3>2, <2>1, <2>3
        <4>2. b.step[k] = "COMPLETED"
          BY <4>1, <2>2, <1>6
        <4> QED
          BY <4>2, <3>2, <1>10
      <3>3. CASE k = d
        <4>1. ~(d < d)
          BY <2>1
        <4> QED
          BY <4>1, <3>3, <1>6, <1>9, <1>10
      <3>4. CASE k \in P /\ ~(k < d) /\ k # d
        <4>1. k \notin D
          BY <3>4, <2>2
        <4>2. k \notin j.before
          BY <3>4, <1>9
        <4> QED
          BY <4>1, <4>2, <3>4, <1>6, <1>10
      <3> QED
        BY <3>1, <3>2, <3>3, <3>4
    <2>5. b.step = StoppedAt(a, d, j.updated[d])
      BY <2>4, <1>7 DEF StoppedAt
    <2>6. d \in PendingIn(a) /\ AheadIn(a, d) \cap bad = {}
      <3>1. \A k \in AheadIn(a, d) : k \in D /\ k # d
        BY <2>1, <2>3, <1>10 DEF AheadIn
      <3> QED
        BY <3>1, <2>2, <1>9, <1>10
    <2>7. CASE j.updated[d] = "FAILED"
      <3>1. d \notin bad /\ b.status = "FAILED"
        BY <2>7, <1>3, <1>13 DEF HasFailed
      <3>2. b = [step |-> StoppedAt(a, d, "FAILED"), status |-> "FAILED"]
        BY <3>1, <2>5, <2>7, <1>8
      <3> QED
        BY <3>1, <3>2, <2>6 DEF Attempted
    <2>8. CASE j.updated[d] = "PENDING"
      <3>1. d \in bad /\ b.step = StoppedAt(a, d, "PENDING")
        BY <2>5, <2>8, <1>13
      <3>2. ~HasFailed(j.updated)
        BY <2>2, <2>8 DEF HasFailed
      <3>3. CASE b.status = "COMPLETED"
        <4>1. b = [step |-> StoppedAt(a, d, "PENDING"), status |-> "COMPLETED"]
          BY <3>1, <3>3, <1>8
        <4> QED
          BY <4>1, <3>1, <2>6 DEF Attempted
      <3>4. CASE b.status = "RUNNING"
        <4>1. Done(j.updated) = {} /\ r.state.status = "RUNNING"
          BY <3>4, <1>3
        <4>2. AheadIn(a, d) = {}
          <5>1. ASSUME NEW k \in AheadIn(a, d)  PROVE k \in Done(j.updated)
            <6>1. k \in D /\ k # d
              BY <2>1, <2>3, <1>10 DEF AheadIn
            <6> QED
              BY <6>1, <2>2 DEF Done
          <5> QED
            BY <5>1, <4>1
        <4>3. a.status = "RUNNING"
          BY <4>1, <1>5
        <4>4. b = [step |-> StoppedAt(a, d, "PENDING"), status |-> a.status]
          BY <4>3, <3>1, <3>4, <1>8
        <4> QED
          BY <4>2, <4>4, <3>1, <2>6 DEF Attempted
      <3> QED
        BY <3>2, <3>3, <3>4, <1>3 DEF TaskStatuses
    <2> QED
      BY <2>7, <2>8, <1>14, <1>18 DEF StepStatuses
  <1> QED
    BY <1>16, <1>17, <1>18 DEF a, b

-----------------------------------------------------------------------------
(* The invariant from one state to the next.                               *)

\* Only the command's own job changes.
LEMMA OneJob ==
    ASSUME TypeOK, JobsGood, NEW p \in Commands, NEW n \in Jobs,
           job' = [job EXCEPT ![p] = n], invalid' = invalid,
           ran' \in [Ids -> Nat], \A i \in Ids : ran[i] <= ran'[i],
           JobGood(n, invalid, ran')
    PROVE  /\ job' \in [Commands -> Jobs]
           /\ job'[p] = n /\ \A q \in Commands \ {p} : job'[q] = job[q]
           /\ JobsGood'
  <1>1. job \in [Commands -> Jobs] /\ ran \in [Ids -> Nat]
    BY DEF TypeOK
  <1>2. /\ job' \in [Commands -> Jobs]
        /\ job'[p] = n /\ \A q \in Commands \ {p} : job'[q] = job[q]
    BY <1>1
  <1>3. ASSUME NEW q \in Commands  PROVE JobGood(job'[q], invalid', ran')
    <2>1. CASE q = p
      BY <2>1, <1>2
    <2>2. CASE q # p
      <3>1. job[q] \in Jobs /\ JobGood(job[q], invalid, ran)
        BY <1>1 DEF JobsGood
      <3>2. PICK more \in [Ids -> Nat] : more = ran'
        OBVIOUS
      <3>3. \A i \in Ids : ran[i] <= more[i]
        BY <3>2
      <3>4. JobGood(job[q], invalid, more)
        BY ONLY <3>1, <3>3, <1>1, more \in [Ids -> Nat], JobKept
      <3> QED
        BY <3>2, <3>4, <2>2, <1>2
    <2> QED
      BY <2>1, <2>2
  <1> QED
    BY <1>2, <1>3 DEF JobsGood

\* The records stay good as long as none is written that is not.
LEMMA RecordsKept ==
    ASSUME TypeOK, RecordsGood, invalid' = invalid,
           ran' \in [Ids -> Nat], \A i \in Ids : ran[i] <= ran'[i],
           \A k \in Inodes : content'[k] = content[k] \/ (IsRecord(content'[k]) => Good(content'[k], invalid, ran'))
    PROVE  RecordsGood'
  <1>1. ASSUME NEW k \in Inodes, IsRecord(content'[k]), content'[k] = content[k]
        PROVE  Good(content'[k], invalid, ran')
    <2>1. content[k] \in Records /\ Good(content[k], invalid, ran) /\ ran \in [Ids -> Nat]
      BY <1>1 DEF TypeOK, RecordsGood, IsRecord
    <2>2. PICK more \in [Ids -> Nat] : more = ran'
      OBVIOUS
    <2>3. \A i \in Ids : ran[i] <= more[i]
      BY <2>2
    <2>4. Good(content[k], invalid, more)
      BY ONLY <2>1, <2>3, more \in [Ids -> Nat], GoodKept
    <2> QED
      BY <2>2, <2>4, <1>1
  <1> QED
    BY <1>1 DEF RecordsGood

\* While commands come one at a time, the others are idle.
LEMMA OthersIdle ==
    ASSUME TaskInv, alone, NEW p \in Commands, job[p].stage # "idle"
    PROVE  \A q \in Commands \ {p} : job[q].stage = "idle"
  BY DEF TaskInv, AloneInv, OneAtATime

LEMMA AloneKept ==
    ASSUME TaskInv, NEW p \in Commands, NEW n \in Jobs,
           job' = [job EXCEPT ![p] = n], alone' = alone, invalid' = invalid,
           alone => /\ \A q \in Commands \ {p} : job[q].stage = "idle"
                    /\ tmp' # 0 => tmp' # path'
                    /\ n.stage = "write" => tmp' # 0 /\ n.handle = tmp' /\ content'[tmp'] = Empty
                    /\ n.stage = "rename" => tmp' # 0 /\ content'[tmp'] = Record(n.plan, n.state)
                    /\ n.op \in {"run", "resume"} =>
                         path' # 0 /\ IsRecord(content'[path']) /\ Follows(n, content'[path'], invalid')
    PROVE  AloneInv'
  <1> SUFFICES ASSUME alone
               PROVE  /\ OneAtATime' /\ FilesApart'
                      /\ \A q \in Commands : OwnTemporary(job[q])' /\ OwnRecord(job[q])'
    BY DEF AloneInv
  <1>1. job \in [Commands -> Jobs] /\ JobsGood
    BY DEF TaskInv, TypeOK
  <1>2. job'[p] = n /\ \A q \in Commands \ {p} : job'[q].stage = "idle" /\ job'[q].op = "none"
    <2>1. \A q \in Commands \ {p} : job[q].stage = "idle" /\ job[q].op = "none"
      BY <1>1 DEF JobsGood, JobGood
    <2> QED
      BY <2>1, <1>1
  <1>3. OneAtATime'
    BY <1>2 DEF OneAtATime
  <1>4. FilesApart'
    BY DEF FilesApart
  <1>5. ASSUME NEW q \in Commands \ {p}  PROVE OwnTemporary(job[q])' /\ OwnRecord(job[q])'
    BY <1>2 DEF OwnTemporary, OwnRecord
  <1>6. OwnTemporary(job[p])' /\ OwnRecord(job[p])'
    BY <1>2 DEF OwnTemporary, OwnRecord, SavedRecord, Saved
  <1> QED
    BY <1>3, <1>4, <1>5, <1>6

\* A step that leaves the files alone.
LEMMA SameFiles ==
    ASSUME TaskInv, NEW p \in Commands, NEW n \in Jobs,
           job' = [job EXCEPT ![p] = n],
           UNCHANGED <<alone, invalid, content, tmp, path>>,
           ran' \in [Ids -> Nat], \A i \in Ids : ran[i] <= ran'[i],
           JobGood(n, invalid, ran'),
           n.stage \notin {"write", "rename"},
           alone => /\ \A q \in Commands \ {p} : job[q].stage = "idle"
                    /\ n.op \in {"run", "resume"} => SavedRecord /\ Follows(n, Saved, invalid)
    PROVE  TaskInv'
  <1>1. job' \in [Commands -> Jobs] /\ JobsGood'
    BY OneJob DEF TaskInv
  <1>2. RecordsGood'
    BY RecordsKept DEF TaskInv
  <1>3. TypeOK'
    BY <1>1 DEF TaskInv, TypeOK
  <1>4. alone => (tmp # 0 => tmp # path)
    BY DEF TaskInv, AloneInv, FilesApart
  <1>5. AloneInv'
    BY <1>4, AloneKept DEF SavedRecord, Saved
  <1> QED
    BY <1>1, <1>2, <1>3, <1>5 DEF TaskInv

-----------------------------------------------------------------------------
(* The actions that leave the files alone.                                 *)

LEMMA Ready ==
    ASSUME TaskInv, NEW p \in Commands
    PROVE  /\ job \in [Commands -> Jobs] /\ job[p] \in Jobs /\ JobGood(job[p], invalid, ran)
           /\ ran \in [Ids -> Nat] /\ \A i \in Ids : ran[i] <= ran[i]
  BY DEF TaskInv, TypeOK, JobsGood

LEMMA StartRunKeeps ==
    ASSUME TaskInv, NEW p \in Commands, StartRun(p)
    PROVE  TaskInv'
  <1>1. PICK n : n = [Idle EXCEPT !.op = "submit", !.stage = "open", !.plan = FreshPlan]
    OBVIOUS
  <1>2. n \in Jobs /\ JobGood(n, invalid, ran) /\ n.op = "submit" /\ n.stage = "open"
    BY <1>1, Submitted
  <1>3. /\ job' = [job EXCEPT ![p] = n] /\ UNCHANGED <<alone, invalid, content, tmp, path, ran>>
        /\ alone => \A q \in Commands : job[q].stage = "idle"
    BY <1>1 DEF StartRun, Begin
  <1> QED
    BY <1>2, <1>3, Ready, SameFiles

LEMMA StartResumeKeeps ==
    ASSUME TaskInv, NEW p \in Commands, StartResume(p)
    PROVE  TaskInv'
  <1>1. Saved \in Records /\ Good(Saved, invalid, ran) /\ SavedRecord
    BY DEF StartResume, TaskInv, TypeOK, RecordsGood, IsRecord, Saved, SavedRecord
  <1>2. PICK r \in Records : r = Saved
    BY <1>1
  <1>3. PICK n : n = ResumeOf(r)
    OBVIOUS
  <1>4. /\ job' = [job EXCEPT ![p] = n] /\ UNCHANGED <<alone, invalid, content, tmp, path, ran>>
        /\ alone => \A q \in Commands : job[q].stage = "idle"
    BY <1>2, <1>3 DEF StartResume, Begin, ResumeOf
  <1>5. /\ n \in Jobs /\ JobGood(n, invalid, ran)
        /\ n.op = "resume" /\ n.stage \in {"open", "execute"} /\ n.plan = r.plan /\ n.state = r.state
    BY <1>1, <1>2, <1>3, Resumed
  <1>6. Record(n.plan, n.state) = r
    BY <1>5 DEF Record, Records
  <1>7. Follows(n, Saved, invalid)
    BY <1>2, <1>5, <1>6 DEF Follows, Saving
  <1> QED
    BY <1>1, <1>4, <1>5, <1>7, Ready, SameFiles

\* A step of the loop that ends as status.
Stepped(j, i, status) ==
    [j EXCEPT !.todo = IF status = "COMPLETED" THEN @ \ {i} ELSE {},
              !.updated = With(@, i, status),
              !.state = IF status = "PENDING" THEN @ ELSE Update(@, i, status)]

LEMMA LoopKeeps ==
    ASSUME TaskInv, NEW p \in Commands, NEW i \in Ids, AtStep(p, i),
           NEW status \in StepStatuses, i \in invalid <=> status = "PENDING",
           job' = [job EXCEPT ![p] = Stepped(job[p], i, status)],
           UNCHANGED <<alone, invalid, content, tmp, path>>,
           ran' = IF status = "COMPLETED" THEN [ran EXCEPT ![i] = @ + 1] ELSE ran
    PROVE  TaskInv'
  <1> DEFINE j == job[p]
  <1>1. /\ j \in Jobs /\ JobGood(j, invalid, ran) /\ ran \in [Ids -> Nat]
        /\ j.stage = "execute" /\ i \in j.todo /\ \A k \in j.todo : i <= k
    BY Ready DEF AtStep
  <1>2. /\ j.plan \in Plans /\ j.updated \in Plans /\ j.state \in States /\ j.todo \subseteq Ids
        /\ j.op \in {"run", "resume"}
    BY <1>1, Executing
  <1>0. PICK n : n = Stepped(j, i, status)
    OBVIOUS
  <1>3. /\ n.op = j.op /\ n.stage = j.stage /\ n.plan = j.plan /\ n.before = j.before
        /\ n.updated = With(j.updated, i, status)
        /\ n.todo = IF status = "COMPLETED" THEN j.todo \ {i} ELSE {}
        /\ n.state = IF status = "PENDING" THEN j.state ELSE Update(j.state, i, status)
    BY <1>0, <1>1 DEF Jobs, Stepped
  <1>4. n \in Jobs
    <2>1. With(j.updated, i, status) \in Plans
      BY <1>2, Added
    <2>2. (IF status = "PENDING" THEN j.state ELSE Update(j.state, i, status)) \in States
      BY <1>2, Updated DEF StepStatuses
    <2>3. (IF status = "COMPLETED" THEN j.todo \ {i} ELSE {}) \in SUBSET Ids
      BY <1>2
    <2> QED
      BY <1>0, <1>1, <2>1, <2>2, <2>3 DEF Jobs, Stepped
  <1>5. /\ ran' \in [Ids -> Nat] /\ \A k \in Ids : ran[k] <= ran'[k]
        /\ status = "COMPLETED" => ran'[i] > 0
    BY <1>1
  <1>6. PICK more \in [Ids -> Nat] : more = ran'
    BY <1>5
  <1>7. JobGood(n, invalid, more)
    <2>1. /\ \A k \in Ids : ran[k] <= more[k]
          /\ status = "COMPLETED" => more[i] > 0
      BY <1>5, <1>6
    <2>2. i \in invalid <=> status = "PENDING"
      OBVIOUS
    <2> QED
      BY ONLY <1>1, <1>3, <1>4, <2>1, <2>2, status \in StepStatuses, more \in [Ids -> Nat], Reached
  <1>8. alone => SavedRecord /\ Follows(n, Saved, invalid)
    <2>1. alone => SavedRecord /\ Follows(j, Saved, invalid)
      BY <1>2 DEF TaskInv, AloneInv, OwnRecord
    <2> QED
      BY <2>1, <1>1, <1>3 DEF Follows, Saving
  <1>9. alone => \A q \in Commands \ {p} : job[q].stage = "idle"
    BY <1>1, OthersIdle
  <1>10. JobGood(n, invalid, ran') /\ n.stage \notin {"write", "rename"}
    BY <1>1, <1>3, <1>6, <1>7
  <1> QED
    BY <1>0, <1>4, <1>5, <1>8, <1>9, <1>10, SameFiles

LEMMA CompleteStepKeeps ==
    ASSUME TaskInv, NEW p \in Commands, NEW i \in Ids, CompleteStep(p, i)
    PROVE  TaskInv'
  <1>1. job' = [job EXCEPT ![p] = Stepped(job[p], i, "COMPLETED")]
    BY Ready DEF CompleteStep, Stepped, Jobs
  <1> QED
    BY <1>1, LoopKeeps DEF CompleteStep, StepStatuses

LEMMA FailStepKeeps ==
    ASSUME TaskInv, NEW p \in Commands, NEW i \in Ids, FailStep(p, i)
    PROVE  TaskInv'
  <1>1. job' = [job EXCEPT ![p] = Stepped(job[p], i, "FAILED")]
    BY Ready DEF FailStep, Stepped, Jobs
  <1> QED
    BY <1>1, LoopKeeps DEF FailStep, StepStatuses

LEMMA RejectStepKeeps ==
    ASSUME TaskInv, NEW p \in Commands, NEW i \in Ids, RejectStep(p, i)
    PROVE  TaskInv'
  <1>1. job[p].plan[i] = "PENDING"
    <2>1. i \in Undone(job[p].plan)
      BY Ready DEF RejectStep, AtStep, JobGood, Going
    <2> QED
      BY <2>1 DEF Undone, Done
  <1>2. job' = [job EXCEPT ![p] = Stepped(job[p], i, "PENDING")]
    BY <1>1, Ready DEF RejectStep, Stepped, Jobs
  <1> QED
    BY <1>2, LoopKeeps DEF RejectStep, StepStatuses

LEMMA ConcludeKeeps ==
    ASSUME TaskInv, NEW p \in Commands, Conclude(p)
    PROVE  TaskInv'
  <1> DEFINE j == job[p]
             state == State(j.state.completed, StatusAtEnd(j))
  <1>1. j \in Jobs /\ JobGood(j, invalid, ran) /\ j.stage = "execute" /\ j.todo = {}
    BY Ready DEF Conclude
  <1>2. j.op \in {"run", "resume"}
    BY <1>1, Executing
  <1>3. PICK n : n = [j EXCEPT !.stage = "open", !.plan = FinalPlan(j), !.state = state]
    OBVIOUS
  <1>4. job' = [job EXCEPT ![p] = n] /\ UNCHANGED <<alone, invalid, content, tmp, path, ran>>
    BY <1>2, <1>3 DEF Conclude, FinalPlan, StatusAtEnd
  <1>5. n.op = j.op /\ n.stage = "open" /\ n.plan = FinalPlan(j) /\ n.state = state
    BY <1>1, <1>3 DEF Jobs
  <1>6. Record(FinalPlan(j), state) \in Records /\ Good(Record(FinalPlan(j), state), invalid, ran)
    BY <1>1, Concluded
  <1>7. n \in Jobs /\ JobGood(n, invalid, ran)
    <2>1. FinalPlan(j) \in Plans /\ state \in States
      BY <1>6 DEF Record, Records
    <2>2. n \in Jobs
      BY <2>1, <1>1, <1>3 DEF Jobs, Stages
    <2> QED
      BY <2>2, <1>2, <1>5, <1>6 DEF JobGood, Saving
  <1>8. alone => SavedRecord /\ Follows(n, Saved, invalid)
    <2> SUFFICES ASSUME alone
                 PROVE  SavedRecord /\ Follows(n, Saved, invalid)
      OBVIOUS
    <2>1. SavedRecord /\ Follows(j, Saved, invalid)
      BY <1>2 DEF TaskInv, AloneInv, OwnRecord
    <2>2. Saved \in Records
      BY <2>1 DEF TaskInv, TypeOK, SavedRecord, Saved, IsRecord
    <2>3. Saved.plan = j.plan /\ (j.op = "run" => Saved.state.status = "RUNNING")
      BY <2>1, <1>1 DEF Follows
    <2>4. PICK s : s = Record(FinalPlan(j), state)
      OBVIOUS
    <2>5. Abstract(s) = Abstract(Saved) \/ Attempted(Abstract(Saved), Abstract(s), invalid)
      BY <1>1, <2>2, <2>3, <2>4, AttemptMade
    <2> QED
      BY <2>1, <2>4, <2>5, <1>5 DEF Follows, Saving
  <1>9. alone => \A q \in Commands \ {p} : job[q].stage = "idle"
    BY <1>1, OthersIdle
  <1> QED
    BY <1>4, <1>5, <1>7, <1>8, <1>9, Ready, SameFiles

-----------------------------------------------------------------------------
(* The actions on the files.                                               *)

LEMMA SavingIs ==
    ASSUME TaskInv, NEW p \in Commands, job[p].stage \in Saving
    PROVE  LET r == Record(job[p].plan, job[p].state) IN
           /\ r \in Records /\ Good(r, invalid, ran) /\ job[p].op # "none"
           /\ alone => \A q \in Commands \ {p} : job[q].stage = "idle"
           /\ alone => OwnTemporary(job[p]) /\ OwnRecord(job[p])
  <1>1. job[p].plan \in Plans /\ job[p].state \in States
    BY Ready DEF Jobs
  <1>2. Record(job[p].plan, job[p].state) \in Records
    BY <1>1 DEF Record, Records
  <1>3. Good(Record(job[p].plan, job[p].state), invalid, ran) /\ job[p].op # "none"
    BY Ready DEF JobGood
  <1>4. alone => \A q \in Commands \ {p} : job[q].stage = "idle"
    BY OthersIdle DEF Saving
  <1> QED
    BY <1>2, <1>3, <1>4 DEF TaskInv, AloneInv

\* A job that goes on saving what it was saving.
At(j, stage, handle) == [j EXCEPT !.stage = stage, !.handle = handle]

LEMMA SavesOn ==
    ASSUME TaskInv, NEW p \in Commands, job[p].stage \in Saving,
           NEW stage \in Saving, NEW handle \in Inodes \cup {0}, stage = "write" => handle # 0
    PROVE  LET n == At(job[p], stage, handle) IN
           /\ n \in Jobs /\ JobGood(n, invalid, ran)
           /\ n.op = job[p].op /\ n.stage = stage /\ n.plan = job[p].plan /\ n.state = job[p].state
           /\ n.handle = handle
           /\ \A r : Follows(job[p], r, invalid) => Follows(n, r, invalid)
  <1> DEFINE n == At(job[p], stage, handle)
  <1>1. job[p] \in Jobs /\ JobGood(job[p], invalid, ran)
    BY Ready
  <1>2. /\ n.op = job[p].op /\ n.stage = stage /\ n.plan = job[p].plan /\ n.state = job[p].state
        /\ n.handle = handle /\ n.before = job[p].before /\ n.updated = job[p].updated
    BY <1>1 DEF At, Jobs
  <1>3. n \in Jobs
    BY <1>1 DEF At, Jobs, Stages, Saving
  <1> HIDE DEF n
  <1>4. JobGood(n, invalid, ran)
    BY <1>1, <1>2 DEF JobGood, Saving
  <1>5. \A r : Follows(job[p], r, invalid) => Follows(n, r, invalid)
    BY <1>2 DEF Follows, Saving
  <1> QED
    BY <1>2, <1>3, <1>4, <1>5 DEF n

LEMMA OpenTemporaryKeeps ==
    ASSUME TaskInv, NEW p \in Commands, OpenTemporary(p)
    PROVE  TaskInv'
  <1>1. PICK k \in IF tmp = 0 THEN Inodes \ InUse ELSE {tmp} :
          /\ tmp' = k
          /\ content' = [content EXCEPT ![k] = Empty]
          /\ job' = [job EXCEPT ![p].stage = "write", ![p].handle = k]
    BY DEF OpenTemporary
  <1>2. /\ job[p].stage = "open" /\ UNCHANGED <<alone, invalid, path, ran>>
    BY DEF OpenTemporary
  <1>3. k \in Inodes /\ k # 0
    BY <1>1 DEF TaskInv, TypeOK, Inodes
  <1>4. alone => k # path
    BY <1>1 DEF TaskInv, AloneInv, FilesApart, InUse
  <1>5. PICK n : n = At(job[p], "write", k)
    OBVIOUS
  <1>6. job' = [job EXCEPT ![p] = n]
    BY <1>1, <1>5, Ready DEF At, Jobs
  <1>7. /\ n \in Jobs /\ JobGood(n, invalid, ran)
        /\ n.op = job[p].op /\ n.stage = "write" /\ n.plan = job[p].plan /\ n.state = job[p].state
        /\ n.handle = k
        /\ \A r : Follows(job[p], r, invalid) => Follows(n, r, invalid)
    BY <1>2, <1>3, <1>5, SavesOn DEF Saving
  <1>8. content \in [Inodes -> Records \cup {Empty, Torn}]
    BY DEF TaskInv, TypeOK
  <1>9. /\ content' \in [Inodes -> Records \cup {Empty, Torn}]
        /\ content'[k] = Empty /\ \A l \in Inodes \ {k} : content'[l] = content[l]
    BY <1>1, <1>3, <1>8
  <1>10. job' \in [Commands -> Jobs] /\ JobsGood'
    BY <1>2, <1>6, <1>7, Ready, OneJob DEF TaskInv
  <1>11. RecordsGood'
    BY <1>2, <1>9, Ready, RecordsKept DEF TaskInv, IsRecord
  <1>12. TypeOK'
    BY <1>1, <1>2, <1>3, <1>9, <1>10 DEF TaskInv, TypeOK
  <1>13. ASSUME alone
         PROVE  /\ \A q \in Commands \ {p} : job[q].stage = "idle"
                /\ tmp' # path'
                /\ tmp' # 0 /\ n.handle = tmp' /\ content'[tmp'] = Empty
                /\ n.op \in {"run", "resume"} =>
                     path' # 0 /\ IsRecord(content'[path']) /\ Follows(n, content'[path'], invalid')
    <2>1. /\ \A q \in Commands \ {p} : job[q].stage = "idle"
          /\ OwnRecord(job[p])
      BY <1>2, <1>13, SavingIs DEF Saving
    <2>2. ASSUME n.op \in {"run", "resume"}
          PROVE  path' # 0 /\ IsRecord(content'[path']) /\ Follows(n, content'[path'], invalid')
      <3>1. path # 0 /\ IsRecord(content[path]) /\ Follows(n, content[path], invalid)
        BY <2>1, <2>2, <1>7 DEF OwnRecord, SavedRecord, Saved
      <3>2. content'[path] = content[path]
        BY <3>1, <1>4, <1>9, <1>13 DEF TaskInv, TypeOK
      <3> QED
        BY <3>1, <3>2, <1>2
    <2> QED
      BY <2>1, <2>2, <1>1, <1>2, <1>3, <1>4, <1>7, <1>9, <1>13
  <1>14. AloneInv'
    BY <1>2, <1>6, <1>7, <1>13, AloneKept
  <1> QED
    BY <1>10, <1>11, <1>12, <1>14 DEF TaskInv

LEMMA WriteTemporaryKeeps ==
    ASSUME TaskInv, NEW p \in Commands, WriteTemporary(p)
    PROVE  TaskInv'
  <1> DEFINE j == job[p]
             data == Record(j.plan, j.state)
  <1>1. /\ j.stage = "write" /\ UNCHANGED <<alone, invalid, tmp, path, ran>>
        /\ job' = [job EXCEPT ![p].stage = "rename", ![p].handle = 0]
    BY DEF WriteTemporary
  <1>2. PICK c \in {data, Torn} :
          /\ content' = [content EXCEPT ![j.handle] = c]
          /\ content[j.handle] = Empty => c = data
    BY DEF WriteTemporary
  <1>3. j.handle \in Inodes
    BY <1>1, Ready DEF Jobs, JobGood
  <1>4. data \in Records /\ Good(data, invalid, ran)
    BY <1>1, SavingIs DEF Saving
  <1>5. PICK n : n = At(j, "rename", 0)
    OBVIOUS
  <1>6. job' = [job EXCEPT ![p] = n]
    BY <1>1, <1>5, Ready DEF At, Jobs
  <1>7. /\ n \in Jobs /\ JobGood(n, invalid, ran)
        /\ n.op = j.op /\ n.stage = "rename" /\ n.plan = j.plan /\ n.state = j.state
        /\ \A r : Follows(j, r, invalid) => Follows(n, r, invalid)
    BY <1>1, <1>5, SavesOn DEF Saving
  <1>8. content \in [Inodes -> Records \cup {Empty, Torn}]
    BY DEF TaskInv, TypeOK
  <1>9. /\ content' \in [Inodes -> Records \cup {Empty, Torn}]
        /\ content'[j.handle] = c /\ \A l \in Inodes \ {j.handle} : content'[l] = content[l]
    BY <1>2, <1>3, <1>4, <1>8
  <1>10. job' \in [Commands -> Jobs] /\ JobsGood'
    BY <1>1, <1>6, <1>7, Ready, OneJob DEF TaskInv
  <1>11. RecordsGood'
    BY <1>1, <1>2, <1>4, <1>9, Ready, RecordsKept DEF TaskInv, IsRecord
  <1>12. TypeOK'
    BY <1>1, <1>9, <1>10 DEF TaskInv, TypeOK
  <1>13. ASSUME alone
         PROVE  /\ \A q \in Commands \ {p} : job[q].stage = "idle"
                /\ tmp' # path'
                /\ tmp' # 0 /\ content'[tmp'] = Record(n.plan, n.state)
                /\ n.op \in {"run", "resume"} =>
                     path' # 0 /\ IsRecord(content'[path']) /\ Follows(n, content'[path'], invalid')
    <2>1. /\ \A q \in Commands \ {p} : job[q].stage = "idle"
          /\ OwnRecord(j) /\ OwnTemporary(j)
      BY <1>1, <1>13, SavingIs DEF Saving
    <2>2. tmp # 0 /\ j.handle = tmp /\ c = data /\ tmp # path
      BY <2>1, <1>1, <1>2, <1>13 DEF OwnTemporary, TaskInv, AloneInv, FilesApart
    <2>3. ASSUME n.op \in {"run", "resume"}
          PROVE  path' # 0 /\ IsRecord(content'[path']) /\ Follows(n, content'[path'], invalid')
      <3>1. path # 0 /\ IsRecord(content[path]) /\ Follows(n, content[path], invalid)
        BY <2>1, <2>3, <1>7 DEF OwnRecord, SavedRecord, Saved
      <3>2. content'[path] = content[path]
        BY <3>1, <2>2, <1>9 DEF TaskInv, TypeOK
      <3> QED
        BY <3>1, <3>2, <1>1
    <2> QED
      BY <2>1, <2>2, <2>3, <1>1, <1>7, <1>9
  <1>14. AloneInv'
    BY <1>1, <1>6, <1>7, <1>13, AloneKept
  <1> QED
    BY <1>10, <1>11, <1>12, <1>14 DEF TaskInv

LEMMA RenameKeeps ==
    ASSUME TaskInv, NEW p \in Commands, Rename(p)
    PROVE  TaskInv'
  <1> DEFINE j == job[p]
  <1>1. /\ j.stage = "rename" /\ tmp # 0 /\ path' = tmp /\ tmp' = 0
        /\ UNCHANGED <<alone, invalid, content, ran>>
    BY DEF Rename
  <1>2. PICK n : n = IF j.op = "submit" THEN [j EXCEPT !.op = "run", !.stage = "execute", !.todo = DOMAIN j.plan]
                     ELSE Idle
    OBVIOUS
  <1>3. job' = [job EXCEPT ![p] = n]
    BY <1>2 DEF Rename
  <1>4. j \in Jobs /\ JobGood(j, invalid, ran)
    BY Ready
  <1>5. CASE j.op = "submit"
    <2>1. /\ n \in Jobs /\ JobGood(n, invalid, ran)
          /\ n.op = "run" /\ n.stage = "execute" /\ n.plan = FreshPlan
          /\ Record(j.plan, j.state) = Record(FreshPlan, FreshState)
      BY <1>2, <1>4, <1>5, Begun
    <2>2. ASSUME alone
          PROVE  /\ \A q \in Commands \ {p} : job[q].stage = "idle"
                 /\ path' # 0 /\ IsRecord(content'[path']) /\ Follows(n, content'[path'], invalid')
      <3>1. /\ \A q \in Commands \ {p} : job[q].stage = "idle"
            /\ OwnTemporary(j)
        BY <1>1, <2>2, SavingIs DEF Saving
      <3>2. content[tmp] = Record(FreshPlan, FreshState)
        BY <3>1, <2>1, <1>1 DEF OwnTemporary
      <3>3. IsRecord(content[tmp])
        BY <3>2, FreshIs, FilesAssumption DEF IsRecord
      <3>4. content[tmp].plan = FreshPlan /\ content[tmp].state.status = "RUNNING"
        BY <3>2, FreshIs DEF Record
      <3>5. Follows(n, content[tmp], invalid)
        BY <3>4, <2>1 DEF Follows, Saving
      <3> QED
        BY <3>1, <3>3, <3>5, <1>1
    <2>3. AloneInv'
      BY <2>1, <2>2, <1>1, <1>3, AloneKept
    <2> QED
      <3>1. job' \in [Commands -> Jobs] /\ JobsGood'
        BY <2>1, <1>1, <1>3, Ready, OneJob DEF TaskInv
      <3>2. RecordsGood'
        BY <1>1, Ready, RecordsKept DEF TaskInv
      <3>3. TypeOK'
        BY <3>1, <1>1 DEF TaskInv, TypeOK
      <3> QED
        BY <3>1, <3>2, <3>3, <2>3 DEF TaskInv
  <1>6. CASE j.op # "submit"
    <2>1. n \in Jobs /\ JobGood(n, invalid, ran) /\ n.stage = "idle" /\ n.op = "none"
      BY <1>2, <1>6, IdleIs
    <2>2. alone => \A q \in Commands \ {p} : job[q].stage = "idle"
      BY <1>1, SavingIs DEF Saving
    <2>3. AloneInv'
      BY <2>1, <2>2, <1>1, <1>3, AloneKept
    <2> QED
      <3>1. job' \in [Commands -> Jobs] /\ JobsGood'
        BY <2>1, <1>1, <1>3, Ready, OneJob DEF TaskInv
      <3>2. RecordsGood'
        BY <1>1, Ready, RecordsKept DEF TaskInv
      <3>3. TypeOK'
        BY <3>1, <1>1 DEF TaskInv, TypeOK
      <3> QED
        BY <3>1, <3>2, <3>3, <2>3 DEF TaskInv
  <1> QED
    BY <1>5, <1>6

\* The process is gone.
LEMMA IdleKeeps ==
    ASSUME TaskInv, NEW p \in Commands, RenameFails(p) \/ Crash(p)
    PROVE  TaskInv'
  <1>1. /\ job[p].stage # "idle" /\ job' = [job EXCEPT ![p] = Idle]
        /\ UNCHANGED <<alone, invalid, content, tmp, path, ran>>
    BY DEF RenameFails, Crash
  <1>2. Idle \in Jobs /\ JobGood(Idle, invalid, ran) /\ Idle.stage = "idle" /\ Idle.op = "none"
    BY IdleIs
  <1>3. alone => \A q \in Commands \ {p} : job[q].stage = "idle"
    BY <1>1, OthersIdle
  <1> QED
    BY <1>1, <1>2, <1>3, Ready, SameFiles

-----------------------------------------------------------------------------
(* The theorems.                                                           *)

LEMMA InvInit == Init => TaskInv
  <1> SUFFICES ASSUME Init
               PROVE  TaskInv
    OBVIOUS
  <1>1. /\ alone \in BOOLEAN /\ content = [i \in Inodes |-> Empty] /\ tmp = 0 /\ path = 0
        /\ job = [p \in Commands |-> Idle] /\ ran = [i \in Ids |-> 0]
    BY DEF Init, Start
  <1>2. Idle \in Jobs /\ JobGood(Idle, invalid, ran) /\ Idle.stage = "idle" /\ Idle.op = "none"
    BY IdleIs
  <1>3. TypeOK
    BY <1>1, <1>2 DEF TypeOK
  <1>4. JobsGood /\ RecordsGood
    BY <1>1, <1>2 DEF JobsGood, RecordsGood, IsRecord
  <1>5. AloneInv
    BY <1>1, <1>2 DEF AloneInv, OneAtATime, FilesApart, OwnTemporary, OwnRecord
  <1> QED
    BY <1>3, <1>4, <1>5 DEF TaskInv

LEMMA InvStep == TaskInv /\ [Next]_vars => TaskInv'
  <1> SUFFICES ASSUME TaskInv, [Next]_vars
               PROVE  TaskInv'
    OBVIOUS
  <1>1. ASSUME NEW p \in Commands, StartRun(p)  PROVE TaskInv'
    BY <1>1, StartRunKeeps
  <1>2. ASSUME NEW p \in Commands, StartResume(p)  PROVE TaskInv'
    BY <1>2, StartResumeKeeps
  <1>3. ASSUME NEW p \in Commands, NEW i \in Ids, CompleteStep(p, i)  PROVE TaskInv'
    BY <1>3, CompleteStepKeeps
  <1>4. ASSUME NEW p \in Commands, NEW i \in Ids, FailStep(p, i)  PROVE TaskInv'
    BY <1>4, FailStepKeeps
  <1>5. ASSUME NEW p \in Commands, NEW i \in Ids, RejectStep(p, i)  PROVE TaskInv'
    BY <1>5, RejectStepKeeps
  <1>6. ASSUME NEW p \in Commands, Conclude(p)  PROVE TaskInv'
    BY <1>6, ConcludeKeeps
  <1>7. ASSUME NEW p \in Commands, OpenTemporary(p)  PROVE TaskInv'
    BY <1>7, OpenTemporaryKeeps
  <1>8. ASSUME NEW p \in Commands, WriteTemporary(p)  PROVE TaskInv'
    BY <1>8, WriteTemporaryKeeps
  <1>9. ASSUME NEW p \in Commands, Rename(p)  PROVE TaskInv'
    BY <1>9, RenameKeeps
  <1>10. ASSUME NEW p \in Commands, RenameFails(p) \/ Crash(p)  PROVE TaskInv'
    BY <1>10, IdleKeeps
  <1>11. ASSUME UNCHANGED vars  PROVE TaskInv'
    BY <1>11 DEF vars, TaskInv, TypeOK, RecordsGood, JobsGood, AloneInv, OneAtATime, FilesApart,
                 OwnTemporary, OwnRecord, SavedRecord, Saved
  <1> QED
    BY <1>1, <1>2, <1>3, <1>4, <1>5, <1>6, <1>7, <1>8, <1>9, <1>10, <1>11 DEF Next

LEMMA SavedIsGood ==
    ASSUME TaskInv, SavedRecord
    PROVE  /\ Saved \in Records /\ Good(Saved, invalid, ran)
           /\ DOMAIN Saved.plan \subseteq Ids
           /\ \A i \in DOMAIN Saved.plan : Saved.plan[i] \in StepStatuses
  <1>1. Saved \in Records /\ Good(Saved, invalid, ran)
    BY DEF TaskInv, TypeOK, RecordsGood, SavedRecord, Saved, IsRecord
  <1> QED
    BY <1>1, PlanParts DEF Records

LEMMA InvImplies == TaskInv => SavedTaskHolds
  <1> SUFFICES ASSUME TaskInv, SavedRecord
               PROVE  VerdictMatchesSteps /\ SavedWorkWasDone
    BY DEF SavedTaskHolds, VerdictMatchesSteps, SavedWorkWasDone
  <1> DEFINE st(i) == StepStatus(Saved, i)
  <1>1. /\ Good(Saved, invalid, ran)
        /\ DOMAIN Saved.plan \subseteq Ids
        /\ \A i \in DOMAIN Saved.plan : Saved.plan[i] \in StepStatuses
    BY SavedIsGood
  <1>2. /\ \A i \in DOMAIN Saved.plan : st(i) = Saved.plan[i]
        /\ \A i \in Ids \ DOMAIN Saved.plan : st(i) = "DROPPED"
    BY DEF StepStatus
  <1> HIDE DEF st
  <1>3. Ids \subseteq Nat
    BY DEF Ids
  <1>4. HasFailed(Saved.plan) <=> \E i \in Ids : st(i) = "FAILED"
    BY <1>1, <1>2 DEF HasFailed
  <1>5. \A i \in Ids : st(i) = "DROPPED" =>
           \E k \in Ids : k < i /\ (st(k) = "FAILED" \/ k \in invalid)
    <2> SUFFICES ASSUME NEW i \in Ids, st(i) = "DROPPED"
                 PROVE  \E k \in Ids : k < i /\ (st(k) = "FAILED" \/ k \in invalid)
      OBVIOUS
    <2>1. i \notin DOMAIN Saved.plan
      BY <1>1, <1>2 DEF StepStatuses
    <2>2. PICK k \in DOMAIN Saved.plan : k < i /\ Stops(Saved.plan, k, invalid)
      BY <2>1, <1>1 DEF Good
    <2> QED
      BY <2>2, <1>1, <1>2 DEF Stops
  <1>6. Saved.state.status = "COMPLETED" =>
           \A i \in Ids : st(i) = "COMPLETED" \/ \E k \in invalid : k <= i
    <2> SUFFICES ASSUME Saved.state.status = "COMPLETED", NEW i \in Ids, st(i) # "COMPLETED"
                 PROVE  \E k \in invalid : k <= i
      OBVIOUS
    <2>1. ~ \E k \in Ids : st(k) = "FAILED"
      BY <1>1, <1>4 DEF Good
    <2>2. CASE i \in DOMAIN Saved.plan
      <3>1. i \in Undone(Saved.plan)
        BY <2>1, <2>2, <1>1, <1>2 DEF Undone, Done, StepStatuses
      <3> QED
        BY <3>1, <1>1 DEF Good
    <2>3. CASE i \notin DOMAIN Saved.plan
      <3>1. PICK k \in Ids : k < i /\ k \in invalid
        BY <2>1, <2>3, <1>2, <1>5
      <3>2. k <= i
        BY <3>1, <1>3
      <3> QED
        BY <3>1, <3>2
    <2> QED
      BY <2>2, <2>3
  <1>7. VerdictMatchesSteps
    BY <1>1, <1>4, <1>5, <1>6 DEF VerdictMatchesSteps, Good, st
  <1>8. \A i \in Ids : /\ st(i) = "COMPLETED" => ran[i] > 0
                       /\ i \in ToSet(Saved.state.completed) => st(i) \in {"COMPLETED", "FAILED"}
    <2> SUFFICES ASSUME NEW i \in Ids
                 PROVE  /\ st(i) = "COMPLETED" => ran[i] > 0
                        /\ i \in ToSet(Saved.state.completed) => st(i) \in {"COMPLETED", "FAILED"}
      OBVIOUS
    <2>1. st(i) = "COMPLETED" => ran[i] > 0
      BY <1>1, <1>2 DEF Good, Counted
    <2>2. ASSUME i \in ToSet(Saved.state.completed)  PROVE st(i) \in {"COMPLETED", "FAILED"}
      <3>1. i \in DOMAIN Saved.plan /\ Saved.plan[i] # "PENDING"
        BY <2>2, <1>1 DEF Good, Done
      <3> QED
        BY <3>1, <1>1, <1>2 DEF StepStatuses
    <2> QED
      BY <2>1, <2>2
  <1>9. SavedWorkWasDone
    BY <1>8 DEF SavedWorkWasDone, st
  <1> QED
    BY <1>7, <1>9

\* What the task's file says is so, however many commands work on the task
\* and die: a verdict is the one its steps give, a completed step was run
\* (execute_plan, resume_task, WorkspaceStore).
THEOREM SavedTasksHold == Spec => []SavedTaskHolds
  BY InvInit, InvStep, InvImplies, PTL DEF Spec

RepeatsNothing ==
    \A p \in Commands, i \in Ids :
        (alone /\ job[p].op = "resume" /\ job'[p] # job[p] /\ ran'[i] # ran[i])
            => i \notin ToSet(Saved.state.completed)

LEMMA RepeatStep == TaskInv /\ [Next]_vars => [RepeatsNothing]_vars
  <1> SUFFICES ASSUME TaskInv, Next,
                      NEW p \in Commands, NEW i \in Ids,
                      alone, job[p].op = "resume", job'[p] # job[p], ran'[i] # ran[i]
               PROVE  i \notin ToSet(Saved.state.completed)
    BY DEF RepeatsNothing
  <1>1. PICK q \in Commands, k \in Ids : CompleteStep(q, k)
    BY DEF Next, StartRun, StartResume, FailStep, RejectStep, Conclude, OpenTemporary, WriteTemporary,
           Rename, RenameFails, Crash
  <1>2. k = i /\ q = p
    BY <1>1, Ready DEF CompleteStep
  <1>3. /\ job[p].stage = "execute" /\ i \in job[p].todo
        /\ JobGood(job[p], invalid, ran)
    BY <1>1, <1>2, Ready DEF CompleteStep, AtStep
  <1>4. i \in Undone(job[p].plan)
    BY <1>3 DEF JobGood, Going
  <1>5. SavedRecord /\ Saved.plan = job[p].plan
    BY <1>3 DEF TaskInv, AloneInv, OwnRecord, Follows
  <1>6. ToSet(Saved.state.completed) = Done(job[p].plan)
    BY <1>5, SavedIsGood DEF Good
  <1> QED
    BY <1>4, <1>6 DEF Undone

\* While one command at a time works on the task, resume does not run a tool
\* again for a step the file records as completed (resume_task).
THEOREM CompletedStepsAreSkipped == Spec => NoRepeatedWork
  <1>1. Spec => [][RepeatsNothing]_vars
    BY InvInit, InvStep, RepeatStep, PTL DEF Spec
  <1> QED
    BY <1>1 DEF NoRepeatedWork, RepeatsNothing

-----------------------------------------------------------------------------
(* The files implement TaskRecord.                                         *)

LEMMA AbstractRecordIs == AbstractRecord = IF SavedRecord /\ alone THEN Abstract(Saved) ELSE Absent
  BY DEF AbstractRecord, Abstract

LEMMA AbstractThere ==
    ASSUME TaskInv, SavedRecord, alone
    PROVE  AbstractRecord = Abstract(Saved) /\ AbstractRecord # Absent
  <1>1. AbstractRecord = Abstract(Saved)
    BY AbstractRecordIs
  <1>2. /\ Saved \in Records
        /\ \A i \in Ids : StepStatus(Saved, i) \in StepStatuses \cup {"DROPPED"}
    BY SavedIsGood DEF StepStatus
  <1>3. Saved.state.status \in TaskStatuses
    BY <1>2 DEF Records, States
  <1>4. Abstract(Saved) \in [step : [Ids -> StepStatuses \cup {"DROPPED"}], status : TaskStatuses]
    BY <1>2, <1>3 DEF Abstract
  <1> QED
    BY <1>1, <1>4, FilesAssumption

LEMMA AttemptImplemented ==
    ASSUME Attempted(AbstractRecord, AbstractRecord', invalid)
    PROVE  TaskRecordSpec!Attempt \/ AbstractRecord = Absent
  <1> DEFINE r == AbstractRecord
             s == AbstractRecord'
  <1>1. TaskRecordSpec!Ids = Ids /\ TaskRecordSpec!Pending(r) = PendingIn(r)
    BY DEF TaskRecordSpec!Ids, Ids, TaskRecordSpec!Pending, PendingIn
  <1>2. \A i : TaskRecordSpec!Ahead(r, i) = AheadIn(r, i)
    BY <1>1 DEF TaskRecordSpec!Ahead, AheadIn
  <1>3. \A i, outcome : TaskRecordSpec!StopAt(i, outcome) = StoppedAt(r, i, outcome)
    BY <1>1 DEF TaskRecordSpec!StopAt, StoppedAt
  <1> QED
    BY <1>1, <1>2, <1>3 DEF Attempted, AllDone, TaskRecordSpec!Attempt, TaskRecordSpec!CompleteAll,
                            TaskRecordSpec!FailAt, TaskRecordSpec!RejectAt

LEMMA SameRecord ==
    ASSUME alone' = alone, path' = path, alone /\ path # 0 => content'[path] = content[path]
    PROVE  AbstractRecord' = AbstractRecord
  BY DEF AbstractRecord, SavedRecord, Saved, IsRecord, StepStatus

\* What a command renames is a fresh record, an attempt, or what was there.
LEMMA RenameImplements ==
    ASSUME TaskInv, NEW p \in Commands, Rename(p)
    PROVE  TaskRecordSpec!Next \/ AbstractRecord' = AbstractRecord
  <1> DEFINE s == Record(job[p].plan, job[p].state)
  <1>1. /\ job[p].stage = "rename" /\ tmp # 0 /\ path' = tmp
        /\ UNCHANGED <<alone, invalid, content>>
    BY DEF Rename
  <1>2. CASE ~alone
    BY <1>1, <1>2 DEF AbstractRecord
  <1>3. CASE alone
    <2>1. s \in Records /\ job[p].op # "none" /\ OwnTemporary(job[p]) /\ OwnRecord(job[p])
      BY <1>1, <1>3, SavingIs DEF Saving
    <2>2. content[tmp] = s
      BY <2>1, <1>1 DEF OwnTemporary
    <2>3. AbstractRecord' = Abstract(s)
      <3>1. IsRecord(s)
        BY <2>1, FilesAssumption DEF IsRecord
      <3> QED
        BY <3>1, <2>2, <1>1, <1>3 DEF AbstractRecord, Abstract, SavedRecord, Saved, IsRecord, StepStatus
    <2>4. CASE job[p].op = "submit"
      <3>1. s = Record(FreshPlan, FreshState)
        BY <2>4, Ready DEF JobGood
      <3>2. Abstract(s) = [step |-> [i \in Ids |-> "PENDING"], status |-> "RUNNING"]
        BY <3>1, FreshIs DEF Abstract, Record, StepStatus, FreshPlan
      <3>3. TaskRecordSpec!Submit
        BY <3>2, <2>3 DEF TaskRecordSpec!Submit, TaskRecordSpec!Fresh, TaskRecordSpec!Ids, Ids
      <3> QED
        BY <3>3, <1>1 DEF TaskRecordSpec!Next
    <2>5. CASE job[p].op \in {"run", "resume"}
      <3>1. SavedRecord /\ Follows(job[p], Saved, invalid)
        BY <2>1, <2>5 DEF OwnRecord
      <3>2. AbstractRecord = Abstract(Saved) /\ AbstractRecord # Absent
        BY <3>1, <1>3, AbstractThere
      <3>3. Abstract(s) = Abstract(Saved) \/ Attempted(Abstract(Saved), Abstract(s), invalid)
        BY <3>1, <1>1 DEF Follows, Saving
      <3>4. CASE Abstract(s) = Abstract(Saved)
        BY <3>2, <3>4, <2>3
      <3>5. CASE Attempted(Abstract(Saved), Abstract(s), invalid)
        <4>1. Attempted(AbstractRecord, AbstractRecord', invalid)
          BY <3>2, <3>5, <2>3
        <4>2. TaskRecordSpec!Attempt
          BY <4>1, <3>2, AttemptImplemented
        <4> QED
          BY <4>2, <3>2, <1>1 DEF TaskRecordSpec!Next
      <3> QED
        BY <3>3, <3>4, <3>5
    <2>6. job[p].op \in {"submit", "run", "resume"}
      BY <2>1, Ready DEF Jobs, Ops
    <2> QED
      BY <2>4, <2>5, <2>6
  <1> QED
    BY <1>2, <1>3

LEMMA InitImplements == Init => TaskRecordSpec!Init
  BY DEF Init, Start, TaskRecordSpec!Init, AbstractRecord, SavedRecord

LEMMA StepImplements == TaskInv /\ [Next]_vars => [TaskRecordSpec!Next]_(TaskRecordSpec!vars)
  <1> SUFFICES ASSUME TaskInv, [Next]_vars
               PROVE  TaskRecordSpec!Next \/ (AbstractRecord' = AbstractRecord /\ invalid' = invalid)
    BY DEF TaskRecordSpec!vars
  <1>1. ASSUME NEW p \in Commands, Rename(p)
        PROVE  TaskRecordSpec!Next \/ (AbstractRecord' = AbstractRecord /\ invalid' = invalid)
    BY <1>1, RenameImplements DEF Rename
  <1>2. ASSUME NEW p \in Commands, OpenTemporary(p)
        PROVE  AbstractRecord' = AbstractRecord /\ invalid' = invalid
    <2>1. PICK k \in IF tmp = 0 THEN Inodes \ InUse ELSE {tmp} : content' = [content EXCEPT ![k] = Empty]
      BY <1>2 DEF OpenTemporary
    <2>2. alone => k # path
      BY <2>1 DEF TaskInv, AloneInv, FilesApart, InUse
    <2>3. alone /\ path # 0 => content'[path] = content[path]
      BY <2>1, <2>2 DEF TaskInv, TypeOK
    <2> QED
      BY <2>3, <1>2, SameRecord DEF OpenTemporary
  <1>3. ASSUME NEW p \in Commands, WriteTemporary(p)
        PROVE  AbstractRecord' = AbstractRecord /\ invalid' = invalid
    <2>1. job[p].stage = "write" /\ \E c : content' = [content EXCEPT ![job[p].handle] = c]
      BY <1>3 DEF WriteTemporary
    <2>2. alone => job[p].handle # path
      BY <2>1 DEF TaskInv, AloneInv, FilesApart, OwnTemporary
    <2>3. alone /\ path # 0 => content'[path] = content[path]
      BY <2>1, <2>2 DEF TaskInv, TypeOK
    <2> QED
      BY <2>3, <1>3, SameRecord DEF WriteTemporary
  <1>4. ASSUME UNCHANGED <<alone, invalid, content, path>>
        PROVE  AbstractRecord' = AbstractRecord /\ invalid' = invalid
    BY <1>4, SameRecord
  <1>5. ASSUME NEW p \in Commands,
               \/ StartRun(p) \/ StartResume(p)
               \/ \E i \in Ids : CompleteStep(p, i) \/ FailStep(p, i) \/ RejectStep(p, i)
               \/ Conclude(p) \/ RenameFails(p) \/ Crash(p)
        PROVE  UNCHANGED <<alone, invalid, content, path>>
    BY <1>5 DEF StartRun, StartResume, CompleteStep, FailStep, RejectStep, Conclude, RenameFails, Crash
  <1> QED
    BY <1>1, <1>2, <1>3, <1>4, <1>5 DEF Next, vars

\* With one command at a time, and deaths between any two of its steps, the
\* task's file moves as TaskRecord's record does: a command makes a whole
\* attempt at the pending steps or leaves the file as it was (_write_json).
THEOREM FilesImplementTaskRecord == Spec => ImplementsTaskRecord
  BY InvInit, InvStep, InitImplements, StepImplements, PTL
  DEF Spec, ImplementsTaskRecord, TaskRecordSpec!Spec

-----------------------------------------------------------------------------
(* The first of the candidates for an artifact (Generation).               *)

\* Of finitely many keys one has no other before it.
LEMMA LeastKey ==
    ASSUME NEW S, IsFiniteSet(S), S # {}, NEW key, \A t \in S, i \in 1..5 : key[t][i] \in Int
    PROVE  \E t \in S : \A u \in S : ~KeyBefore(key[u], key[t])
  <1> DEFINE at(i) == [t \in S |-> key[t][i]]
  <1>1. ASSUME NEW T \in SUBSET S, T # {}, NEW i \in 1..5
        PROVE  \E t \in T : \A u \in T : key[t][i] <= key[u][i]
    <2>1. IsFiniteSet(T) /\ \A t \in T : at(i)[t] \in Int
      BY <1>1, FS_Subset
    <2> HIDE DEF at
    <2>2. \E t \in T : \A u \in T : at(i)[t] <= at(i)[u]
      BY <1>1, <2>1, LeastMeasure
    <2> QED
      BY <2>2 DEF at
  <1> DEFINE least(T, i) == {t \in T : \A u \in T : key[t][i] <= key[u][i]}
             S1 == least(S, 1)
             S2 == least(S1, 2)
             S3 == least(S2, 3)
             S4 == least(S3, 4)
             S5 == least(S4, 5)
  <1>2. ASSUME NEW T \in SUBSET S, T # {}, NEW i \in 1..5
        PROVE  least(T, i) \in SUBSET T /\ least(T, i) # {}
    BY <1>1, <1>2
  <1>3. S1 \in SUBSET S /\ S1 # {} /\ S2 \in SUBSET S1 /\ S2 # {} /\ S3 \in SUBSET S2 /\ S3 # {}
        /\ S4 \in SUBSET S3 /\ S4 # {} /\ S5 \in SUBSET S4 /\ S5 # {}
    <2> HIDE DEF least
    <2>0. 1 \in 1..5 /\ 2 \in 1..5 /\ 3 \in 1..5 /\ 4 \in 1..5 /\ 5 \in 1..5
      OBVIOUS
    <2>1. S1 \in SUBSET S /\ S1 # {}
      BY <1>2, <2>0
    <2>2. S2 \in SUBSET S /\ S2 \in SUBSET S1 /\ S2 # {}
      BY <1>2, <2>0, <2>1
    <2>3. S3 \in SUBSET S /\ S3 \in SUBSET S2 /\ S3 # {}
      BY <1>2, <2>0, <2>2
    <2>4. S4 \in SUBSET S /\ S4 \in SUBSET S3 /\ S4 # {}
      BY <1>2, <2>0, <2>3
    <2>5. S5 \in SUBSET S /\ S5 \in SUBSET S4 /\ S5 # {}
      BY <1>2, <2>0, <2>4
    <2> QED
      BY <2>1, <2>2, <2>3, <2>4, <2>5
  <1>4. PICK t : t \in S5
    BY <1>3
  <1>5. t \in S /\ t \in S1 /\ t \in S2 /\ t \in S3 /\ t \in S4
    BY <1>3, <1>4
  <1>6. ASSUME NEW u \in S, NEW i \in 1..5, key[u][i] < key[t][i],
               \A j \in 1..(i - 1) : key[u][j] = key[t][j]
        PROVE  FALSE
    <2>1. \A v \in S, w \in S, j \in 1..5 : key[v][j] = key[w][j] => (\A x \in S : key[w][j] <= key[x][j] => key[v][j] <= key[x][j])
      OBVIOUS
    <2>2. i > 1 => u \in S1
      BY <1>5, <1>6
    <2>3. i > 2 => u \in S2
      BY <1>3, <1>5, <1>6, <2>2
    <2>4. i > 3 => u \in S3
      BY <1>3, <1>5, <1>6, <2>2, <2>3
    <2>5. i > 4 => u \in S4
      BY <1>3, <1>5, <1>6, <2>2, <2>3, <2>4
    <2>6. key[t][i] <= key[u][i]
      BY <1>4, <1>5, <1>6, <2>2, <2>3, <2>4, <2>5
    <2> QED
      BY <1>5, <1>6, <2>6
  <1> QED
    BY <1>5, <1>6 DEF KeyBefore

-----------------------------------------------------------------------------
(* The keys are integers.                                                  *)

LEMMA UnionFinite ==
    ASSUME NEW S, NEW T, IsFiniteSet(S), IsFiniteSet(T)
    PROVE  IsFiniteSet(S \cup T)
  BY FS_Union

LEMMA DifferenceFinite ==
    ASSUME NEW S, NEW T, IsFiniteSet(S)
    PROVE  IsFiniteSet(S \ T)
  <1>1. S \ T \in SUBSET S
    OBVIOUS
  <1> QED
    BY <1>1, FS_Subset

LEMMA TaggedCount ==
    ASSUME NEW S, IsFiniteSet(S), NEW tag
    PROVE  IsFiniteSet({<<tag, x>> : x \in S}) /\ Cardinality({<<tag, x>> : x \in S}) = Cardinality(S)
  <1> DEFINE T == {<<tag, x>> : x \in S}
             f == [x \in S |-> <<tag, x>>]
  <1>1. f \in Bijection(S, T)
    <2>1. f \in [S -> T]
      OBVIOUS
    <2>2. \A x, y \in S : f[x] = f[y] => x = y
      OBVIOUS
    <2>3. \A z \in T : \E x \in S : f[x] = z
      OBVIOUS
    <2> HIDE DEF f, T
    <2> QED
      BY <2>1, <2>2, <2>3 DEF Bijection, Injection, Surjection, IsInjective
  <1>2. ExistsBijection(S, T)
    BY <1>1 DEF ExistsBijection
  <1> HIDE DEF T
  <1>3. IsFiniteSet(T) /\ Cardinality(T) = Cardinality(S)
    BY <1>2, FS_Bijection
  <1> QED
    BY <1>3 DEF T

LEMMA FiniteSpec ==
    ASSUME NEW spec \in Specs
    PROVE  /\ IsFiniteSet(DOMAIN spec.fields) /\ IsFiniteSet(DOMAIN spec.defaults)
           /\ IsFiniteSet(spec.present) /\ IsFiniteSet(spec.criteria)
  BY GenerationAssumption

LEMMA ViolationsFinite ==
    ASSUME NEW spec \in Specs, NEW a, a.template \in Shelf
    PROVE  IsFiniteSet(Violations(a, spec))
  <1> DEFINE t == a.template
             needs == CASE t.type = "plan" -> {"steps", "preconditions", "effects"}
                        [] t.type = "config" -> DOMAIN spec.fields
                        [] t.type = "policy" -> {"sections"}
                        [] OTHER -> {"code"}
             missing == t.present \ DOMAIN a.used
             absent == spec.present \ DOMAIN a.used
             unmet == spec.criteria \ WordsOf(a)
             empty == needs \ t.keys
  <1>1. IsFiniteSet(t.present)
    BY GenerationAssumption
  <1>2. IsFiniteSet(needs)
    <2>1. IsFiniteSet({"sections"}) /\ IsFiniteSet({"code"}) /\ IsFiniteSet({"steps"})
      BY FS_Singleton
    <2>2. IsFiniteSet({"steps"} \cup {"preconditions"} \cup {"effects"})
      BY FS_Singleton, FS_Union
    <2>3. {"steps"} \cup {"preconditions"} \cup {"effects"} = {"steps", "preconditions", "effects"}
      OBVIOUS
    <2>4. IsFiniteSet({"steps", "preconditions", "effects"})
      BY <2>2, <2>3
    <2>5. IsFiniteSet(DOMAIN spec.fields)
      BY FiniteSpec
    <2>6. needs = {"steps", "preconditions", "effects"} \/ needs = DOMAIN spec.fields
          \/ needs = {"sections"} \/ needs = {"code"}
      OBVIOUS
    <2> HIDE DEF needs
    <2> QED
      BY <2>1, <2>4, <2>5, <2>6
  <1> HIDE DEF needs
  <1>3. IsFiniteSet(missing) /\ IsFiniteSet(absent) /\ IsFiniteSet(unmet) /\ IsFiniteSet(empty)
    BY <1>1, <1>2, FiniteSpec, DifferenceFinite
  <1>4. Violations(a, spec) =
          {<<"template field", f>> : f \in missing} \cup {<<"field", f>> : f \in absent}
          \cup {<<"unsupported", f>> : f \in DOMAIN spec.defaults} \cup {<<"criterion", w>> : w \in unmet}
          \cup {<<"content", k>> : k \in empty}
    BY DEF Violations, needs
  <1> HIDE DEF missing, absent, unmet, empty
  <1> DEFINE A == {<<"template field", f>> : f \in missing}
             B == {<<"field", f>> : f \in absent}
             C == {<<"unsupported", f>> : f \in DOMAIN spec.defaults}
             D == {<<"criterion", w>> : w \in unmet}
             E == {<<"content", k>> : k \in empty}
  <1>5. IsFiniteSet(A) /\ IsFiniteSet(B) /\ IsFiniteSet(C) /\ IsFiniteSet(D) /\ IsFiniteSet(E)
    BY <1>3, FiniteSpec, TaggedCount
  <1>6. Violations(a, spec) = A \cup B \cup C \cup D \cup E
    BY <1>4
  <1> HIDE DEF A, B, C, D, E
  <1>7. IsFiniteSet(A \cup B)
    BY <1>5, UnionFinite
  <1>8. IsFiniteSet((A \cup B) \cup C)
    BY <1>5, <1>7, UnionFinite
  <1>9. IsFiniteSet((A \cup B \cup C) \cup D)
    BY <1>5, <1>8, UnionFinite
  <1>10. IsFiniteSet((A \cup B \cup C \cup D) \cup E)
    BY <1>5, <1>9, UnionFinite
  <1> QED
    BY <1>6, <1>10

LEMMA SatisfiedIsNumber ==
    ASSUME NEW spec \in Specs, NEW a, a.template \in Shelf
    PROVE  Satisfied(a, spec) \in Int
  <1> DEFINE given == a.template.present \cap DOMAIN a.used
             wanted == spec.present \cap DOMAIN a.used
             met == spec.criteria \cap WordsOf(a)
  <1>1. given \in SUBSET a.template.present /\ wanted \in SUBSET spec.present /\ met \in SUBSET spec.criteria
    OBVIOUS
  <1>2. IsFiniteSet(a.template.present) /\ IsFiniteSet(spec.present) /\ IsFiniteSet(spec.criteria)
    BY FiniteSpec, GenerationAssumption
  <1>3. Satisfied(a, spec) = Cardinality(given) + Cardinality(wanted) + Cardinality(met)
    BY DEF Satisfied
  <1> HIDE DEF given, wanted, met
  <1>4. IsFiniteSet(given) /\ IsFiniteSet(wanted) /\ IsFiniteSet(met)
    BY <1>1, <1>2, FS_Subset
  <1>5. Cardinality(given) \in Nat /\ Cardinality(wanted) \in Nat /\ Cardinality(met) \in Nat
    BY <1>4, FS_CardinalityType
  <1> QED
    BY <1>3, <1>5

\* A repair takes templates of those that were selected.
LEMMA FirstIsOne ==
    ASSUME NEW templates \in SUBSET Shelf, templates # {}
    PROVE  First(templates) \in templates
  <1> DEFINE rank == [t \in templates |-> t.rank]
  <1>1. IsFiniteSet(templates) /\ \A t \in templates : rank[t] \in Int
    BY GenerationAssumption, FS_Subset
  <1> HIDE DEF rank
  <1>2. \E t \in templates : \A u \in templates : rank[t] <= rank[u]
    BY <1>1, LeastMeasure
  <1>3. \E t \in templates : \A u \in templates : t.rank <= u.rank
    BY <1>2 DEF rank
  <1> QED
    BY <1>3 DEF First

LEMMA ReplacedOnShelf ==
    ASSUME NEW templates \in SUBSET Shelf, NEW a, a.template \in Shelf
    PROVE  Replaced(a, templates).template \in Shelf
  <1> DEFINE others == Others(a.template, templates)
  <1>1. others \in SUBSET Shelf /\ others \in SUBSET templates
    BY DEF Others
  <1> HIDE DEF others
  <1>2. others # {} => First(others) \in Shelf
    BY <1>1, FirstIsOne
  <1> QED
    BY <1>2 DEF Replaced, Candidate, others

LEMMA RepairedOnShelf ==
    ASSUME NEW templates \in SUBSET Shelf, NEW spec, NEW t \in Shelf, NEW fields
    PROVE  Repaired(Candidate(t, fields), spec, templates).template \in Shelf
  <1> DEFINE a == Candidate(t, fields)
             missing == DOMAIN spec.defaults \ DOMAIN a.used
             all == [f \in DOMAIN a.used \cup missing |-> IF f \in missing THEN spec.defaults[f] ELSE a.used[f]]
             filled == [a EXCEPT !.used = all]
  <1>1. a.template = t /\ filled.template = t
    BY DEF Candidate
  <1>2. Repaired(a, spec, templates) =
          IF missing # {} THEN Replaced(filled, templates) ELSE Replaced(Replaced(a, templates), templates)
    BY DEF Repaired
  <1> HIDE DEF a, missing, filled
  <1>3. Replaced(filled, templates).template \in Shelf /\ Replaced(a, templates).template \in Shelf
    BY <1>1, ReplacedOnShelf
  <1>4. Replaced(Replaced(a, templates), templates).template \in Shelf
    BY <1>3, ReplacedOnShelf
  <1>5. Repaired(a, spec, templates).template \in Shelf
    BY <1>2, <1>3, <1>4
  <1> QED
    BY <1>5 DEF a

Statuses == {"VERIFIED_ARTIFACT", "CONTRADICTORY_ARTIFACT", "INCONCLUSIVE_ARTIFACT", "NEEDS_CLARIFICATION",
             "FAILED_ARTIFACT"}

LEMMA EvaluatedOnShelf ==
    ASSUME NEW templates \in SUBSET Shelf, NEW spec, NEW t \in templates
    PROVE  Evaluated(t, spec, templates).a.template \in Shelf /\ Evaluated(t, spec, templates).status \in Statuses
  <1> DEFINE a == Candidate(t, spec.fields)
             b == Repaired(a, spec, templates)
  <1>1. a.template \in Shelf
    BY DEF Candidate
  <1>2. b.template \in Shelf
    BY RepairedOnShelf
  <1>3. \A x : ArtifactStatus(x, spec) \in Statuses
    BY Zenon DEF ArtifactStatus, Statuses
  <1>4. Evaluated(t, spec, templates) =
          IF Lacks(t, spec) # {} THEN [a |-> a, status |-> "NEEDS_CLARIFICATION"]
          ELSE IF ArtifactStatus(a, spec) # "FAILED_ARTIFACT" THEN [a |-> a, status |-> ArtifactStatus(a, spec)]
          ELSE [a |-> b, status |-> ArtifactStatus(b, spec)]
    BY DEF Evaluated
  <1> HIDE DEF a, b
  <1>5. "NEEDS_CLARIFICATION" \in Statuses
    BY DEF Statuses
  <1> QED
    BY <1>1, <1>2, <1>3, <1>4, <1>5

LEMMA KeyIsNumbers ==
    ASSUME NEW spec \in Specs, NEW templates \in SUBSET Shelf, NEW t \in templates, NEW i \in 1..5
    PROVE  RankKey(Evaluated(t, spec, templates), t, spec)[i] \in Int
  <1> DEFINE c == Evaluated(t, spec, templates)
             seen == {v \in Violations(c.a, spec) : c.status = "CONTRADICTORY_ARTIFACT" => v[1] # "content"}
             judged == c.status # "NEEDS_CLARIFICATION"
             k1 == StatusRank(c.status)
             k2 == IF judged THEN Cardinality(seen) ELSE 0
             k3 == IF judged THEN -Satisfied(c.a, spec) ELSE 0
             k4 == c.a.template.place
             k5 == t.rank
  <1>1. RankKey(c, t, spec) = <<k1, k2, k3, k4, k5>>
    BY DEF RankKey
  <1>2. c.a.template \in Shelf /\ c.status \in Statuses
    BY EvaluatedOnShelf
  <1> HIDE DEF c
  <1>3. k1 \in Int
    BY <1>2 DEF StatusRank, Statuses
  <1>4. Cardinality(seen) \in Int
    <2>1. IsFiniteSet(Violations(c.a, spec))
      BY <1>2, ViolationsFinite
    <2>2. seen \in SUBSET Violations(c.a, spec)
      OBVIOUS
    <2> HIDE DEF seen
    <2>3. Cardinality(seen) \in Nat
      BY <2>1, <2>2, FS_Subset, FS_CardinalityType
    <2> QED
      BY <2>3
  <1>5. Satisfied(c.a, spec) \in Int
    BY <1>2, SatisfiedIsNumber
  <1>6. k4 \in Int /\ k5 \in Int
    BY <1>2, GenerationAssumption
  <1>7. k2 \in Int /\ k3 \in Int
    <2> HIDE DEF seen
    <2> QED
      BY <1>4, <1>5
  <1> HIDE DEF k1, k2, k3, k4, k5
  <1>8. <<k1, k2, k3, k4, k5>>[i] \in Int
    BY <1>3, <1>6, <1>7
  <1> QED
    BY <1>1, <1>8 DEF c

-----------------------------------------------------------------------------
(* What is VERIFIED of the answer.                                         *)

Fits(a, spec) ==
    Violations(a, spec) = {} /\ ~Contradicts(a, spec.known)
    /\ ~(spec.type = "simple_code" /\ "tests" \in DOMAIN spec.fields)

LEMMA VerifiedFits ==
    ASSUME NEW a, NEW spec
    PROVE  ArtifactStatus(a, spec) = "VERIFIED_ARTIFACT" <=> Fits(a, spec)
  BY Zenon DEF ArtifactStatus, Fits

LEMMA EvaluatedFits ==
    ASSUME NEW t, NEW spec, NEW templates
    PROVE  /\ Evaluated(t, spec, templates).status = "VERIFIED_ARTIFACT" => Fits(Evaluated(t, spec, templates).a, spec)
           /\ Lacks(t, spec) = {} /\ Fits(Candidate(t, spec.fields), spec)
                => Evaluated(t, spec, templates).status = "VERIFIED_ARTIFACT"
  <1> DEFINE a == Candidate(t, spec.fields)
             b == Repaired(a, spec, templates)
  <1>1. Evaluated(t, spec, templates) =
          IF Lacks(t, spec) # {} THEN [a |-> a, status |-> "NEEDS_CLARIFICATION"]
          ELSE IF ArtifactStatus(a, spec) # "FAILED_ARTIFACT" THEN [a |-> a, status |-> ArtifactStatus(a, spec)]
          ELSE [a |-> b, status |-> ArtifactStatus(b, spec)]
    BY DEF Evaluated
  <1>2. /\ ArtifactStatus(a, spec) = "VERIFIED_ARTIFACT" <=> Fits(a, spec)
        /\ ArtifactStatus(b, spec) = "VERIFIED_ARTIFACT" <=> Fits(b, spec)
    BY VerifiedFits
  <1>3. a = Candidate(t, spec.fields)
    OBVIOUS
  <1> HIDE DEF a, b
  <1> QED
    BY <1>1, <1>2, <1>3

LEMMA GeneratedHolds ==
    ASSUME NEW spec \in Specs, NEW templates \in SUBSET Shelf
    PROVE  ArtifactHolds(spec, templates, Generated(spec, templates))
  <1> DEFINE made == [t \in templates |-> Evaluated(t, spec, templates)]
             key == [t \in templates |-> RankKey(made[t], t, spec)]
             best == CHOOSE t \in templates : \A u \in templates : ~KeyBefore(key[u], key[t])
             answer == Generated(spec, templates)
  <1>1. answer = IF Blank(spec) # {} THEN [status |-> "NEEDS_CLARIFICATION"]
                 ELSE IF templates = {} THEN [status |-> "INCONCLUSIVE_ARTIFACT"]
                 ELSE [status |-> made[best].status, best |-> made[best].a]
    BY DEF Generated
  <1>2. ArtifactHolds(spec, templates, answer) <=>
          IF answer.status = "VERIFIED_ARTIFACT" THEN Fits(answer.best, spec)
          ELSE Blank(spec) # {} \/ \A t \in templates : Lacks(t, spec) # {} \/ ~Fits(Candidate(t, spec.fields), spec)
    BY DEF ArtifactHolds, Fits
  <1> SUFFICES ArtifactHolds(spec, templates, answer)
    OBVIOUS
  <1> HIDE DEF answer
  <1>3. CASE Blank(spec) # {}
    BY <1>1, <1>2, <1>3
  <1>4. CASE Blank(spec) = {} /\ templates = {}
    BY <1>1, <1>2, <1>4
  <1>5. CASE Blank(spec) = {} /\ templates # {}
    <2>1. IsFiniteSet(templates)
      BY GenerationAssumption, FS_Subset
    <2>2. \A t \in templates, i \in 1..5 : key[t][i] \in Int
      BY KeyIsNumbers
    <2>3. \A t \in templates : made[t] = Evaluated(t, spec, templates)
      OBVIOUS
    <2>4. \A t \in templates : key[t][1] = StatusRank(made[t].status)
      BY DEF RankKey
    <2>5. \A t \in templates : made[t].status \in Statuses
      BY EvaluatedOnShelf
    <2> HIDE DEF key, made
    <2>6. \E t \in templates : \A u \in templates : ~KeyBefore(key[u], key[t])
      BY <1>5, <2>1, <2>2, LeastKey
    <2>7. best \in templates /\ \A u \in templates : ~KeyBefore(key[u], key[best])
      BY <2>6
    <2> HIDE DEF best
    <2>8. answer.status = made[best].status /\ answer.best = made[best].a
      BY <1>1, <1>5
    <2>9. CASE answer.status = "VERIFIED_ARTIFACT"
      BY <1>2, <2>3, <2>7, <2>8, <2>9, EvaluatedFits
    <2>10. CASE answer.status # "VERIFIED_ARTIFACT"
      <3>1. SUFFICES ASSUME NEW t \in templates, Lacks(t, spec) = {}, Fits(Candidate(t, spec.fields), spec)
                     PROVE  FALSE
        BY <1>2, <2>10
      <3>2. made[t].status = "VERIFIED_ARTIFACT"
        BY <3>1, <2>3, EvaluatedFits
      <3>3. key[t][1] = 0 /\ key[best][1] > 0
        <4>1. key[t][1] = 0
          BY <2>4, <3>2 DEF StatusRank
        <4>2. made[best].status \in Statuses \ {"VERIFIED_ARTIFACT"}
          BY <2>5, <2>7, <2>8, <2>10
        <4>3. StatusRank(made[best].status) > 0
          BY <4>2 DEF StatusRank, Statuses
        <4> QED
          BY <2>4, <2>7, <4>1, <4>3
      <3>4. KeyBefore(key[t], key[best])
        BY <3>3 DEF KeyBefore
      <3> QED
        BY <2>7, <3>4
    <2> QED
      BY <2>9, <2>10
  <1> QED
    BY <1>3, <1>4, <1>5

LEMMA ChoicesOnShelf ==
    ASSUME NEW spec, NEW templates \in TemplateChoices(spec)
    PROVE  templates \in SUBSET Shelf
  BY DEF TemplateChoices, Selected

\* An answer that is VERIFIED is so whatever its template was replaced with,
\* and none is missed that a template makes without a repair.
THEOREM VerifiedArtifactsHold == ArtifactSpec => []ArtifactsHold
  <1>1. GenerationInit => ArtifactsHold
    BY DEF GenerationInit, ArtifactsHold
  <1>2. ASSUME ArtifactsHold, [Generate]_generationVars
        PROVE  ArtifactsHold'
    <2>1. CASE Generate
      <3>1. PICK spec \in Specs : \E templates \in TemplateChoices(spec) :
              artifact' = [spec |-> spec, templates |-> templates, answer |-> Generated(spec, templates)]
        BY <2>1 DEF Generate
      <3>2. PICK templates \in TemplateChoices(spec) :
              artifact' = [spec |-> spec, templates |-> templates, answer |-> Generated(spec, templates)]
        BY <3>1
      <3>3. ArtifactHolds(spec, templates, Generated(spec, templates))
        BY ChoicesOnShelf, GeneratedHolds
      <3> QED
        BY <3>2, <3>3 DEF ArtifactsHold
    <2>2. CASE UNCHANGED generationVars
      BY <1>2, <2>2 DEF generationVars, ArtifactsHold
    <2> QED
      BY <1>2, <2>1, <2>2
  <1> QED
    BY <1>1, <1>2, PTL DEF ArtifactSpec

-----------------------------------------------------------------------------
(* What the operations on a memory do to one of claims that are ASSERTED,  *)
(* as an import makes it (FileIngest).                                     *)

Listed(s) == s \in Seq({s[i] : i \in DOMAIN s})

Imported(m) ==
    /\ m = [claims |-> m.claims, schemas |-> m.schemas, transitive |-> m.transitive,
            constraints |-> m.constraints, bindings |-> m.bindings, evidence |-> m.evidence,
            goals |-> m.goals, contradictions |-> m.contradictions]
    /\ Listed(m.claims) /\ Listed(m.goals)
    /\ \A i \in DOMAIN m.claims : m.claims[i].status = "ASSERTED"

\* Every claim is where it was.
Keeps(m, n) ==
    \A i \in DOMAIN m.claims : i \in DOMAIN n.claims /\ n.claims[i] = m.claims[i]

Framed(f) == f.triple = <<f.triple[1], f.triple[2], f.triple[3]>>

LEMMA AppendedIs ==
    ASSUME NEW s, Listed(s), NEW e
    PROVE  /\ Len(s) \in Nat /\ DOMAIN s = 1..Len(s)
           /\ Len(Append(s, e)) = Len(s) + 1 /\ DOMAIN Append(s, e) = 1..(Len(s) + 1)
           /\ \A i \in 1..Len(s) : Append(s, e)[i] = s[i]
           /\ Append(s, e)[Len(s) + 1] = e
           /\ Listed(Append(s, e))
  <1> DEFINE S == {s[i] : i \in DOMAIN s}
             T == S \cup {e}
             t == Append(s, e)
  <1>1. s \in Seq(T) /\ e \in T
    <2>1. s \in Seq(S)
      BY DEF Listed
    <2> HIDE DEF S
    <2>2. Len(s) \in Nat /\ s \in [1..Len(s) -> S]
      BY <2>1
    <2>3. s \in [1..Len(s) -> T]
      BY <2>2
    <2> QED
      BY <2>2, <2>3, SeqDef
  <1> HIDE DEF S, T
  <1>2. /\ Len(s) \in Nat /\ DOMAIN s = 1..Len(s)
        /\ t \in Seq(T) /\ Len(t) = Len(s) + 1 /\ DOMAIN t = 1..(Len(s) + 1)
        /\ (\A i \in 1..Len(s) : t[i] = s[i]) /\ t[Len(s) + 1] = e
    BY <1>1
  <1> HIDE DEF t
  <1>3. Listed(t)
    <2> DEFINE U == {t[i] : i \in DOMAIN t}
    <2>1. Len(t) \in Nat /\ t \in [1..Len(t) -> U]
      BY <1>2
    <2>2. t \in Seq(U)
      BY <2>1, SeqDef
    <2> QED
      BY <2>2 DEF Listed
  <1> QED
    BY <1>2, <1>3 DEF t

LEMMA ListedLen ==
    ASSUME NEW s, Listed(s)
    PROVE  Len(s) \in Nat /\ DOMAIN s = 1..Len(s)
  BY DEF Listed

LEMMA EmptyListed == Listed(<< >>) /\ Len(<< >>) = 0 /\ DOMAIN << >> = {}
  BY DEF Listed

LEMMA EmptyImported ==
    /\ Imported(EmptyMemory) /\ Triples(EmptyMemory) = {} /\ Len(EmptyMemory.goals) = 0
    /\ EmptyMemory.contradictions = {}
  BY EmptyListed DEF Imported, EmptyMemory, Triples

\* What is known of relations is nothing to claims and goals.
WithSchemas(m, s, t) == [m EXCEPT !.schemas = s, !.transitive = t]

LEMMA SchemasChanged ==
    ASSUME NEW m, Imported(m), NEW s, NEW t
    PROVE  LET n == WithSchemas(m, s, t)
           IN  Imported(n) /\ n.claims = m.claims /\ n.goals = m.goals /\ n.contradictions = m.contradictions
  <1> DEFINE k == [claims |-> m.claims, schemas |-> s, transitive |-> m.transitive,
                   constraints |-> m.constraints, bindings |-> m.bindings, evidence |-> m.evidence,
                   goals |-> m.goals, contradictions |-> m.contradictions]
             n == [claims |-> m.claims, schemas |-> s, transitive |-> t,
                   constraints |-> m.constraints, bindings |-> m.bindings, evidence |-> m.evidence,
                   goals |-> m.goals, contradictions |-> m.contradictions]
  <1>1. [m EXCEPT !.schemas = s] = k
    BY DEF Imported
  <1>2. [k EXCEPT !.transitive = t] = n
    OBVIOUS
  <1>3. [m EXCEPT !.schemas = s, !.transitive = t] = [[m EXCEPT !.schemas = s] EXCEPT !.transitive = t]
    OBVIOUS
  <1>4. Imported(n) /\ n.claims = m.claims /\ n.goals = m.goals /\ n.contradictions = m.contradictions
    BY DEF Imported
  <1> QED
    BY <1>1, <1>2, <1>3, <1>4 DEF WithSchemas

LEMMA SchemaEnsured ==
    ASSUME NEW m, Imported(m), NEW r
    PROVE  LET n == EnsureSchema(m, r)
           IN  Imported(n) /\ n.claims = m.claims /\ n.goals = m.goals /\ n.contradictions = m.contradictions
  <1>1. EnsureSchema(m, r) = m \/ \E s, t : EnsureSchema(m, r) = WithSchemas(m, s, t)
    BY DEF EnsureSchema, AddSchema, WithSchemas
  <1> QED
    BY <1>1, SchemasChanged

LEMMA BundleImported ==
    ASSUME NEW m, Imported(m)
    PROVE  LET n == WithBundle(m)
           IN  Imported(n) /\ n.claims = m.claims /\ n.goals = m.goals /\ n.contradictions = m.contradictions
  <1>1. \E s, t : WithBundle(m) = WithSchemas(m, s, t)
    BY DEF WithBundle, WithSchemas
  <1> QED
    BY <1>1, SchemasChanged

LEMMA ClaimImported ==
    ASSUME NEW m, Imported(m), NEW x, NEW r, NEW y
    PROVE  LET n == AddClaim(m, x, r, y, "ASSERTED", << >>)
           IN  /\ Imported(n) /\ Keeps(m, n)
               /\ Triples(n) = Triples(m) \cup {<<x, r, y>>}
               /\ n.goals = m.goals /\ n.contradictions = m.contradictions
  <1> DEFINE n == AddClaim(m, x, r, y, "ASSERTED", << >>)
  <1>1. CASE Holds(m, x, r, y)
    <2>1. n = m /\ <<x, r, y>> \in Triples(m)
      BY <1>1 DEF AddClaim, Holds
    <2> HIDE DEF n
    <2>2. Imported(n) /\ Keeps(m, n) /\ Triples(n) = Triples(m) \cup {<<x, r, y>>} /\ n.goals = m.goals
          /\ n.contradictions = m.contradictions
      BY <2>1 DEF Keeps
    <2> QED
      BY <2>2 DEF n
  <1>2. CASE ~Holds(m, x, r, y)
    <2> DEFINE c == [subject |-> x, relation |-> r, object |-> y, status |-> "ASSERTED", deps |-> << >>]
               q == Append(m.claims, c)
               k == [claims |-> q, schemas |-> m.schemas, transitive |-> m.transitive,
                     constraints |-> m.constraints, bindings |-> m.bindings, evidence |-> m.evidence,
                     goals |-> m.goals, contradictions |-> m.contradictions]
    <2>1. n = [m EXCEPT !.claims = q]
      BY <1>2 DEF AddClaim
    <2>2. TripleOf(c) = <<x, r, y>> /\ c.status = "ASSERTED"
      BY DEF TripleOf
    <2> HIDE DEF c
    <2>3. /\ Len(m.claims) \in Nat /\ DOMAIN m.claims = 1..Len(m.claims)
          /\ DOMAIN q = 1..(Len(m.claims) + 1)
          /\ \A i \in 1..Len(m.claims) : q[i] = m.claims[i]
          /\ q[Len(m.claims) + 1] = c
          /\ Listed(q)
      BY AppendedIs DEF Imported
    <2> HIDE DEF q
    <2>4. [m EXCEPT !.claims = q] = k
      BY DEF Imported
    <2>5. k.claims = q /\ k.goals = m.goals /\ k.contradictions = m.contradictions
      OBVIOUS
    <2>6. \A i \in DOMAIN q : i \in 1..Len(m.claims) \/ i = Len(m.claims) + 1
      BY <2>3
    <2>7. \A i \in DOMAIN q : q[i].status = "ASSERTED"
      BY <2>2, <2>3, <2>6 DEF Imported
    <2>8. Imported(k)
      BY <2>3, <2>7 DEF Imported
    <2>9. n = k
      BY <2>1, <2>4
    <2> HIDE DEF k, n
    <2>10. Keeps(m, n)
      BY <2>3, <2>5, <2>9 DEF Keeps
    <2>11. Triples(n) = Triples(m) \cup {<<x, r, y>>}
      <3>1. Triples(n) = {TripleOf(q[i]) : i \in DOMAIN q}
        BY <2>5, <2>9 DEF Triples
      <3>2. DOMAIN q = DOMAIN m.claims \cup {Len(m.claims) + 1}
        BY <2>3
      <3>3. \A i \in DOMAIN m.claims : q[i] = m.claims[i]
        BY <2>3
      <3>4. Triples(m) = {TripleOf(m.claims[i]) : i \in DOMAIN m.claims}
        BY DEF Triples
      <3>5. {TripleOf(q[i]) : i \in DOMAIN q} = {TripleOf(q[i]) : i \in DOMAIN m.claims} \cup {TripleOf(c)}
        BY <2>3, <3>2
      <3>6. {TripleOf(q[i]) : i \in DOMAIN m.claims} = {TripleOf(m.claims[i]) : i \in DOMAIN m.claims}
        BY <3>3
      <3> QED
        BY <2>2, <3>1, <3>4, <3>5, <3>6
    <2>12. Imported(n) /\ n.goals = m.goals /\ n.contradictions = m.contradictions
      BY <2>5, <2>8, <2>9
    <2> QED
      BY <2>10, <2>11, <2>12 DEF n
  <1> QED
    BY <1>1, <1>2

LEMMA GoalImported ==
    ASSUME NEW m, Imported(m), NEW g
    PROVE  LET n == AddGoal(m, g)
           IN  /\ Imported(n) /\ n.claims = m.claims /\ Len(n.goals) = Len(m.goals) + 1
               /\ n.contradictions = m.contradictions
  <1> DEFINE q == Append(m.goals, g)
             k == [claims |-> m.claims, schemas |-> m.schemas, transitive |-> m.transitive,
                   constraints |-> m.constraints, bindings |-> m.bindings, evidence |-> m.evidence,
                   goals |-> q, contradictions |-> m.contradictions]
  <1>1. AddGoal(m, g) = [m EXCEPT !.goals = q]
    BY DEF AddGoal
  <1>2. Len(q) = Len(m.goals) + 1 /\ Listed(q)
    BY AppendedIs DEF Imported
  <1> HIDE DEF q
  <1>3. [m EXCEPT !.goals = q] = k
    BY DEF Imported
  <1>4. Imported(k) /\ k.claims = m.claims /\ k.goals = q /\ k.contradictions = m.contradictions
    BY <1>2 DEF Imported
  <1> QED
    BY <1>1, <1>2, <1>3, <1>4

LEMMA ConstraintImported ==
    ASSUME NEW m, Imported(m), NEW c
    PROVE  LET n == AddConstraint(m, c)
           IN  Imported(n) /\ n.claims = m.claims /\ n.goals = m.goals /\ n.contradictions = m.contradictions
  <1> DEFINE q == Append(m.constraints, c)
             k == [claims |-> m.claims, schemas |-> m.schemas, transitive |-> m.transitive,
                   constraints |-> q, bindings |-> m.bindings, evidence |-> m.evidence,
                   goals |-> m.goals, contradictions |-> m.contradictions]
  <1>1. AddConstraint(m, c) = [m EXCEPT !.constraints = q]
    BY DEF AddConstraint
  <1> HIDE DEF q
  <1>2. [m EXCEPT !.constraints = q] = k
    BY DEF Imported
  <1>3. Imported(k) /\ k.claims = m.claims /\ k.goals = m.goals /\ k.contradictions = m.contradictions
    BY DEF Imported
  <1> QED
    BY <1>1, <1>2, <1>3

\* Applying one frame: what it states is there, with what was.
LEMMA RowImported ==
    ASSUME NEW m, Imported(m), NEW f, Framed(f)
    PROVE  LET n == ApplyRow(m, f)
           IN  /\ Imported(n) /\ Keeps(m, n) /\ n.contradictions = m.contradictions
               /\ Triples(n) = Triples(m) \cup (IF f.kind = "claim" THEN {f.triple} ELSE {})
               /\ Len(n.goals) = Len(m.goals) + (IF f.kind = "goal" THEN 1 ELSE 0)
               /\ Makes(f) => Made(n, f)[1] = f.kind
               /\ f.kind = "claim" =>
                    Made(n, f)[2] \in DOMAIN n.claims /\ TripleOf(n.claims[Made(n, f)[2]]) = f.triple
  <1> DEFINE n == ApplyRow(m, f)
             k == EnsureSchema(m, f.triple[2])
  <1>1. /\ Imported(k) /\ k.claims = m.claims /\ k.goals = m.goals /\ k.contradictions = m.contradictions
        /\ Triples(k) = Triples(m)
    BY SchemaEnsured DEF Triples
  <1>2. Len(m.goals) \in Nat
    BY ListedLen DEF Imported
  <1>3. ASSUME NEW j, j.claims = m.claims
        PROVE  Keeps(m, j) /\ Triples(j) = Triples(m)
    BY <1>3 DEF Keeps, Triples
  <1>4. CASE f.kind = "claim"
    <2>1. n = AddClaim(k, f.triple[1], f.triple[2], f.triple[3], "ASSERTED", << >>)
      BY <1>4 DEF ApplyRow, ApplyFrame
    <2> HIDE DEF n, k
    <2>2. /\ Imported(n) /\ Keeps(k, n) /\ n.goals = m.goals /\ n.contradictions = m.contradictions
          /\ Triples(n) = Triples(m) \cup {f.triple}
      <3>1. /\ Imported(n) /\ Keeps(k, n) /\ n.goals = k.goals /\ n.contradictions = k.contradictions
            /\ Triples(n) = Triples(k) \cup {<<f.triple[1], f.triple[2], f.triple[3]>>}
        BY <1>1, <2>1, ClaimImported
      <3>2. f.triple = <<f.triple[1], f.triple[2], f.triple[3]>>
        BY DEF Framed
      <3> QED
        BY <1>1, <3>1, <3>2
    <2>3. Keeps(m, n)
      BY <1>1, <2>2 DEF Keeps
    <2>4. Made(n, f) = <<"claim", ClaimIdOf(n, f.triple[1], f.triple[2], f.triple[3])>>
      BY <1>4 DEF Made
    <2>5. \E i \in DOMAIN n.claims : TripleOf(n.claims[i]) = f.triple
      BY <2>2 DEF Triples
    <2>6. ClaimIdOf(n, f.triple[1], f.triple[2], f.triple[3]) \in DOMAIN n.claims
          /\ TripleOf(n.claims[ClaimIdOf(n, f.triple[1], f.triple[2], f.triple[3])]) = f.triple
      BY <2>5 DEF ClaimIdOf, Framed
    <2>7. Len(n.goals) = Len(m.goals) + 0
      BY <1>2, <2>2
    <2> QED
      BY <1>4, <2>2, <2>3, <2>4, <2>6, <2>7 DEF n
  <1>5. CASE f.kind = "goal"
    <2>1. PICK g : n = AddGoal(k, g)
      BY <1>5 DEF ApplyRow, ApplyFrame
    <2> HIDE DEF n, k
    <2>2. Imported(n) /\ n.claims = m.claims /\ Len(n.goals) = Len(m.goals) + 1 /\ n.contradictions = m.contradictions
      BY <1>1, <2>1, GoalImported
    <2>3. Keeps(m, n) /\ Triples(n) = Triples(m)
      BY <1>3, <2>2
    <2>4. Made(n, f)[1] = "goal"
      BY <1>5 DEF Made
    <2> QED
      BY <1>5, <2>2, <2>3, <2>4 DEF n
  <1>6. CASE f.kind \notin {"claim", "goal"}
    <2>1. n = m \/ \E c : n = AddConstraint(m, c)
      BY <1>6 DEF ApplyRow, ApplyFrame
    <2> HIDE DEF n
    <2>2. Imported(n) /\ n.claims = m.claims /\ n.goals = m.goals /\ n.contradictions = m.contradictions
      BY <2>1, ConstraintImported
    <2>3. Keeps(m, n) /\ Triples(n) = Triples(m)
      BY <1>3, <2>2
    <2>4. Made(n, f)[1] = "constraint" /\ (Makes(f) => f.kind = "constraint")
      BY <1>6 DEF Made, Makes
    <2>5. Len(n.goals) = Len(m.goals) + 0
      BY <1>2, <2>2
    <2> QED
      BY <1>6, <2>2, <2>3, <2>4, <2>5 DEF n
  <1> QED
    BY <1>4, <1>5, <1>6

-----------------------------------------------------------------------------
(* Applying all of them, one after the other.                              *)

Afterwards(before, f) ==
    LET x == ApplyRow(before.memory, f)
    IN  [memory |-> x, ids |-> IF Makes(f) THEN Append(before.ids, Made(x, f)) ELSE before.ids]

\* g[n] is what there is after n frames.
Applying(g, m, frames, n) ==
    /\ g = [k \in 0..n |-> g[k]]
    /\ \A k \in 0..n : g[k] = IF k = 0 THEN [memory |-> m, ids |-> << >>] ELSE Afterwards(g[k - 1], frames[k])

LEMMA StagesExist ==
    ASSUME NEW m, NEW frames, NEW n \in Nat
    PROVE  \E g : Applying(g, m, frames, n)
  <1> DEFINE B == {k \in Nat : ~ \E g : Applying(g, m, frames, k)}
  <1> SUFFICES ASSUME B # {} PROVE FALSE
    OBVIOUS
  <1>1. PICK b \in B : \A k \in B : b <= k
    <2>1. B \in SUBSET Nat
      OBVIOUS
    <2> HIDE DEF B
    <2> QED
      BY <2>1, LeastNumber
  <1>2. b # 0
    <2> DEFINE g == [k \in 0..0 |-> [memory |-> m, ids |-> << >>]]
    <2>1. Applying(g, m, frames, 0)
      BY DEF Applying
    <2> QED
      BY <2>1
  <1>3. b \in Nat /\ b - 1 \in Nat /\ ~(b <= b - 1)
    BY <1>1, <1>2
  <1>4. b - 1 \notin B
    BY <1>1, <1>3
  <1>5. PICK g : Applying(g, m, frames, b - 1)
    BY <1>3, <1>4
  <1> DEFINE h == [k \in 0..b |-> IF k = b THEN Afterwards(g[b - 1], frames[b]) ELSE g[k]]
  <1>6. \A k \in 0..(b - 1) : h[k] = g[k]
    BY <1>3
  <1>7. ASSUME NEW k \in 0..b
        PROVE  h[k] = IF k = 0 THEN [memory |-> m, ids |-> << >>] ELSE Afterwards(h[k - 1], frames[k])
    <2>1. CASE k = b
      <3>1. h[k] = Afterwards(g[b - 1], frames[b]) /\ h[b - 1] = g[b - 1]
        BY <1>3, <1>6, <2>1
      <3> HIDE DEF h
      <3> QED
        BY <1>2, <2>1, <3>1
    <2>2. CASE k # b
      <3>1. k \in 0..(b - 1)
        BY <1>3, <2>2
      <3>2. g[k] = IF k = 0 THEN [memory |-> m, ids |-> << >>] ELSE Afterwards(g[k - 1], frames[k])
        BY <1>5, <3>1 DEF Applying
      <3>3. k # 0 => k - 1 \in 0..(b - 1)
        BY <1>3, <3>1
      <3>4. h[k] = g[k] /\ (k # 0 => h[k - 1] = g[k - 1])
        BY <1>6, <3>1, <3>3
      <3> HIDE DEF h
      <3> QED
        BY <3>2, <3>4
    <2> QED
      BY <2>1, <2>2
  <1>8. h = [k \in 0..b |-> h[k]]
    OBVIOUS
  <1>9. Applying(h, m, frames, b)
    <2> HIDE DEF h
    <2> QED
      BY <1>7, <1>8 DEF Applying
  <1>10. \E f : Applying(f, m, frames, b)
    BY <1>9
  <1> QED
    BY <1>1, <1>10

LEMMA ApplicationIsLast ==
    ASSUME NEW m, NEW frames, Len(frames) \in Nat
    PROVE  \E g : Applying(g, m, frames, Len(frames)) /\ Application(m, frames) = g[Len(frames)]
  <1> DEFINE n == Len(frames)
             body(g) == [k \in 0..n |-> IF k = 0 THEN [memory |-> m, ids |-> << >>] ELSE Afterwards(g[k - 1], frames[k])]
             upto == CHOOSE g : g = body(g)
  <1>1. Application(m, frames) = upto[n]
    BY DEF Application, Afterwards
  <1>2. \E g : g = body(g)
    <2>1. PICK g : Applying(g, m, frames, n)
      BY StagesExist
    <2>2. g = body(g)
      BY <2>1 DEF Applying
    <2> QED
      BY <2>2
  <1>3. upto = body(upto)
    BY <1>2
  <1>4. Applying(upto, m, frames, n)
    BY <1>3 DEF Applying
  <1> HIDE DEF upto
  <1> QED
    BY <1>1, <1>4

KindIs(frames, n, kind) == {i \in 1..n : frames[i].kind = kind}

\* What n frames make of a memory, with the ids if each of them makes one.
After(a, m, frames, n) ==
    /\ Imported(a.memory) /\ Keeps(m, a.memory) /\ a.memory.contradictions = m.contradictions
    /\ Triples(a.memory) = Triples(m) \cup {frames[i].triple : i \in KindIs(frames, n, "claim")}
    /\ Len(a.memory.goals) = Len(m.goals) + Cardinality(KindIs(frames, n, "goal"))
    /\ Listed(a.ids)
    /\ (\A i \in 1..n : Makes(frames[i])) =>
         /\ Len(a.ids) = n
         /\ \A i \in 1..n :
              /\ a.ids[i][1] = frames[i].kind
              /\ frames[i].kind = "claim" =>
                   /\ a.ids[i][2] \in DOMAIN a.memory.claims
                   /\ TripleOf(a.memory.claims[a.ids[i][2]]) = frames[i].triple

LEMMA AfterNone ==
    ASSUME NEW m, Imported(m), NEW frames
    PROVE  After([memory |-> m, ids |-> << >>], m, frames, 0)
  <1>1. \A i : i \notin 1..0
    OBVIOUS
  <1>2. KindIs(frames, 0, "claim") = {} /\ KindIs(frames, 0, "goal") = {}
    BY <1>1 DEF KindIs
  <1>3. Cardinality({}) = 0 /\ Len(m.goals) \in Nat
    BY FS_EmptySet, ListedLen DEF Imported
  <1> DEFINE a == [memory |-> m, ids |-> << >>]
  <1>4. a.memory = m /\ a.ids = << >>
    OBVIOUS
  <1>5. Keeps(m, m)
    BY DEF Keeps
  <1> HIDE DEF a
  <1>6. /\ Triples(a.memory) = Triples(m) \cup {frames[i].triple : i \in KindIs(frames, 0, "claim")}
        /\ Len(a.memory.goals) = Len(m.goals) + Cardinality(KindIs(frames, 0, "goal"))
    <2>1. {frames[i].triple : i \in KindIs(frames, 0, "claim")} = {}
      BY <1>2
    <2>2. Cardinality(KindIs(frames, 0, "goal")) = 0
      BY <1>2, <1>3
    <2>3. Len(m.goals) = Len(m.goals) + Cardinality(KindIs(frames, 0, "goal"))
      BY <1>3, <2>2
    <2> QED
      BY <1>4, <2>1, <2>3
  <1>7. Len(a.ids) = 0 /\ Listed(a.ids)
    BY <1>4, EmptyListed
  <1>8. After(a, m, frames, 0)
    BY <1>1, <1>4, <1>5, <1>6, <1>7 DEF After
  <1> QED
    BY <1>8 DEF a

LEMMA AfterOneMore ==
    ASSUME NEW m, NEW frames, NEW n \in Nat, NEW b, After(b, m, frames, n), Imported(m), Framed(frames[n + 1])
    PROVE  After(Afterwards(b, frames[n + 1]), m, frames, n + 1)
  <1> DEFINE f == frames[n + 1]
             x == ApplyRow(b.memory, f)
             q == IF Makes(f) THEN Append(b.ids, Made(x, f)) ELSE b.ids
             a == [memory |-> x, ids |-> q]
  <1>0. Afterwards(b, f) = a /\ a.memory = x /\ a.ids = q
    BY DEF Afterwards
  <1>1. /\ Imported(b.memory) /\ Keeps(m, b.memory) /\ b.memory.contradictions = m.contradictions
        /\ Triples(b.memory) = Triples(m) \cup {frames[i].triple : i \in KindIs(frames, n, "claim")}
        /\ Len(b.memory.goals) = Len(m.goals) + Cardinality(KindIs(frames, n, "goal"))
        /\ Listed(b.ids)
    BY DEF After
  <1>2. /\ Imported(x) /\ Keeps(b.memory, x) /\ x.contradictions = b.memory.contradictions
        /\ Triples(x) = Triples(b.memory) \cup (IF f.kind = "claim" THEN {f.triple} ELSE {})
        /\ Len(x.goals) = Len(b.memory.goals) + (IF f.kind = "goal" THEN 1 ELSE 0)
        /\ Makes(f) => Made(x, f)[1] = f.kind
        /\ f.kind = "claim" => Made(x, f)[2] \in DOMAIN x.claims /\ TripleOf(x.claims[Made(x, f)[2]]) = f.triple
    BY <1>1, RowImported
  <1>3. 1..(n + 1) = (1..n) \cup {n + 1} /\ n + 1 \notin 1..n
    OBVIOUS
  <1>4. ASSUME NEW kind
        PROVE  KindIs(frames, n + 1, kind) = KindIs(frames, n, kind) \cup (IF f.kind = kind THEN {n + 1} ELSE {})
    BY <1>3 DEF KindIs
  <1>5. Triples(x) = Triples(m) \cup {frames[i].triple : i \in KindIs(frames, n + 1, "claim")}
    <2>1. KindIs(frames, n + 1, "claim") = KindIs(frames, n, "claim") \cup (IF f.kind = "claim" THEN {n + 1} ELSE {})
      BY <1>4
    <2>2. {frames[i].triple : i \in KindIs(frames, n + 1, "claim")}
          = {frames[i].triple : i \in KindIs(frames, n, "claim")} \cup (IF f.kind = "claim" THEN {f.triple} ELSE {})
      BY <2>1
    <2> HIDE DEF x
    <2> QED
      BY <1>1, <1>2, <2>2
  <1>6. Len(x.goals) = Len(m.goals) + Cardinality(KindIs(frames, n + 1, "goal"))
    <2> DEFINE G == KindIs(frames, n, "goal")
    <2>1. G \in SUBSET (1..n)
      BY DEF KindIs
    <2>2. IsFiniteSet(1..n)
      BY FS_Interval
    <2>3. IsFiniteSet(G) /\ Cardinality(G) \in Nat
      BY <2>1, <2>2, FS_Subset, FS_CardinalityType
    <2>4. n + 1 \notin G
      BY <1>3, <2>1
    <2>5. KindIs(frames, n + 1, "goal") = IF f.kind = "goal" THEN G \cup {n + 1} ELSE G
      BY <1>4
    <2>6. Len(m.goals) \in Nat /\ Len(b.memory.goals) = Len(m.goals) + Cardinality(G)
      BY <1>1, ListedLen DEF Imported
    <2> HIDE DEF G
    <2>7. Cardinality(G \cup {n + 1}) = Cardinality(G) + 1
      BY <2>3, <2>4, FS_AddElement
    <2>8. Len(x.goals) = Cardinality(G) + Len(m.goals) + (IF f.kind = "goal" THEN 1 ELSE 0)
      BY <1>2, <2>3, <2>6
    <2>9. Cardinality(KindIs(frames, n + 1, "goal")) = Cardinality(G) + (IF f.kind = "goal" THEN 1 ELSE 0)
      BY <2>3, <2>5, <2>7
    <2> HIDE DEF x, f
    <2> QED
      BY <2>3, <2>6, <2>8, <2>9
  <1>7. Imported(x) /\ Keeps(m, x) /\ x.contradictions = m.contradictions
    <2> HIDE DEF x
    <2> QED
      BY <1>1, <1>2 DEF Keeps
  <1>8. Listed(q)
    BY <1>1, AppendedIs
  <1>9. ASSUME \A i \in 1..(n + 1) : Makes(frames[i])
        PROVE  /\ Len(q) = n + 1
               /\ \A i \in 1..(n + 1) :
                    /\ q[i][1] = frames[i].kind
                    /\ frames[i].kind = "claim" => q[i][2] \in DOMAIN x.claims /\ TripleOf(x.claims[q[i][2]]) = frames[i].triple
    <2>1. Makes(f) /\ \A i \in 1..n : Makes(frames[i])
      BY <1>3, <1>9
    <2>2. /\ Len(b.ids) = n
          /\ \A i \in 1..n :
               /\ b.ids[i][1] = frames[i].kind
               /\ frames[i].kind = "claim" =>
                    b.ids[i][2] \in DOMAIN b.memory.claims /\ TripleOf(b.memory.claims[b.ids[i][2]]) = frames[i].triple
      BY <2>1 DEF After
    <2>3. q = Append(b.ids, Made(x, f))
      BY <2>1
    <2> HIDE DEF q, x
    <2>4. Len(q) = n + 1 /\ (\A i \in 1..n : q[i] = b.ids[i]) /\ q[n + 1] = Made(x, f)
      BY <1>1, <2>2, <2>3, AppendedIs
    <2>5. ASSUME NEW i \in 1..n
          PROVE  /\ q[i][1] = frames[i].kind
                 /\ frames[i].kind = "claim" => q[i][2] \in DOMAIN x.claims /\ TripleOf(x.claims[q[i][2]]) = frames[i].triple
      BY <1>2, <2>2, <2>4 DEF Keeps
    <2>6. /\ q[n + 1][1] = f.kind
          /\ f.kind = "claim" => q[n + 1][2] \in DOMAIN x.claims /\ TripleOf(x.claims[q[n + 1][2]]) = f.triple
      BY <1>2, <2>1, <2>4
    <2> QED
      BY <1>3, <2>4, <2>5, <2>6
  <1> HIDE DEF x, q, f
  <1>10. After(a, m, frames, n + 1)
    BY <1>5, <1>6, <1>7, <1>8, <1>9 DEF After
  <1> QED
    BY <1>0, <1>10 DEF f

LEMMA Applies ==
    ASSUME NEW m, Imported(m), NEW frames, Len(frames) \in Nat, \A i \in 1..Len(frames) : Framed(frames[i])
    PROVE  After(Application(m, frames), m, frames, Len(frames))
  <1> DEFINE len == Len(frames)
  <1>1. len \in Nat
    OBVIOUS
  <1>2. PICK g : Applying(g, m, frames, len) /\ Application(m, frames) = g[len]
    BY ApplicationIsLast
  <1> HIDE DEF len
  <1>3. \A k \in 0..len : g[k] = IF k = 0 THEN [memory |-> m, ids |-> << >>] ELSE Afterwards(g[k - 1], frames[k])
    BY <1>2 DEF Applying
  <1> DEFINE Has(k) == After(g[k], m, frames, k)
             B == {k \in 0..len : ~Has(k)}
  <1>4. B = {}
    <2> SUFFICES ASSUME B # {} PROVE FALSE
      OBVIOUS
    <2>1. PICK b \in B : \A k \in B : b <= k
      <3>1. B \in SUBSET Nat
        BY <1>1
      <3> HIDE DEF B
      <3> QED
        BY <3>1, LeastNumber
    <2>2. b \in 0..len /\ ~Has(b)
      OBVIOUS
    <2>3. Has(0)
      <3>1. 0 \in 0..len
        BY <1>1
      <3>2. g[0] = [memory |-> m, ids |-> << >>]
        BY <1>3, <3>1
      <3> QED
        BY <3>2, AfterNone
    <2>4. b # 0
      <3> HIDE DEF Has
      <3> QED
        BY <2>2, <2>3
    <2>5. b - 1 \in 0..len /\ b - 1 \in Nat /\ b \in 1..len /\ ~(b <= b - 1) /\ (b - 1) + 1 = b
      BY <1>1, <2>2, <2>4
    <2>6. Has(b - 1)
      <3> HIDE DEF Has
      <3> QED
        BY <2>1, <2>5
    <2>7. g[b] = Afterwards(g[b - 1], frames[b])
      BY <1>3, <2>4, <2>5
    <2>8. Framed(frames[b])
      BY <2>5 DEF len
    <2>9. Has(b)
      BY <2>5, <2>6, <2>7, <2>8, AfterOneMore
    <2> QED
      <3> HIDE DEF Has
      <3> QED
        BY <2>2, <2>9
  <1>5. Has(len)
    <2>1. len \in 0..len /\ len \notin B
      BY <1>1, <1>4
    <2> HIDE DEF Has
    <2> QED
      BY <2>1
  <1> QED
    BY <1>2, <1>5 DEF len

-----------------------------------------------------------------------------
(* Lists that are put together make a list (FlattenSeq).                   *)

Flattening(g, seqs, n) ==
    /\ g = [k \in 1..n |-> g[k]]
    /\ \A k \in 1..n : g[k] = IF k = 1 THEN seqs[k] ELSE g[k - 1] \o seqs[k]

LEMMA FlatteningExists ==
    ASSUME NEW seqs, NEW n \in Nat, n # 0
    PROVE  \E g : Flattening(g, seqs, n)
  <1> DEFINE B == {k \in Nat : k # 0 /\ ~ \E g : Flattening(g, seqs, k)}
  <1> SUFFICES ASSUME B # {} PROVE FALSE
    OBVIOUS
  <1>1. PICK b \in B : \A k \in B : b <= k
    <2>1. B \in SUBSET Nat
      OBVIOUS
    <2> HIDE DEF B
    <2> QED
      BY <2>1, LeastNumber
  <1>2. b # 1
    <2> DEFINE g == [k \in 1..1 |-> seqs[1]]
    <2>1. Flattening(g, seqs, 1)
      BY DEF Flattening
    <2> QED
      BY <2>1
  <1>3. b \in Nat /\ b - 1 \in Nat /\ b - 1 # 0 /\ b # 0 /\ ~(b <= b - 1)
    BY <1>1, <1>2
  <1>4. b - 1 \notin B
    BY <1>1, <1>3
  <1>5. PICK g : Flattening(g, seqs, b - 1)
    BY <1>3, <1>4
  <1> DEFINE c == g[b - 1] \o seqs[b]
             h == [k \in 1..b |-> IF k = b THEN c ELSE g[k]]
  <1> HIDE DEF c
  <1>6. \A k \in 1..(b - 1) : h[k] = g[k]
    BY <1>3
  <1>7. ASSUME NEW k \in 1..b
        PROVE  h[k] = IF k = 1 THEN seqs[k] ELSE h[k - 1] \o seqs[k]
    <2>1. CASE k = b
      <3>0. b \in 1..b /\ b - 1 \in 1..(b - 1)
        BY <1>3
      <3>1. h[k] = g[b - 1] \o seqs[b] /\ h[b - 1] = g[b - 1]
        BY <1>6, <2>1, <3>0 DEF c
      <3> HIDE DEF h
      <3> QED
        BY <1>2, <2>1, <3>1
    <2>2. CASE k # b
      <3>1. k \in 1..(b - 1)
        BY <1>3, <2>2
      <3>2. g[k] = IF k = 1 THEN seqs[k] ELSE g[k - 1] \o seqs[k]
        BY <1>5, <3>1 DEF Flattening
      <3>3. k # 1 => k - 1 \in 1..(b - 1)
        BY <1>3, <3>1
      <3>4. h[k] = g[k] /\ (k # 1 => h[k - 1] = g[k - 1])
        BY <1>6, <3>1, <3>3
      <3> HIDE DEF h
      <3> QED
        BY <3>2, <3>4
    <2> QED
      BY <2>1, <2>2
  <1>8. h = [k \in 1..b |-> h[k]]
    OBVIOUS
  <1>9. Flattening(h, seqs, b)
    <2> HIDE DEF h
    <2> QED
      BY <1>7, <1>8 DEF Flattening
  <1>10. \E f : Flattening(f, seqs, b)
    BY <1>9
  <1> QED
    BY <1>1, <1>10

LEMMA FlattenedIs ==
    ASSUME NEW S, NEW seqs \in Seq(Seq(S))
    PROVE  FlattenSeq(seqs) \in Seq(S)
  <1> DEFINE n == Len(seqs)
             body(g) == [k \in 1..n |-> IF k = 1 THEN seqs[k] ELSE g[k - 1] \o seqs[k]]
             flatten == CHOOSE g : g = body(g)
  <1>1. n \in Nat /\ DOMAIN seqs = 1..n /\ \A k \in 1..n : seqs[k] \in Seq(S)
    OBVIOUS
  <1>2. CASE n = 0
    <2>1. seqs = << >>
      BY <1>1, <1>2
    <2>2. FlattenSeq(seqs) = seqs
      BY <1>2 DEF FlattenSeq
    <2>3. << >> \in Seq(S)
      OBVIOUS
    <2> QED
      BY ONLY <2>1, <2>2, <2>3
  <1>3. CASE n # 0
    <2>1. FlattenSeq(seqs) = flatten[n]
      BY <1>3 DEF FlattenSeq
    <2>2. \E g : g = body(g)
      <3>1. PICK g : Flattening(g, seqs, n)
        BY <1>1, <1>3, FlatteningExists
      <3>2. g = body(g)
        BY <3>1 DEF Flattening
      <3> QED
        BY <3>2
    <2>3. flatten = body(flatten)
      BY <2>2
    <2>4. \A k \in 1..n : flatten[k] = IF k = 1 THEN seqs[k] ELSE flatten[k - 1] \o seqs[k]
      BY <2>3
    <2> HIDE DEF flatten, n
    <2> DEFINE B == {k \in 1..n : flatten[k] \notin Seq(S)}
    <2>5. B = {}
      <3> SUFFICES ASSUME B # {} PROVE FALSE
        OBVIOUS
      <3>1. PICK b \in B : \A k \in B : b <= k
        <4>1. B \in SUBSET Nat
          BY <1>1
        <4> HIDE DEF B
        <4> QED
          BY <4>1, LeastNumber
      <3>2. b \in 1..n /\ flatten[b] \notin Seq(S)
        OBVIOUS
      <3>3. b # 1
        BY <1>1, <2>4, <3>2
      <3>4. b - 1 \in 1..n /\ ~(b <= b - 1)
        BY <1>1, <3>2, <3>3
      <3>5. flatten[b - 1] \in Seq(S)
        BY <3>1, <3>4
      <3>6. flatten[b] = flatten[b - 1] \o seqs[b] /\ seqs[b] \in Seq(S)
        BY <1>1, <2>4, <3>2, <3>3
      <3> QED
        BY <3>2, <3>5, <3>6
    <2>6. n \in 1..n
      BY <1>1, <1>3
    <2> QED
      BY <2>1, <2>5, <2>6
  <1> QED
    BY <1>2, <1>3

-----------------------------------------------------------------------------
(* What a document makes of a memory.                                      *)

LEMMA OneFramed ==
    ASSUME NEW kind, NEW x, NEW r, NEW y, NEW words
    PROVE  Framed(Frame(kind, <<x, r, y>>, words))
  BY DEF Framed, Frame

\* Of each row that makes a frame there is one.
LEMMA FramesOfRows ==
    ASSUME NEW row, NEW doc, NEW template,
           NEW g \in {OwnFrames(row), PolicyFrames(row), CsvFrames(doc, template, row), RecordFrames(row)}
    PROVE  g = << >> \/ \E f : g = <<f>> /\ Framed(f)
  <1>1. g = << >> \/ \E kind, x, r, y : g = << Frame(kind, <<x, r, y>>, {}) >>
    <2>1. CASE g = OwnFrames(row)
      BY <2>1 DEF OwnFrames
    <2>2. CASE g = PolicyFrames(row)
      BY <2>2 DEF PolicyFrames
    <2>3. CASE g = CsvFrames(doc, template, row)
      BY <2>3 DEF CsvFrames
    <2>4. CASE g = RecordFrames(row)
      BY <2>4 DEF RecordFrames
    <2> QED
      BY <2>1, <2>2, <2>3, <2>4
  <1> QED
    BY <1>1, OneFramed

LEMMA ExtractedFramed ==
    ASSUME NEW file \in DOMAIN Documents, NEW template
    PROVE  LET read == Extracted(Documents[file], template)
           IN  /\ Len(read) \in Nat /\ DOMAIN read = 1..Len(read)
               /\ \A i \in DOMAIN read : Framed(read[i].frame)
  <1> DEFINE doc == Documents[file]
             own == \E i \in DOMAIN doc.rows : OwnFrames(doc.rows[i]) # << >>
             of(row) == CASE doc.type = "csv" -> CsvFrames(doc, template, row)
                          [] doc.type = "json" -> RecordFrames(row)
                          [] doc.type = "text" /\ template = OwnTemplate.name /\ own -> OwnFrames(row)
                          [] OTHER -> PolicyFrames(row)
             parts == [i \in DOMAIN doc.rows |->
                          [k \in DOMAIN of(doc.rows[i]) |-> [row |-> i, frame |-> of(doc.rows[i])[k]]]]
             read == FlattenSeq(parts)
             S == UNION {{parts[i][k] : k \in DOMAIN parts[i]} : i \in DOMAIN parts}
  <1>1. Extracted(Documents[file], template) = read
    BY DEF Extracted
  <1>2. \A row : of(row) = CsvFrames(doc, template, row) \/ of(row) = RecordFrames(row)
                 \/ of(row) = OwnFrames(row) \/ of(row) = PolicyFrames(row)
    OBVIOUS
  <1> HIDE DEF of
  <1>3. \A row : of(row) = << >> \/ \E f : of(row) = <<f>> /\ Framed(f)
    BY <1>2, FramesOfRows
  <1>4. Len(doc.rows) \in Nat /\ DOMAIN doc.rows = 1..Len(doc.rows)
    BY ImportAssumption
  <1> HIDE DEF doc
  <1> DEFINE n == Len(doc.rows)
  <1>5. DOMAIN parts = 1..n /\ parts = [i \in 1..n |-> parts[i]]
    BY <1>4
  <1>6. ASSUME NEW i \in 1..n
        PROVE  /\ parts[i] = << >> \/ \E e : parts[i] = <<e>>
               /\ \A k \in DOMAIN parts[i] : Framed(parts[i][k].frame)
    <2> DEFINE g == of(doc.rows[i])
    <2>1. parts[i] = [k \in DOMAIN g |-> [row |-> i, frame |-> g[k]]]
      BY <1>4
    <2>2. g = << >> \/ \E f : g = <<f>> /\ Framed(f)
      BY <1>3
    <2> HIDE DEF g, parts
    <2>3. CASE g = << >>
      BY <2>1, <2>3
    <2>4. ASSUME NEW f, g = <<f>>, Framed(f)
          PROVE  (\E e : parts[i] = <<e>>) /\ \A k \in DOMAIN parts[i] : Framed(parts[i][k].frame)
      <3>1. DOMAIN g = 1..1 /\ g[1] = f
        BY <2>4
      <3>2. parts[i] = << [row |-> i, frame |-> f] >>
        BY <2>1, <3>1
      <3> QED
        BY <2>4, <3>2
    <2> QED
      BY <2>2, <2>3, <2>4
  <1> HIDE DEF parts
  <1>7. \A i \in 1..n : parts[i] \in Seq(S)
    <2> TAKE i \in 1..n
    <2>1. \A k \in DOMAIN parts[i] : parts[i][k] \in S
      BY <1>5
    <2> HIDE DEF S
    <2>2. parts[i] = << >> \/ \E e : parts[i] = <<e>>
      BY <1>6
    <2>3. ASSUME NEW e, parts[i] = <<e>>
          PROVE  parts[i] \in Seq(S)
      <3>1. e \in S
        BY <2>1, <2>3
      <3>2. <<e>> \in Seq(S)
        BY <3>1
      <3> QED
        BY ONLY <2>3, <3>2
    <2>4. << >> \in Seq(S)
      OBVIOUS
    <2> QED
      BY <2>2, <2>3, <2>4
  <1>8. \A e \in S : Framed(e.frame)
    BY <1>5, <1>6
  <1> HIDE DEF S
  <1>9. parts \in Seq(Seq(S))
    BY <1>4, <1>5, <1>7, SeqDef
  <1>10. read \in Seq(S)
    BY <1>9, FlattenedIs
  <1> HIDE DEF read
  <1> QED
    BY <1>1, <1>8, <1>10

IsHigh(m) == \E k \in m.contradictions : k.severity = "high"

\* The stack finds two claims that disagree, and only such.
LEMMA VerifiedImported ==
    ASSUME NEW m, Imported(m)
    PROVE  LET n == VerifiedMemory(m)
           IN  /\ Imported(n) /\ n.claims = m.claims /\ n.goals = m.goals
               /\ IsHigh(n) <=> IsHigh(m) \/ Clash(Triples(m))
  <1> DEFINE s == m.contradictions \cup ConstraintContradictions(m) \cup DetectedContradictions(m)
             n == [claims |-> m.claims, schemas |-> m.schemas, transitive |-> m.transitive,
                   constraints |-> m.constraints, bindings |-> m.bindings, evidence |-> m.evidence,
                   goals |-> m.goals, contradictions |-> s]
  <1>1. VerifiedMemory(m) = [m EXCEPT !.contradictions = s]
    BY DEF VerifiedMemory
  <1>2. \A k \in ConstraintContradictions(m) : k.severity = "unsat"
    BY DEF ConstraintContradictions
  <1>3. (\E k \in DetectedContradictions(m) : k.severity = "high") <=> EqualityConflicts(m) # {}
    <2> DEFINE E == EqualityConflicts(m)
               of(p) == [elements |-> {<<"claim", p[1]>>, <<"claim", p[2]>>}, severity |-> "high"]
               H == {of(p) : p \in E}
               U == {[elements |-> {<<"constraint", p[1]>>, <<"constraint", p[2]>>}, severity |-> "unsat"] :
                        p \in BoundConflicts(m)}
    <2>1. DetectedContradictions(m) = H \cup U
      BY DEF DetectedContradictions
    <2>2. \A k \in U : k.severity # "high"
      OBVIOUS
    <2>3. \A p : of(p).severity = "high"
      OBVIOUS
    <2> HIDE DEF U, E, of
    <2> QED
      BY <2>1, <2>2, <2>3 DEF E
  <1>4. EqualityConflicts(m) # {} <=> Clash(Triples(m))
    <2>1. DOMAIN m.claims = 1..Len(m.claims) /\ Len(m.claims) \in Nat
      BY ListedLen DEF Imported
    <2>2. \A i \in DOMAIN m.claims : AcceptedClaim(m, i)
      BY DEF Imported, AcceptedClaim, Accepted
    <2>3. ASSUME NEW p \in EqualityConflicts(m)
          PROVE  Clash(Triples(m))
      <3>1. EqualityConflicts(m) \subseteq (DOMAIN m.claims) \X (DOMAIN m.claims)
        BY DEF EqualityConflicts
      <3>2. PICK i \in DOMAIN m.claims, j \in DOMAIN m.claims : p = <<i, j>>
        BY <2>3, <3>1
      <3>3. /\ m.claims[i].relation = "equals" /\ m.claims[j].relation = "equals"
            /\ m.claims[i].subject = m.claims[j].subject /\ m.claims[i].object # m.claims[j].object
        BY <2>3, <3>2 DEF EqualityConflicts
      <3>4. TripleOf(m.claims[i]) \in Triples(m) /\ TripleOf(m.claims[j]) \in Triples(m)
        BY DEF Triples
      <3> QED
        BY <3>3, <3>4 DEF Clash, TripleOf
    <2>4. ASSUME Clash(Triples(m))
          PROVE  EqualityConflicts(m) # {}
      <3>1. PICK a, b \in Triples(m) : a[2] = "equals" /\ b[2] = "equals" /\ a[1] = b[1] /\ a[3] # b[3]
        BY <2>4 DEF Clash
      <3>2. PICK i \in DOMAIN m.claims : a = TripleOf(m.claims[i])
        BY DEF Triples
      <3>3. PICK j \in DOMAIN m.claims : b = TripleOf(m.claims[j])
        BY DEF Triples
      <3>4. /\ m.claims[i].relation = "equals" /\ m.claims[j].relation = "equals"
            /\ m.claims[i].subject = m.claims[j].subject /\ m.claims[i].object # m.claims[j].object
        BY <3>1, <3>2, <3>3 DEF TripleOf
      <3>5. i < j \/ j < i
        BY <2>1, <3>4
      <3>6. <<i, j>> \in EqualityConflicts(m) \/ <<j, i>> \in EqualityConflicts(m)
        BY <2>2, <3>4, <3>5 DEF EqualityConflicts
      <3> QED
        BY <3>6
    <2> QED
      BY <2>3, <2>4
  <1>5. (\E k \in s : k.severity = "high") <=> IsHigh(m) \/ Clash(Triples(m))
    <2>1. \A k \in ConstraintContradictions(m) : k.severity # "high"
      BY <1>2
    <2> QED
      BY <1>3, <1>4, <2>1 DEF IsHigh
  <1> HIDE DEF s
  <1>6. [m EXCEPT !.contradictions = s] = n
    BY DEF Imported
  <1>7. Imported(n) /\ n.claims = m.claims /\ n.goals = m.goals /\ n.contradictions = s
    BY DEF Imported
  <1> QED
    BY <1>1, <1>5, <1>6, <1>7 DEF IsHigh

AllMake(read) == \A e \in ToSet(read) : Makes(e.frame)

StatedIn(read, m, element, row) ==
    \E e \in ToSet(read) :
        /\ e.row = row /\ e.frame.kind = element[1]
        /\ element[1] = "claim" =>
             element[2] \in DOMAIN m.claims /\ TripleOf(m.claims[element[2]]) = e.frame.triple

GoalRows(read) == {k \in DOMAIN read : read[k].frame.kind = "goal"}

\* What an import left of a memory m, having read so much.
TakesIn(m, result, read) ==
    /\ Imported(result.memory) /\ Keeps(m, result.memory)
    /\ Triples(result.memory) = Triples(m) \cup FramesOfKind(read, "claim")
    /\ IsFiniteSet(DOMAIN read)
    /\ Len(result.memory.goals) = Len(m.goals) + Cardinality(GoalRows(read))
    /\ (IsHigh(m) <=> Clash(Triples(m))) => (IsHigh(result.memory) <=> Clash(Triples(result.memory)))
    /\ read # << >> /\ Clash(Triples(result.memory)) =>
         result.status \in {"CONTRADICTORY", "PARTIAL", "VALIDATION_FAILED"}
    /\ AllMake(read) => \A p \in result.pairs : StatedIn(read, result.memory, p[1], p[2])

FramesRead(read) == [i \in DOMAIN read |-> read[i].frame]

ResultOf(made, refused, read) ==
    Result(ImportStatus(VerifiedMemory(made.memory), Len(made.ids), refused), Len(made.ids),
           VerifiedMemory(made.memory), {<<made.ids[i], read[i].row>> : i \in DOMAIN made.ids})

LEMMA NothingTaken ==
    ASSUME NEW m, Imported(m), NEW status
    PROVE  TakesIn(m, Result(status, 0, m, {}), << >>)
  <1>1. DOMAIN << >> = {} /\ FramesOfKind(<< >>, "claim") = {} /\ GoalRows(<< >>) = {}
    BY DEF FramesOfKind, GoalRows
  <1>2. IsFiniteSet({}) /\ Cardinality({}) = 0 /\ Len(m.goals) \in Nat
    BY FS_EmptySet, ListedLen DEF Imported
  <1>3. Result(status, 0, m, {}).memory = m /\ Result(status, 0, m, {}).pairs = {}
    BY DEF Result
  <1>4. Keeps(m, m)
    BY DEF Keeps
  <1> DEFINE result == Result(status, 0, m, {})
             read == << >>
  <1>5. result.memory = m /\ result.pairs = {}
    BY <1>3
  <1>6. DOMAIN read = {} /\ FramesOfKind(read, "claim") = {} /\ Cardinality(GoalRows(read)) = 0 /\ read = << >>
    BY <1>1, <1>2
  <1> HIDE DEF result, read
  <1>7. Len(result.memory.goals) = Len(m.goals) + Cardinality(GoalRows(read))
    BY <1>2, <1>5, <1>6
  <1>8. TakesIn(m, result, read)
    BY <1>2, <1>4, <1>5, <1>6, <1>7 DEF TakesIn
  <1> QED
    BY <1>8 DEF result, read

LEMMA ReadTaken ==
    ASSUME NEW m, Imported(m), NEW base, Imported(base), base.claims = m.claims, base.goals = m.goals,
           base.contradictions = m.contradictions,
           NEW read, Len(read) \in Nat, DOMAIN read = 1..Len(read), \A i \in DOMAIN read : Framed(read[i].frame),
           NEW refused, NEW made, made = Application(base, FramesRead(read))
    PROVE  TakesIn(m, ResultOf(made, refused, read), read)
  <1> DEFINE frames == [i \in DOMAIN read |-> read[i].frame]
             len == Len(read)
             x == VerifiedMemory(made.memory)
             pairs == {<<made.ids[i], read[i].row>> : i \in DOMAIN made.ids}
             status == ImportStatus(x, Len(made.ids), refused)
             result == Result(status, Len(made.ids), x, pairs)
  <1>1. len \in Nat /\ Len(frames) = len /\ DOMAIN frames = 1..len /\ \A i \in 1..len : frames[i] = read[i].frame
    OBVIOUS
  <1> HIDE DEF frames
  <1>2. After(made, base, frames, len)
    <2>1. \A i \in 1..Len(frames) : Framed(frames[i])
      BY <1>1
    <2> QED
      BY <1>1, <2>1, Applies DEF frames, FramesRead
  <1>3. /\ Imported(made.memory) /\ Keeps(base, made.memory) /\ made.memory.contradictions = base.contradictions
        /\ Triples(made.memory) = Triples(base) \cup {frames[i].triple : i \in KindIs(frames, len, "claim")}
        /\ Len(made.memory.goals) = Len(base.goals) + Cardinality(KindIs(frames, len, "goal"))
        /\ Listed(made.ids)
    BY <1>2 DEF After
  <1>4. /\ Imported(x) /\ x.claims = made.memory.claims /\ x.goals = made.memory.goals
        /\ IsHigh(x) <=> IsHigh(made.memory) \/ Clash(Triples(made.memory))
    BY <1>3, VerifiedImported
  <1>5. result.memory = x /\ result.pairs = pairs /\ result.status = status
    BY DEF Result
  <1> HIDE DEF result, status
  <1>6. Imported(result.memory)
    BY <1>4, <1>5
  <1>7. Keeps(m, result.memory)
    BY <1>3, <1>4, <1>5 DEF Keeps
  <1>8. KindIs(frames, len, "claim") = {i \in DOMAIN read : read[i].frame.kind = "claim"}
        /\ KindIs(frames, len, "goal") = GoalRows(read)
    BY <1>1 DEF KindIs, GoalRows
  <1>9. {frames[i].triple : i \in KindIs(frames, len, "claim")} = FramesOfKind(read, "claim")
    <2>1. FramesOfKind(read, "claim") = {read[i].frame.triple : i \in KindIs(frames, len, "claim")}
      BY <1>8 DEF FramesOfKind
    <2>2. \A i \in KindIs(frames, len, "claim") : frames[i] = read[i].frame
      BY <1>1 DEF KindIs
    <2> QED
      BY <2>1, <2>2
  <1>10. Triples(result.memory) = Triples(made.memory) /\ Triples(base) = Triples(m)
    BY <1>4, <1>5 DEF Triples
  <1>11. Triples(result.memory) = Triples(m) \cup FramesOfKind(read, "claim")
    BY <1>3, <1>9, <1>10
  <1>12. IsFiniteSet(DOMAIN read)
    <2>1. IsFiniteSet(1..Len(read))
      BY FS_Interval
    <2> QED
      BY <2>1
  <1>13. Len(result.memory.goals) = Len(m.goals) + Cardinality(GoalRows(read))
    BY <1>3, <1>4, <1>5, <1>8
  <1>14. (IsHigh(m) <=> Clash(Triples(m))) => (IsHigh(result.memory) <=> Clash(Triples(result.memory)))
    <2>1. IsHigh(made.memory) <=> IsHigh(m)
      BY <1>3 DEF IsHigh
    <2>2. Clash(Triples(m)) => Clash(Triples(result.memory))
      BY <1>11 DEF Clash
    <2> QED
      BY <1>4, <1>5, <1>10, <2>1, <2>2
  <1>15. Clash(Triples(result.memory)) => result.status \in {"CONTRADICTORY", "PARTIAL", "VALIDATION_FAILED"}
    <2> SUFFICES ASSUME Clash(Triples(result.memory))
                 PROVE  result.status \in {"CONTRADICTORY", "PARTIAL", "VALIDATION_FAILED"}
      OBVIOUS
    <2>1. IsHigh(x)
      BY <1>4, <1>10
    <2>2. x.contradictions # {}
      BY <2>1 DEF IsHigh
    <2> HIDE DEF x
    <2> QED
      BY <1>5, <2>2 DEF status, ImportStatus
  <1>16. ASSUME AllMake(read), NEW p \in result.pairs
         PROVE  StatedIn(read, result.memory, p[1], p[2])
    <2>1. \A i \in 1..len : Makes(frames[i])
      BY <1>1, <1>16 DEF AllMake, ToSet
    <2>2. /\ Len(made.ids) = len
          /\ \A i \in 1..len :
               /\ made.ids[i][1] = frames[i].kind
               /\ frames[i].kind = "claim" =>
                    made.ids[i][2] \in DOMAIN made.memory.claims
                    /\ TripleOf(made.memory.claims[made.ids[i][2]]) = frames[i].triple
      BY <1>2, <2>1 DEF After
    <2>3. PICK i \in DOMAIN made.ids : p = <<made.ids[i], read[i].row>>
      BY <1>5, <1>16
    <2>4. i \in 1..len
      BY <1>3, <2>2, ListedLen
    <2>5. read[i] \in ToSet(read) /\ frames[i] = read[i].frame
      BY <1>1, <2>4 DEF ToSet
    <2> HIDE DEF x, pairs
    <2> QED
      BY <1>4, <1>5, <2>2, <2>3, <2>4, <2>5 DEF StatedIn
  <1>17. TakesIn(m, result, read)
    <2> HIDE DEF x, pairs
    <2> QED
      BY <1>6, <1>7, <1>11, <1>12, <1>13, <1>14, <1>15, <1>16 DEF TakesIn
  <1> QED
    BY <1>17 DEF result, status, ResultOf

\* What ingest_file is done with it has read, all of it.
IsDone(doc, result) == result.status \notin {"UNSUPPORTED_FORMAT", "VALIDATION_FAILED"} /\ doc.type # "unreadable"

LEMMA IngestedTakesIn ==
    ASSUME NEW m, Imported(m), NEW file \in DOMAIN Documents, NEW template, NEW bundled \in BOOLEAN
    PROVE  LET doc == Documents[file]
               result == Ingested(doc, template, m, bundled)
           IN  TakesIn(m, result, IF IsDone(doc, result) THEN Extracted(doc, template) ELSE << >>)
  <1> DEFINE doc == Documents[file]
             read == Extracted(doc, template)
             valid == AllOrNone(read)
             base == IF bundled THEN WithBundle(m) ELSE m
             made == Application(base, [i \in DOMAIN valid |-> valid[i].frame])
             refused == \E i \in DOMAIN valid : Refused(valid[i].frame)
             result == Ingested(doc, template, m, bundled)
  <1>1. CASE ~IsLoaded(doc)
    <2>1. PICK status : result = Result(status, 0, m, {}) /\ (doc.type = "unsupported" => status = "UNSUPPORTED_FORMAT")
      BY <1>1 DEF Ingested
    <2>2. ~IsDone(doc, result)
      BY <1>1, <2>1 DEF IsDone, IsLoaded, Result
    <2> QED
      BY <2>1, <2>2, NothingTaken
  <1>2. CASE IsLoaded(doc) /\ valid = << >> /\ read # << >>
    <2>1. result = Result("VALIDATION_FAILED", 0, m, {})
      BY <1>2 DEF Ingested
    <2>2. ~IsDone(doc, result)
      BY <2>1 DEF IsDone, Result
    <2> QED
      BY <2>1, <2>2, NothingTaken
  <1>3. CASE IsLoaded(doc) /\ ~(valid = << >> /\ read # << >>)
    <2>1. result = Result(ImportStatus(VerifiedMemory(made.memory), Len(made.ids), refused), Len(made.ids),
                          VerifiedMemory(made.memory), {<<made.ids[i], valid[i].row>> : i \in DOMAIN made.ids})
      BY <1>3 DEF Ingested
    <2>2. valid = read
      BY <1>3 DEF AllOrNone
    <2>3. Len(read) \in Nat /\ DOMAIN read = 1..Len(read) /\ \A i \in DOMAIN read : Framed(read[i].frame)
      BY ExtractedFramed
    <2>4. Imported(base) /\ base.claims = m.claims /\ base.goals = m.goals /\ base.contradictions = m.contradictions
      BY BundleImported
    <2>5. made = Application(base, FramesRead(read))
      BY <2>2 DEF FramesRead
    <2>6. result.status = ImportStatus(VerifiedMemory(made.memory), Len(made.ids), refused)
      BY <2>1 DEF Result
    <2>9. result = ResultOf(made, refused, read)
      BY <2>1, <2>2 DEF ResultOf
    <2> HIDE DEF made, base, valid, read, refused, result
    <2>7. TakesIn(m, result, read)
      BY <2>3, <2>4, <2>5, <2>9, ReadTaken
    <2>8. IsDone(doc, result)
      <3>1. result.status \in {"CONTRADICTORY", "PARTIAL", "REJECTED", "IMPORTED"}
        BY <2>6 DEF ImportStatus
      <3>2. doc.type # "unreadable"
        BY <1>3 DEF IsLoaded
      <3> QED
        BY <3>1, <3>2 DEF IsDone
    <2> QED
      BY <2>7, <2>8 DEF read, result
  <1> QED
    BY <1>1, <1>2, <1>3

-----------------------------------------------------------------------------
(* The inductive invariant: ImportsAreWhole of a list of imports, with     *)
(* what it takes of the memory and the evidence for it to go on.           *)

Taken(list) == {i \in DOMAIN list : ~list[i].dry}

ToldBy(list) == UNION {FramesOfKind(list[i].read, "claim") : i \in Taken(list)}

GoalsBy(list) == UNION {{<<i, k>> : k \in GoalRows(list[i].read)} : i \in Taken(list)}

PlainIn(list, file) == \A i \in Taken(list) : list[i].file = file => AllMake(list[i].read)

StatedBy(list, m, e) ==
    \E i \in Taken(list) : list[i].file = e[2] /\ StatedIn(list[i].read, m, e[1], e[3])

Honest(entry, told) ==
    Clash(told \cup FramesOfKind(entry.read, "claim")) /\ entry.read # << >> =>
        entry.status \in {"CONTRADICTORY", "PARTIAL", "VALIDATION_FAILED"}

ImportInv ==
    /\ Listed(imports) /\ Imported(kept)
    /\ Triples(kept) = ToldBy(imports)
    /\ IsFiniteSet(GoalsBy(imports)) /\ Len(kept.goals) = Cardinality(GoalsBy(imports))
    /\ shelf.saved # NoMemory => Triples(shelf.saved) \subseteq ToldBy(imports)
    /\ IsHigh(kept) <=> Clash(ToldBy(imports))
    /\ imports # << >> => Honest(imports[Len(imports)], ToldBy(imports))
    /\ \A e \in evidence : PlainIn(imports, e[2]) => StatedBy(imports, kept, e)

\* One more import on the list.
LEMMA OneMoreImport ==
    ASSUME NEW list, Listed(list), NEW entry
    PROVE  LET more == Append(list, entry)
               n == Len(list) + 1
           IN  /\ Listed(more) /\ Len(more) = n /\ more[n] = entry /\ more # << >>
               /\ Taken(more) = Taken(list) \cup (IF entry.dry THEN {} ELSE {n})
               /\ n \notin Taken(list) /\ \A i \in Taken(list) : more[i] = list[i]
  <1> DEFINE more == Append(list, entry)
             n == Len(list) + 1
  <1>1. /\ Len(list) \in Nat /\ DOMAIN list = 1..Len(list)
        /\ Len(more) = n /\ DOMAIN more = 1..n
        /\ \A i \in 1..Len(list) : more[i] = list[i]
        /\ more[n] = entry
        /\ Listed(more)
    BY AppendedIs
  <1>2. DOMAIN more = DOMAIN list \cup {n} /\ n \notin DOMAIN list
    BY <1>1
  <1>3. more # << >>
    BY <1>1, <1>2
  <1> HIDE DEF more, n
  <1>4. Taken(more) = Taken(list) \cup (IF entry.dry THEN {} ELSE {n})
    BY <1>1, <1>2 DEF Taken
  <1>5. n \notin Taken(list) /\ \A i \in Taken(list) : more[i] = list[i]
    BY <1>1, <1>2 DEF Taken
  <1> QED
    BY <1>1, <1>3, <1>4, <1>5 DEF more, n

LEMMA OneMoreTold ==
    ASSUME NEW list, Listed(list), NEW entry
    PROVE  LET more == Append(list, entry)
           IN  /\ ToldBy(more) = ToldBy(list) \cup (IF entry.dry THEN {} ELSE FramesOfKind(entry.read, "claim"))
               /\ GoalsBy(more) = GoalsBy(list)
                                  \cup (IF entry.dry THEN {} ELSE {<<Len(list) + 1, k>> : k \in GoalRows(entry.read)})
               /\ \A k : <<Len(list) + 1, k>> \notin GoalsBy(list)
  <1> DEFINE more == Append(list, entry)
             n == Len(list) + 1
             T == Taken(list)
             U == Taken(more)
  <1>1. /\ U = T \cup (IF entry.dry THEN {} ELSE {n})
        /\ n \notin T /\ (\A i \in T : more[i] = list[i]) /\ more[n] = entry
    BY OneMoreImport
  <1>2. ToldBy(more) = UNION {FramesOfKind(more[i].read, "claim") : i \in U}
        /\ ToldBy(list) = UNION {FramesOfKind(list[i].read, "claim") : i \in T}
    BY DEF ToldBy
  <1>3. GoalsBy(more) = UNION {{<<i, k>> : k \in GoalRows(more[i].read)} : i \in U}
        /\ GoalsBy(list) = UNION {{<<i, k>> : k \in GoalRows(list[i].read)} : i \in T}
    BY DEF GoalsBy
  <1> DEFINE G(l, i) == {<<i, k>> : k \in GoalRows(l[i].read)}
             F(l, i) == FramesOfKind(l[i].read, "claim")
  <1>4. G(more, n) = {<<n, k>> : k \in GoalRows(entry.read)} /\ F(more, n) = FramesOfKind(entry.read, "claim")
        /\ (\A i \in T : G(more, i) = G(list, i) /\ F(more, i) = F(list, i))
    BY <1>1
  <1>5. GoalsBy(more) = UNION {G(more, i) : i \in U} /\ GoalsBy(list) = UNION {G(list, i) : i \in T}
        /\ ToldBy(more) = UNION {F(more, i) : i \in U} /\ ToldBy(list) = UNION {F(list, i) : i \in T}
    BY <1>2, <1>3
  <1>6. \A k : <<n, k>> \notin GoalsBy(list)
    BY <1>1, <1>3
  <1> HIDE DEF more, n, T, U, G, F
  <1>7. GoalsBy(more) = GoalsBy(list) \cup (IF entry.dry THEN {} ELSE G(more, n))
    BY <1>1, <1>4, <1>5
  <1>8. ToldBy(more) = ToldBy(list) \cup (IF entry.dry THEN {} ELSE F(more, n))
    BY <1>1, <1>4, <1>5
  <1> QED
    BY <1>4, <1>6, <1>7, <1>8 DEF more, n

LEMMA ImportInvInit == ImportInit => ImportInv
  <1> SUFFICES ASSUME ImportInit PROVE ImportInv
    OBVIOUS
  <1>1. kept = EmptyMemory /\ evidence = {} /\ imports = << >> /\ shelf.saved = NoMemory
    BY DEF ImportInit
  <1>2. Taken(<< >>) = {}
    BY DEF Taken
  <1>3. ToldBy(<< >>) = {} /\ GoalsBy(<< >>) = {}
    BY <1>2 DEF ToldBy, GoalsBy
  <1>4. IsFiniteSet({}) /\ Cardinality({}) = 0
    BY FS_EmptySet
  <1>5. ~Clash({})
    BY DEF Clash
  <1>6. ~IsHigh(kept)
    BY <1>1, EmptyImported DEF IsHigh
  <1> QED
    BY <1>1, <1>3, <1>4, <1>5, <1>6, EmptyListed, EmptyImported DEF ImportInv

LEMMA ImportKeeps ==
    ASSUME ImportInv, NEW file \in DOMAIN Documents, NEW name, NEW auto \in BOOLEAN, NEW bundled \in BOOLEAN,
           NEW dry \in BOOLEAN, Import(file, name, auto, bundled, dry)
    PROVE  ImportInv'
  <1> DEFINE doc == Documents[file]
             template == Resolved(doc, name, auto, bundled)
             result == Ingested(doc, template, kept, bundled)
             left == IF dry THEN kept ELSE result.memory
             done == IsDone(doc, result)
             read == IF done THEN Extracted(doc, template) ELSE << >>
             entry == [file |-> file, status |-> result.status, created |-> result.created, dry |-> dry, read |-> read]
             claims == FramesOfKind(read, "claim")
             told == ToldBy(imports)
  <1>1. /\ Listed(imports) /\ Imported(kept)
        /\ Triples(kept) = told
        /\ IsFiniteSet(GoalsBy(imports)) /\ Len(kept.goals) = Cardinality(GoalsBy(imports))
        /\ shelf.saved # NoMemory => Triples(shelf.saved) \subseteq told
        /\ IsHigh(kept) <=> Clash(told)
        /\ \A e \in evidence : PlainIn(imports, e[2]) => StatedBy(imports, kept, e)
    BY DEF ImportInv
  <1>2. TakesIn(kept, result, read)
    BY <1>1, IngestedTakesIn
  <1>3. /\ kept' = left
        /\ evidence' = IF dry THEN evidence ELSE evidence \cup {<<p[1], file, p[2]>> : p \in result.pairs}
        /\ imports' = Append(imports, entry)
        /\ shelf'.saved = left \/ shelf'.saved = shelf.saved
    BY DEF Import, IsDone
  <1>4. entry.file = file /\ entry.status = result.status /\ entry.dry = dry /\ entry.read = read
    OBVIOUS
  <1> HIDE DEF result, done, read, entry, template, doc
  <1> DEFINE n == Len(imports) + 1
  <1>5. /\ Listed(imports') /\ Len(imports') = n /\ imports'[n] = entry /\ imports' # << >>
        /\ Taken(imports') = Taken(imports) \cup (IF dry THEN {} ELSE {n})
        /\ n \notin Taken(imports) /\ \A i \in Taken(imports) : imports'[i] = imports[i]
    <2> DEFINE more == Append(imports, entry)
    <2>1. /\ Listed(more) /\ Len(more) = n /\ more[n] = entry /\ more # << >>
          /\ Taken(more) = Taken(imports) \cup (IF entry.dry THEN {} ELSE {n})
          /\ n \notin Taken(imports) /\ \A i \in Taken(imports) : more[i] = imports[i]
      BY <1>1, OneMoreImport
    <2>2. more = imports'
      BY <1>3
    <2> HIDE DEF more, n
    <2> QED
      BY <1>4, <2>1, <2>2
  <1>6. /\ ToldBy(imports') = told \cup (IF dry THEN {} ELSE claims)
        /\ GoalsBy(imports') = GoalsBy(imports) \cup (IF dry THEN {} ELSE {<<n, k>> : k \in GoalRows(read)})
        /\ \A k : <<n, k>> \notin GoalsBy(imports)
    BY <1>1, <1>3, <1>4, OneMoreTold
  <1>7. /\ Imported(result.memory) /\ Keeps(kept, result.memory)
        /\ Triples(result.memory) = told \cup claims
        /\ IsFiniteSet(DOMAIN read)
        /\ Len(result.memory.goals) = Len(kept.goals) + Cardinality(GoalRows(read))
        /\ IsHigh(result.memory) <=> Clash(told \cup claims)
        /\ read # << >> /\ Clash(told \cup claims) =>
             result.status \in {"CONTRADICTORY", "PARTIAL", "VALIDATION_FAILED"}
        /\ AllMake(read) => \A p \in result.pairs : StatedIn(read, result.memory, p[1], p[2])
    BY <1>1, <1>2 DEF TakesIn
  <1> HIDE DEF told, claims, n
  <1>8. Imported(kept') /\ Triples(kept') = ToldBy(imports') /\ (IsHigh(kept') <=> Clash(ToldBy(imports')))
    BY <1>1, <1>3, <1>6, <1>7
  <1>9. Keeps(kept, kept')
    BY <1>3, <1>7 DEF Keeps
  <1>10. IsFiniteSet(GoalsBy(imports')) /\ Len(kept'.goals) = Cardinality(GoalsBy(imports'))
    <2>1. CASE dry
      BY <1>1, <1>3, <1>6, <2>1
    <2>2. CASE ~dry
      <3> DEFINE G == GoalsBy(imports)
                 R == GoalRows(read)
                 T == {<<n, k>> : k \in R}
      <3>1. R \in SUBSET DOMAIN read
        BY DEF GoalRows
      <3> HIDE DEF R
      <3>2. IsFiniteSet(R)
        BY <1>7, <3>1, FS_Subset
      <3>3. IsFiniteSet(T) /\ Cardinality(T) = Cardinality(R)
        BY <3>2, TaggedCount
      <3>4. G \cap T = {}
        BY <1>6
      <3>5. GoalsBy(imports') = G \cup T /\ kept' = result.memory /\ Len(kept.goals) = Cardinality(G) /\ IsFiniteSet(G)
        BY <1>1, <1>3, <1>6, <2>2 DEF R
      <3>6. Len(result.memory.goals) = Len(kept.goals) + Cardinality(R)
        BY <1>7 DEF R
      <3> HIDE DEF G, T
      <3>7. IsFiniteSet(G \cup T) /\ Cardinality(G \cup T) = Cardinality(G) + Cardinality(T) - Cardinality(G \cap T)
        BY <3>3, <3>5, FS_Union
      <3>8. Cardinality(G \cap T) = 0 /\ Cardinality(G) \in Nat /\ Cardinality(T) \in Nat
        BY <3>3, <3>4, <3>5, FS_EmptySet, FS_CardinalityType
      <3> QED
        BY <3>3, <3>5, <3>6, <3>7, <3>8
    <2> QED
      BY <2>1, <2>2
  <1>11. shelf'.saved # NoMemory => Triples(shelf'.saved) \subseteq ToldBy(imports')
    <2>1. told \subseteq ToldBy(imports')
      BY <1>6
    <2>2. CASE shelf'.saved = left
      <3>1. shelf'.saved = kept'
        BY <1>3, <2>2
      <3> QED
        BY <1>8, <3>1
    <2>3. CASE shelf'.saved = shelf.saved
      BY <1>1, <2>1, <2>3
    <2> QED
      BY <1>3, <2>2, <2>3
  <1>12. Honest(imports'[Len(imports')], ToldBy(imports'))
    <2>1. imports'[Len(imports')] = entry
      BY <1>5
    <2>2. ToldBy(imports') \cup claims = told \cup claims
      BY <1>6
    <2>3. Honest(entry, ToldBy(imports'))
      BY <1>4, <1>7, <2>2 DEF Honest, claims
    <2> QED
      BY <2>1, <2>3
  <1>13. ASSUME NEW e \in evidence', PlainIn(imports', e[2])
         PROVE  StatedBy(imports', kept', e)
    <2>1. CASE e \in evidence
      <3>1. PlainIn(imports, e[2])
        BY <1>5, <1>13 DEF PlainIn
      <3>2. StatedBy(imports, kept, e)
        BY <1>1, <2>1, <3>1
      <3>3. PICK i \in Taken(imports) : imports[i].file = e[2] /\ StatedIn(imports[i].read, kept, e[1], e[3])
        BY <3>2 DEF StatedBy
      <3>4. StatedIn(imports[i].read, kept', e[1], e[3])
        BY <1>9, <3>3 DEF StatedIn, Keeps
      <3>5. i \in Taken(imports') /\ imports'[i] = imports[i]
        BY <1>5
      <3> QED
        BY <3>3, <3>4, <3>5 DEF StatedBy
    <2>2. CASE e \notin evidence
      <3>1. ~dry /\ \E p \in result.pairs : e = <<p[1], file, p[2]>>
        BY <1>3, <1>13, <2>2
      <3>2. PICK p \in result.pairs : e[1] = p[1] /\ e[2] = file /\ e[3] = p[2]
        BY <3>1
      <3>3. n \in Taken(imports') /\ imports'[n].file = file /\ imports'[n].read = read
        BY <1>4, <1>5, <3>1
      <3>4. AllMake(read)
        BY <1>13, <3>2, <3>3 DEF PlainIn
      <3>5. StatedIn(read, kept', e[1], e[3])
        BY <1>3, <1>7, <3>1, <3>2, <3>4
      <3> QED
        BY <3>2, <3>3, <3>5 DEF StatedBy
    <2> QED
      BY <2>1, <2>2
  <1> QED
    BY <1>5, <1>8, <1>10, <1>11, <1>12, <1>13 DEF ImportInv

LEMMA ImportInvStep == ImportInv /\ [ImportNext]_importVars => ImportInv'
  <1> SUFFICES ASSUME ImportInv, [ImportNext]_importVars PROVE ImportInv'
    OBVIOUS
  <1>1. CASE ImportNext
    BY <1>1, ImportKeeps DEF ImportNext
  <1>2. CASE UNCHANGED importVars
    BY <1>2 DEF ImportInv, importVars
  <1> QED
    BY <1>1, <1>2

LEMMA ImportInvImplies == ImportInv => ImportsAreWhole
  <1> SUFFICES ASSUME ImportInv PROVE ImportsAreWhole
    OBVIOUS
  <1> DEFINE taken == {i \in DOMAIN imports : ~imports[i].dry}
             told == UNION {FramesOfKind(imports[i].read, "claim") : i \in taken}
             last == imports[Len(imports)]
             goals == UNION {{<<i, k>> : k \in {k \in DOMAIN imports[i].read : imports[i].read[k].frame.kind = "goal"}} : i \in taken}
             plain(file) == \A i \in taken : imports[i].file = file => \A e \in ToSet(imports[i].read) : Makes(e.frame)
             stated(element, file, row) ==
                 \E i \in taken : imports[i].file = file /\ \E e \in ToSet(imports[i].read) :
                     /\ e.row = row /\ e.frame.kind = element[1]
                     /\ element[1] = "claim" => TripleOf(kept.claims[element[2]]) = e.frame.triple
  <1>1. taken = Taken(imports) /\ told = ToldBy(imports) /\ goals = GoalsBy(imports)
    BY DEF Taken, ToldBy, GoalsBy, GoalRows
  <1>2. \A file : plain(file) => PlainIn(imports, file)
    BY DEF PlainIn, AllMake, Taken
  <1>3. \A e : StatedBy(imports, kept, e) => stated(e[1], e[2], e[3])
    BY DEF StatedBy, StatedIn, Taken
  <1> HIDE DEF taken, told, goals, plain, stated
  <1>4. Triples(kept) = told /\ Len(kept.goals) = Cardinality(goals)
    BY <1>1 DEF ImportInv
  <1>5. shelf.saved # NoMemory => Triples(shelf.saved) \subseteq told
    BY <1>1 DEF ImportInv
  <1>6. (\E k \in kept.contradictions : k.severity = "high") <=> Clash(told)
    BY <1>1 DEF ImportInv, IsHigh
  <1>7. imports # << >> /\ Clash(told \cup FramesOfKind(last.read, "claim")) /\ last.read # << >> =>
             last.status \in {"CONTRADICTORY", "PARTIAL", "VALIDATION_FAILED"}
    BY <1>1 DEF ImportInv, Honest
  <1>8. \A e \in evidence : plain(e[2]) => stated(e[1], e[2], e[3])
    BY <1>2, <1>3 DEF ImportInv
  <1> QED
    BY <1>4, <1>5, <1>6, <1>7, <1>8 DEF ImportsAreWhole, taken, told, goals, plain, stated

\* After any imports, of any documents in any order, a memory holds what they
\* read, all of it and nothing else (ingest_file).
THEOREM ImportsHold == ImportSpec => []ImportsAreWhole
  <1>1. ImportSpec => []ImportInv
    BY ImportInvInit, ImportInvStep, PTL DEF ImportSpec
  <1> QED
    BY <1>1, ImportInvImplies, PTL
================================================================================
