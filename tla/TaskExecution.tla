--------------------------- MODULE TaskExecution ----------------------------
(***************************************************************************)
(* The agent's task executor (agent/executor.py, agent/state.py) under the *)
(* two commands that persist its work, "agent run" and "agent resume"      *)
(* (cli.py), and the file they share (workspace/store.py).                 *)
(*                                                                         *)
(* A command is a process.  run saves the untouched plan, executes it and  *)
(* saves the outcome; resume loads the saved plan and state, executes what *)
(* remains and saves the outcome.  A save opens (and truncates) the task's *)
(* one temporary file, writes it and renames it over the task's file; a    *)
(* process can die between any two steps.                                  *)
(*                                                                         *)
(* A file name is bound to an inode, 0 when it does not exist: a process   *)
(* that holds a temporary file open still writes to it after another has   *)
(* renamed it.  A step is its position in the plan it was made in: run     *)
(* draws fresh step ids, but plan and state are always saved together.  So *)
(* a plan is the status of every step it still has, in the order of their  *)
(* numbers, which is the order they are executed and saved in.             *)
(***************************************************************************)
EXTENDS Naturals, Sequences, FiniteSets, SequencesExt

CONSTANTS
    Commands,     \* processes that may work on the task
    N,            \* steps of its plan
    InvalidSets,  \* which steps validate_step may reject
    MaxStarts,    \* bound on the commands ever started
    Absent,       \* no saved record (TaskRecord)
    Empty, Torn   \* contents of a file that are no record

Ids == 1..N

StepStatuses == {"PENDING", "COMPLETED", "FAILED"}

TaskStatuses == {"RUNNING", "COMPLETED", "FAILED"}

Plans == UNION {[some -> StepStatuses] : some \in SUBSET Ids}

\* ExecutionState: current_step always equals the number of completed steps,
\* and results has one entry per completed step.
States == [completed : Seq(Ids), status : TaskStatuses]

Records == [plan : Plans, state : States]

ASSUME NAssumption == N \in Nat /\ MaxStarts \in Nat

ASSUME FilesAssumption ==
    /\ Empty \notin Records /\ Torn \notin Records
    /\ Absent \notin [step : [Ids -> StepStatuses \cup {"DROPPED"}], status : TaskStatuses]

VARIABLES
    alone,     \* whether commands come one at a time
    invalid,   \* the steps of this plan that validate_step rejects
    content,   \* of every inode: Empty, Torn or a saved record
    tmp,       \* inode of <task_id>.tmp
    path,      \* inode of <task_id>.json
    job,       \* what each process is doing
    starts,    \* commands started so far
    ran        \* history: how often the tool of each step has succeeded

vars == <<alone, invalid, content, tmp, path, job, starts, ran>>

Inodes == 1..(Cardinality(Commands) + 2)

State(completed, status) == [completed |-> completed, status |-> status]

FreshState == State(<< >>, "RUNNING")

FreshPlan == [i \in Ids |-> "PENDING"]

NoSteps == [i \in {} |-> "PENDING"]

Record(plan, state) == [plan |-> plan, state |-> state]

Idle == [op |-> "none", stage |-> "idle", plan |-> NoSteps, state |-> FreshState,
         before |-> {}, todo |-> {}, updated |-> NoSteps, handle |-> 0]

IsRecord(c) == c \notin {Empty, Torn}

Readable == path # 0 => IsRecord(content[path])

Saved == content[path]

-----------------------------------------------------------------------------
\* StateManager.update.  A failed step is appended to completed_steps too.
Update(state, i, status) ==
    LET completed == Append(state.completed, i)
        results   == ToSet(state.completed)
    IN  State(completed,
              IF status = "FAILED" THEN "FAILED"
              ELSE IF Len(completed) = Cardinality(results) + 1 THEN "RUNNING"
              ELSE state.status)

HasFailed(steps) == \E i \in DOMAIN steps : steps[i] = "FAILED"

\* updated_steps.append(step)
With(steps, i, status) == [k \in DOMAIN steps \cup {i} |-> IF k = i THEN status ELSE steps[k]]

\* Mutant: resume starts the plan over.
RemainingAll(plan, state) == DOMAIN plan

\* resume_task: the steps whose id is not among the completed ones.
Remaining(plan, state) == DOMAIN plan \ ToSet(state.completed)

\* execute_plan: the plan keeps only the steps that were reached.
PlanOfRun(j) == j.updated

StatusOfRun(j) ==
    IF j.state.completed = << >> THEN j.state.status
    ELSE IF HasFailed(j.updated) THEN "FAILED" ELSE "COMPLETED"

\* resume_task: the steps completed before, then the ones reached now.
PlanOfResume(j) ==
    [i \in (DOMAIN j.plan \cap j.before) \cup DOMAIN j.updated |->
        IF i \in DOMAIN j.updated THEN j.updated[i] ELSE j.plan[i]]

\* Mutant: failures are not looked at.
StatusOfResumeBlind(j) ==
    IF j.updated # NoSteps THEN "COMPLETED" ELSE j.state.status

StatusOfResume(j) ==
    IF HasFailed(j.updated) THEN "FAILED"
    ELSE IF j.updated # NoSteps THEN "COMPLETED" ELSE j.state.status

-----------------------------------------------------------------------------
Start(n) ==
    /\ content = [i \in Inodes |-> Empty]
    /\ tmp = 0
    /\ path = 0
    /\ job = [p \in Commands |-> Idle]
    /\ starts = n
    /\ ran = [i \in Ids |-> 0]

Init == alone \in BOOLEAN /\ invalid \in InvalidSets /\ Start(0)

Begin(p) ==
    /\ job[p].stage = "idle"
    /\ alone => \A q \in Commands : job[q].stage = "idle"
    /\ starts < MaxStarts
    /\ starts' = starts + 1

\* agent run: plan_task, then save the untouched plan and an empty state.
StartRun(p) ==
    /\ Begin(p)
    /\ job' = [job EXCEPT ![p] = [Idle EXCEPT !.op = "submit", !.stage = "open",
                                              !.plan = FreshPlan]]
    /\ UNCHANGED <<alone, invalid, content, tmp, path, ran>>

\* agent resume: load_task, then resume_task, which returns the plan and the
\* state as they are when nothing remains.  A file that is missing or does
\* not parse ends the command with an error and changes nothing.
StartResume(p) ==
    /\ Begin(p)
    /\ path # 0
    /\ IsRecord(Saved)
    /\ LET todo == Remaining(Saved.plan, Saved.state) IN
         job' = [job EXCEPT ![p] = [Idle EXCEPT !.op = "resume",
                    !.stage = IF todo = {} THEN "open" ELSE "execute",
                    !.plan = Saved.plan, !.state = Saved.state,
                    !.before = ToSet(Saved.state.completed), !.todo = todo]]
    /\ UNCHANGED <<alone, invalid, content, tmp, path, ran>>

\* The step the loop comes to next.
AtStep(p, i) ==
    /\ job[p].stage = "execute"
    /\ i \in job[p].todo
    /\ \A k \in job[p].todo : i <= k

\* execute_step, the tool returned.
CompleteStep(p, i) ==
    /\ AtStep(p, i)
    /\ i \notin invalid
    /\ job' = [job EXCEPT ![p].todo = @ \ {i},
                          ![p].updated = With(@, i, "COMPLETED"),
                          ![p].state = Update(@, i, "COMPLETED")]
    /\ ran' = [ran EXCEPT ![i] = @ + 1]
    /\ UNCHANGED <<alone, invalid, content, tmp, path, starts>>

\* execute_step, the tool raised: the loop stops.
FailStep(p, i) ==
    /\ AtStep(p, i)
    /\ i \notin invalid
    /\ job' = [job EXCEPT ![p].todo = {},
                          ![p].updated = With(@, i, "FAILED"),
                          ![p].state = Update(@, i, "FAILED")]
    /\ UNCHANGED <<alone, invalid, content, tmp, path, starts, ran>>

\* Mutant: the rejected step is recorded like a failed one, but stays pending.
RejectStepRecorded(p, i) ==
    /\ AtStep(p, i)
    /\ i \in invalid
    /\ job' = [job EXCEPT ![p].todo = {},
                          ![p].updated = With(@, i, job[p].plan[i]),
                          ![p].state.completed = Append(@, i)]
    /\ UNCHANGED <<alone, invalid, content, tmp, path, starts, ran>>

\* execute_step raised ExecutionError: what it computed is lost, the caller
\* appends the step as it was and stops.
RejectStep(p, i) ==
    /\ AtStep(p, i)
    /\ i \in invalid
    /\ job' = [job EXCEPT ![p].todo = {},
                          ![p].updated = With(@, i, job[p].plan[i])]
    /\ UNCHANGED <<alone, invalid, content, tmp, path, starts, ran>>

\* The end of execute_plan or resume_task: the final plan and state.
Conclude(p) ==
    LET j == job[p] IN
    /\ j.stage = "execute" /\ j.todo = {}
    /\ job' = [job EXCEPT ![p] =
         IF j.op = "run"
         THEN [j EXCEPT !.stage = "open", !.plan = PlanOfRun(j),
                        !.state = State(j.state.completed, StatusOfRun(j))]
         ELSE [j EXCEPT !.stage = "open", !.plan = PlanOfResume(j),
                        !.state = State(j.state.completed, StatusOfResume(j))]]
    /\ UNCHANGED <<alone, invalid, content, tmp, path, starts, ran>>

-----------------------------------------------------------------------------
\* _write_json, one system call at a time.
InUse == {tmp, path} \cup {job[p].handle : p \in Commands}

\* Mutant: the task's file is overwritten in place.
OpenInPlace(p) ==
    /\ job[p].stage = "open"
    /\ \E n \in IF path = 0 THEN Inodes \ InUse ELSE {path} :
         /\ tmp' = n
         /\ content' = [content EXCEPT ![n] = Empty]
         /\ job' = [job EXCEPT ![p].stage = "write", ![p].handle = n]
    /\ UNCHANGED <<alone, invalid, path, starts, ran>>

\* open(tmp, "w"): create the temporary file, or truncate the one there is.
OpenTemporary(p) ==
    /\ job[p].stage = "open"
    /\ \E n \in IF tmp = 0 THEN Inodes \ InUse ELSE {tmp} :
         /\ tmp = 0 => \A m \in Inodes \ InUse : n <= m
         /\ tmp' = n
         /\ content' = [content EXCEPT ![n] = Empty]
         /\ job' = [job EXCEPT ![p].stage = "write", ![p].handle = n]
    /\ UNCHANGED <<alone, invalid, path, starts, ran>>

\* Writing over what another process wrote leaves either text or a mixture.
WriteTemporary(p) ==
    LET j == job[p]  data == Record(j.plan, j.state) IN
    /\ j.stage = "write"
    /\ \E c \in {data} \cup (IF content[j.handle] \in {Empty, data} THEN {} ELSE {Torn}) :
         content' = [content EXCEPT ![j.handle] = c]
    /\ job' = [job EXCEPT ![p].stage = "rename", ![p].handle = 0]
    /\ UNCHANGED <<alone, invalid, tmp, path, starts, ran>>

\* tmp.rename(path).  After its first save, run executes the plan; after the
\* last save of either command the process ends.
Rename(p) ==
    LET j == job[p] IN
    /\ j.stage = "rename" /\ tmp # 0
    /\ path' = tmp
    /\ tmp' = 0
    /\ job' = [job EXCEPT ![p] =
         IF j.op = "submit" THEN [j EXCEPT !.op = "run", !.stage = "execute", !.todo = DOMAIN j.plan]
         ELSE Idle]
    /\ UNCHANGED <<alone, invalid, content, starts, ran>>

\* Another process has renamed the temporary file away: FileNotFoundError.
RenameFails(p) ==
    /\ job[p].stage = "rename" /\ tmp = 0
    /\ job' = [job EXCEPT ![p] = Idle]
    /\ UNCHANGED <<alone, invalid, content, tmp, path, starts, ran>>

\* The process dies; what it held in memory is gone, the files stay.
Crash(p) ==
    /\ job[p].stage # "idle"
    /\ job' = [job EXCEPT ![p] = Idle]
    /\ UNCHANGED <<alone, invalid, content, tmp, path, starts, ran>>

Next ==
    \E p \in Commands :
        \/ StartRun(p) \/ StartResume(p)
        \/ \E i \in Ids : CompleteStep(p, i) \/ FailStep(p, i) \/ RejectStep(p, i)
        \/ Conclude(p)
        \/ OpenTemporary(p) \/ WriteTemporary(p) \/ Rename(p) \/ RenameFails(p)
        \/ Crash(p)

Spec == Init /\ [][Next]_vars

-----------------------------------------------------------------------------
\* What the file says, when it says anything.
SavedRecord == path # 0 /\ IsRecord(Saved)

\* Its step i; what a stop has cut off is not in the plan any more.
StepStatus(r, i) == IF i \in DOMAIN r.plan THEN r.plan[i] ELSE "DROPPED"

\* The saved verdict of a task (execute_plan, resume_task) is the one its
\* steps give: FAILED exactly when a step failed, and COMPLETED only when
\* every step up to the first one the validator rejects has completed.  Two
\* commands at once may tear the file or lose each other's work, but a text
\* that parses is what one of them concluded from one plan and one state:
\* nothing but a failed or a rejected step drops the rest of the plan, and
\* what was dropped is never mistaken for finished.
VerdictMatchesSteps ==
    SavedRecord =>
        LET st(i) == StepStatus(Saved, i) IN
        /\ Saved.state.status = "FAILED" <=> \E i \in Ids : st(i) = "FAILED"
        /\ Saved.state.status = "COMPLETED" =>
             \A i \in Ids : st(i) = "COMPLETED" \/ \E j \in invalid : j <= i
        /\ \A i \in Ids : st(i) = "DROPPED" =>
             \E j \in Ids : j < i /\ (st(j) = "FAILED" \/ j \in invalid)

\* A step saved as completed or recorded in completed_steps was really
\* reached: the tool of every COMPLETED step has succeeded, and a completed
\* id whose tool never succeeded belongs to a FAILED step (StateManager.update).
SavedWorkWasDone ==
    SavedRecord =>
        \A i \in Ids :
            /\ StepStatus(Saved, i) = "COMPLETED" => ran[i] > 0
            /\ i \in ToSet(Saved.state.completed) =>
                 StepStatus(Saved, i) \in {"COMPLETED", "FAILED"}

\* What is saved of a task is so: its verdict, and the work it records.
SavedTaskHolds == VerdictMatchesSteps /\ SavedWorkWasDone

\* resume_task skips completed steps: while one command works on the task,
\* resume never runs a tool again for a step the file records as completed.
NoRepeatedWork ==
    [][\A p \in Commands, i \in Ids :
         (alone /\ job[p].op = "resume" /\ job'[p] # job[p] /\ ran'[i] # ran[i])
            => i \notin ToSet(Saved.state.completed)]_vars

\* store.py says "Atomic write: write to temp file then rename": a reader of
\* the task's file would always find a whole record.
AtomicWrite == Readable

\* execute_plan says of a step that raised ExecutionError "Already handled in
\* execute_step (step marked FAILED there)": no task with a rejected step
\* would be saved as completed.
RejectedStepFailsTask ==
    (SavedRecord /\ Saved.state.status = "COMPLETED") =>
        DOMAIN Saved.plan \cap invalid = {}

-----------------------------------------------------------------------------
\* The file as the abstract record: one command at a time implements it, so
\* the runs of several at once are not mapped to it.
AbstractRecord ==
    IF SavedRecord /\ alone
    THEN [step |-> [i \in Ids |-> StepStatus(Saved, i)], status |-> Saved.state.status]
    ELSE Absent

TaskRecordSpec == INSTANCE TaskRecord WITH record <- AbstractRecord

\* Saving by write-then-rename makes every command a whole attempt or
\* nothing: with one command at a time, and crashes between any two of its
\* steps, the file moves as TaskRecord's record does.
ImplementsTaskRecord == TaskRecordSpec!Spec
=============================================================================
