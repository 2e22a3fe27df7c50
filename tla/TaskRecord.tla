----------------------------- MODULE TaskRecord -----------------------------
(***************************************************************************)
(* What the saved record of an agent task promises, whatever happens to    *)
(* the commands that work on it: a command either leaves it alone, starts  *)
(* the task afresh, or makes one whole attempt at the steps still pending. *)
(* An attempt completes steps in order and ends at the last one, at a step *)
(* whose tool fails, or at a step the validator rejects; the steps behind  *)
(* a failed or a rejected one are dropped from the plan.  TaskExecution    *)
(* implements this record with files, temporary files and crashes.         *)
(***************************************************************************)
EXTENDS Naturals, FiniteSets

CONSTANTS N, InvalidSets, Absent

Ids == 1..N

VARIABLES invalid, record

vars == <<invalid, record>>

Pending(r) == {i \in Ids : r.step[i] = "PENDING"}

\* The steps left in front of step i.
Ahead(r, i) == {j \in Pending(r) : j < i}

Fresh == [step |-> [i \in Ids |-> "PENDING"], status |-> "RUNNING"]

Init == invalid \in InvalidSets /\ record = Absent

Submit == record' = Fresh

CompleteAll ==
    /\ Pending(record) # {}
    /\ Pending(record) \cap invalid = {}
    /\ record' = [step   |-> [i \in Ids |-> IF i \in Pending(record) THEN "COMPLETED"
                                            ELSE record.step[i]],
                  status |-> "COMPLETED"]

\* The attempt stops at step i, which ends as outcome.
StopAt(i, outcome) ==
    [j \in Ids |->
        IF j \notin Pending(record) THEN record.step[j]
        ELSE IF j < i THEN "COMPLETED"
        ELSE IF j = i THEN outcome
        ELSE "DROPPED"]

FailAt(i) ==
    /\ i \notin invalid
    /\ record' = [step |-> StopAt(i, "FAILED"), status |-> "FAILED"]

\* A rejected step stays pending; the status says COMPLETED unless the
\* attempt was a first one that completed nothing.
RejectAt(i) ==
    /\ i \in invalid
    /\ \E s \in {"COMPLETED"} \cup (IF Ahead(record, i) = {} THEN {record.status} ELSE {}) :
         record' = [step |-> StopAt(i, "PENDING"), status |-> s]

Attempt ==
    /\ record # Absent
    /\ \/ CompleteAll
       \/ \E i \in Pending(record) :
            /\ Ahead(record, i) \cap invalid = {}
            /\ FailAt(i) \/ RejectAt(i)

Next == (Submit \/ (record # Absent /\ Attempt)) /\ UNCHANGED invalid

Spec == Init /\ [][Next]_vars
=============================================================================
