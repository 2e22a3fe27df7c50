------------------------------- MODULE Search -------------------------------
(***************************************************************************)
(* What any search backend promises (search/backend.py): it holds a set of *)
(* memories, extends them with proposals of the built-in proposers, may    *)
(* forget any of them, and answers with what the verifier stack and the    *)
(* final-state evaluator say of one of them.  Order, scores and limits are *)
(* left to the backend; BeamSearch and MonteCarlo implement it.            *)
(***************************************************************************)
EXTENDS Proposers

CONSTANTS Cases, NoAnswer

VARIABLES nodes, answer

vars == <<nodes, answer>>

\* CompositeProposer.propose, as a set.
Steps(m) ==
    {TransitiveStep(m, p) : p \in TransitivePairs(m)}
    \cup {SubjectStep(m, p) : p \in SubjectPairs(m)}
    \cup {ObjectStep(m, p) : p \in ObjectPairs(m)}
    \cup {ImplicationStep(m, p) : p \in ImplicationPairs(m)}
    \cup {BindStep(m, i) : i \in BindableClaims(m)}
    \cup {ConstraintStep(m, k) : k \in DecidedConstraints(m)}
    \cup {ConflictStep(p) : p \in ConflictPairs(m)}

\* Children are judged as soon as they are made, so they carry what the
\* verifiers recorded.
Children(m) == {VerifiedMemory(Applied(m, t)) : t \in Steps(m)}

\* Held already, or one judgement or one proposal away from what is held.
Reached(m) ==
    m \in nodes \/ \E n \in nodes : m = VerifiedMemory(n) \/ m \in Children(n)

Init == nodes \in {{c} : c \in Cases} /\ answer = NoAnswer

Explore ==
    /\ answer = NoAnswer
    /\ \A m \in nodes' : Reached(m)
    /\ UNCHANGED answer

\* SearchResult: a memory and the evaluator's verdict on that same memory.
Answer ==
    /\ answer = NoAnswer
    /\ \A m \in nodes' : Reached(m)
    /\ \E m \in nodes' : answer' = [memory |-> m, status |-> Judgement(m)]

Next == Explore \/ Answer

Spec == Init /\ [][Next]_vars
=============================================================================
