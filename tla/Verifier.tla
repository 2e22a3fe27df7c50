------------------------------ MODULE Verifier ------------------------------
(***************************************************************************)
(* The verifier stack and the final-state evaluator of verifier/*.py.      *)
(*                                                                         *)
(* Verifying a memory is not a pure question: the constraint verifier and  *)
(* the contradiction detector record what they find in the memory they are *)
(* given, so the stack is an update (VerifiedMemory) and a score.  Scores  *)
(* are in fortieths: the stack averages four verifiers, each of which      *)
(* scores a multiple of a tenth.                                           *)
(***************************************************************************)
EXTENDS WorldState

FinalStatus == {"VERIFIED", "INCONCLUSIVE", "CONTRADICTORY", "UNSATISFIABLE"}

Threshold == 28                  \* verifier_threshold = 0.7

(***************************************************************************)
(* ClaimVerifier.                                                          *)
(***************************************************************************)
KnownRelation(m, r) == m.schemas # {} => r \in m.schemas

Exists(m, i) == i \in DOMAIN m.claims

\* Two dependencies of a claim over a transitive relation must chain.
Chains(m, c) ==
    /\ Exists(m, c.deps[1]) /\ Exists(m, c.deps[2])
    /\ LET left == m.claims[c.deps[1]]
           right == m.claims[c.deps[2]]
       IN  /\ left.relation = c.relation /\ right.relation = c.relation
           /\ left.subject = c.subject
           /\ left.object = right.subject
           /\ right.object = c.object

\* _verify_dependency_support: any other claim only needs dependencies that
\* exist, whatever they say.
DependencySupport(m, c) ==
    IF c.relation \in m.transitive /\ Len(c.deps) = 2
    THEN Chains(m, c)
    ELSE \A k \in DOMAIN c.deps : Exists(m, c.deps[k])

ClaimVerified(m, c) ==
    /\ KnownRelation(m, c.relation)
    /\ c.status = "SUPPORTED" => /\ c.deps # << >>
                                 /\ DependencySupport(m, c)

ClaimsVerified(m) == \A i \in DOMAIN m.claims : ClaimVerified(m, m.claims[i])

(***************************************************************************)
(* ConstraintVerifier.                                                     *)
(***************************************************************************)
CompareNumeric(left, op, right) ==
    CASE op = ">"  -> left > right
      [] op = ">=" -> left >= right
      [] op = "<"  -> left < right
      [] op = "<=" -> left <= right
      [] op = "==" -> left = right
      [] op = "!=" -> left # right

\* A numeric constraint on a bound symbol; the others are skipped.
Applicable(m, c) == c.kind = "numeric" /\ IsBound(m, c.target)

\* The first applicable constraint without a numeric value ends the scan.
ScannedConstraints(m) ==
    {k \in DOMAIN m.constraints :
        \A j \in 1..k : Applicable(m, m.constraints[j]) => m.constraints[j].isNumber}

ViolatedConstraints(m) ==
    {k \in ScannedConstraints(m) :
        LET c == m.constraints[k]
        IN  Applicable(m, c) /\ ~CompareNumeric(m.bindings[c.target], c.operator, c.value)}

ConstraintsVerified(m) ==
    /\ ScannedConstraints(m) = DOMAIN m.constraints
    /\ ViolatedConstraints(m) = {}

ConstraintContradictions(m) ==
    {[elements |-> {<<"constraint", k>>, <<"symbol", m.constraints[k].target>>},
      severity |-> "unsat"] : k \in ViolatedConstraints(m)}

(***************************************************************************)
(* ContradictionDetector.                                                  *)
(***************************************************************************)
\* Pairs of accepted equalities giving one subject two values.
EqualityConflicts(m) ==
    {p \in (DOMAIN m.claims) \X (DOMAIN m.claims) :
        LET left == m.claims[p[1]]
            right == m.claims[p[2]]
        IN  /\ p[1] < p[2]
            /\ left.relation = "equals" /\ right.relation = "equals"
            /\ AcceptedClaim(m, p[1]) /\ AcceptedClaim(m, p[2])
            /\ left.subject = right.subject
            /\ left.object # right.object}

\* No number is both above the lower bound and below the upper one.
EmptyInterval(lower, upper) ==
    /\ lower.operator \in {">", ">="} /\ upper.operator \in {"<", "<="}
    /\ lower.isNumber /\ upper.isNumber
    /\ \/ lower.value > upper.value
       \/ lower.value = upper.value /\ (lower.operator = ">" \/ upper.operator = "<")

BoundConflicts(m) ==
    {p \in (DOMAIN m.constraints) \X (DOMAIN m.constraints) :
        LET left == m.constraints[p[1]]
            right == m.constraints[p[2]]
        IN  /\ p[1] < p[2]
            /\ left.kind = "numeric" /\ right.kind = "numeric"
            /\ left.target = right.target
            /\ EmptyInterval(left, right) \/ EmptyInterval(right, left)}

NoContradictions(m) == EqualityConflicts(m) = {} /\ BoundConflicts(m) = {}

DetectedContradictions(m) ==
    {[elements |-> {<<"claim", p[1]>>, <<"claim", p[2]>>}, severity |-> "high"] :
        p \in EqualityConflicts(m)}
    \cup {[elements |-> {<<"constraint", p[1]>>, <<"constraint", p[2]>>}, severity |-> "unsat"] :
        p \in BoundConflicts(m)}

(***************************************************************************)
(* GoalSatisfactionChecker: it always passes, and only scores.             *)
(***************************************************************************)
IsConstraintGoal(g) == g.relation = "satisfies" /\ g.object = "constraints"

ConstraintsOn(m, target) == {k \in DOMAIN m.constraints : m.constraints[k].target = target}

GoalSatisfied(m, g) ==
    IF IsConstraintGoal(g)
    THEN /\ ConstraintsOn(m, g.subject) # {}
         /\ \A k \in ConstraintsOn(m, g.subject) : ~HasContradiction(m, <<"constraint", k>>)
    ELSE \E i \in DOMAIN m.claims : /\ TripleOf(m.claims[i]) = <<g.subject, g.relation, g.object>>
                                    /\ AcceptedClaim(m, i)

GoalScore(m) ==
    LET met == {k \in DOMAIN m.goals : GoalSatisfied(m, m.goals[k])}
    IN  IF m.goals = << >> THEN 8
        ELSE IF met = DOMAIN m.goals THEN 10
        ELSE IF met = {} THEN 4 ELSE 7

(***************************************************************************)
(* VerifierStack.evaluate.  The goal checker runs last, on the memory the  *)
(* others have written to; the others do not read contradictions.          *)
(***************************************************************************)
VerifiedMemory(m) ==
    [m EXCEPT !.contradictions = @ \cup ConstraintContradictions(m) \cup DetectedContradictions(m)]

StackPassed(m) == ClaimsVerified(m) /\ ConstraintsVerified(m) /\ NoContradictions(m)

Pass(verified) == IF verified THEN 10 ELSE 0

StackScore(m) == Pass(ClaimsVerified(m)) + Pass(ConstraintsVerified(m))
                 + Pass(NoContradictions(m)) + GoalScore(VerifiedMemory(m))

(***************************************************************************)
(* FinalStateEvaluator.evaluate on a memory and a stack score.             *)
(***************************************************************************)
HasUnsat(m) == \E k \in m.contradictions : k.severity = "unsat"

ConflictStatus(m) == IF HasUnsat(m) THEN "UNSATISFIABLE" ELSE "CONTRADICTORY"

\* Mutant: an unbound symbol satisfies its constraints.
ConstraintGoalStatusUnbound(m, g, score) ==
    CASE m.contradictions # {} -> ConflictStatus(m)
      [] m.contradictions = {} /\ score >= Threshold /\ ConstraintsOn(m, g.subject) # {} -> "VERIFIED"
      [] OTHER -> "INCONCLUSIVE"

\* _evaluate_constraint_goal
ConstraintGoalStatus(m, g, score) ==
    CASE m.contradictions # {} -> ConflictStatus(m)
      [] /\ m.contradictions = {} /\ score >= Threshold
         /\ IsBound(m, g.subject)
         /\ ConstraintsOn(m, g.subject) # {} -> "VERIFIED"
      [] OTHER -> "INCONCLUSIVE"

\* Mutant: only contradictions on the path of the goal count.
ClaimGoalStatusLocal(m, i, score) ==
    CASE HasContradictionOnPath(m, DependencyPath(m, i)) -> "CONTRADICTORY"
      [] /\ ~HasContradictionOnPath(m, DependencyPath(m, i))
         /\ score >= Threshold /\ AcceptedClaim(m, i) -> "VERIFIED"
      [] OTHER -> "INCONCLUSIVE"

\* The goal claim is present; its path always holds the claim itself, so the
\* proof trace of a VERIFIED answer is never empty.
ClaimGoalStatus(m, i, score) ==
    CASE HasContradictionOnPath(m, DependencyPath(m, i)) -> "CONTRADICTORY"
      [] /\ ~HasContradictionOnPath(m, DependencyPath(m, i))
         /\ m.contradictions # {} -> ConflictStatus(m)
      [] /\ m.contradictions = {} /\ score >= Threshold
         /\ AcceptedClaim(m, i) -> "VERIFIED"
      [] OTHER -> "INCONCLUSIVE"

\* Only the first goal is ever answered.
Evaluation(m, score) ==
    IF m.goals = << >>
    THEN IF m.contradictions # {} THEN ConflictStatus(m) ELSE "INCONCLUSIVE"
    ELSE LET g == m.goals[1]
         IN  IF IsConstraintGoal(g) THEN ConstraintGoalStatus(m, g, score)
             ELSE IF Holds(m, g.subject, g.relation, g.object)
                  THEN ClaimGoalStatus(m, ClaimIdOf(m, g.subject, g.relation, g.object), score)
                  ELSE IF m.contradictions # {} THEN ConflictStatus(m) ELSE "INCONCLUSIVE"

\* Stack, then evaluator, as every search node is judged.
Judgement(m) == Evaluation(VerifiedMemory(m), StackScore(m))
=============================================================================
