----------------------------- MODULE Reasoning -----------------------------
(***************************************************************************)
(* One world-state memory from a case to its consequences, with no search  *)
(* policy: a case is loaded (engine.state_from_case, or the frames of a    *)
(* session), and from then on any proposal of the built-in proposers may   *)
(* be applied and the verifier stack may run, in any order and any number  *)
(* of times.  The memory of every node a search builds, rollouts included, *)
(* is a state of this specification, so what holds here holds whatever the *)
(* search backend does.                                                    *)
(***************************************************************************)
EXTENDS Proposers

CONSTANTS
    Facts,             \* facts a case may assert: a triple and a status
    CaseConstraints,   \* constraints a case may state
    CaseGoals,         \* goals a case may have
    BundleRelations,   \* relations a capability bundle may declare transitive
    MaxCase,           \* bounds: facts and constraints of a case together, ...
    MaxGoals,          \* ... goals of a case, ...
    MaxClaims,         \* ... claims of the memory, ...
    MaxEvidence,       \* ... evidence entries (the proposer never stops adding them)
    Interpretations    \* sets of triples to judge soundness against

ASSUME CaseAssumption ==
    /\ Facts \subseteq [subject : Names, relation : Relations, object : Names,
                        status : TruthStatus]
    /\ CaseConstraints \subseteq Constraint
    /\ CaseGoals \subseteq Goal
    /\ BundleRelations \subseteq Relations
    /\ MaxCase \in Nat /\ MaxGoals \in Nat
    /\ MaxClaims \in Nat /\ MaxEvidence \in Nat

VARIABLES
    mem,       \* the memory
    given,     \* how many of its claims the case asserted
    started    \* the case is loaded and reasoning has begun

vars == <<mem, given, started>>

----------------------------------------------------------------------------
(* Loading a case.                                                         *)

\* A fresh memory knows is_a, and that is_a is transitive.
Init ==
    /\ mem = AddSchema(EmptyMemory, "is_a", TRUE)
    /\ given = 0
    /\ started = FALSE

\* A bundle's schema is added only if the name is still unknown.
LoadSchema(r) ==
    /\ ~started
    /\ r \notin mem.schemas
    /\ mem' = AddSchema(mem, r, TRUE)
    /\ UNCHANGED <<given, started>>

WithSchema(m, r) == IF r \in m.schemas THEN m ELSE AddSchema(m, r, r = "is_a")

\* A fact brings the schema of its relation; a fact stated before is dropped.
LoadFact(f) ==
    /\ ~started
    /\ given + Len(mem.constraints) < MaxCase
    /\ mem' = AddClaim(WithSchema(mem, f.relation), f.subject, f.relation, f.object,
                       f.status, << >>)
    /\ given' = Len(mem'.claims)
    /\ UNCHANGED started

LoadConstraint(c) ==
    /\ ~started
    /\ given + Len(mem.constraints) < MaxCase
    /\ mem' = AddConstraint(mem, c)
    /\ UNCHANGED <<given, started>>

LoadGoal(g) ==
    /\ ~started
    /\ Len(mem.goals) < MaxGoals
    /\ mem' = AddGoal(mem, g)
    /\ UNCHANGED <<given, started>>

Start ==
    /\ ~started
    /\ started' = TRUE
    /\ UNCHANGED <<mem, given>>

----------------------------------------------------------------------------
(* Reasoning.                                                              *)

Apply(t) ==
    /\ started
    /\ mem' = Applied(mem, t)
    /\ UNCHANGED <<given, started>>

Room == Len(mem.claims) < MaxClaims

TransitiveClosure == Room /\ \E p \in TransitivePairs(mem) : Apply(TransitiveStep(mem, p))

RewriteSubject == Room /\ \E p \in SubjectPairs(mem) : Apply(SubjectStep(mem, p))

RewriteObject == Room /\ \E p \in ObjectPairs(mem) : Apply(ObjectStep(mem, p))

ApplyImplication == Room /\ \E p \in ImplicationPairs(mem) : Apply(ImplicationStep(mem, p))

BindNumeral == \E i \in BindableClaims(mem) : Apply(BindStep(mem, i))

DecideConstraint ==
    /\ Len(mem.evidence) < MaxEvidence
    /\ \E k \in DecidedConstraints(mem) : Apply(ConstraintStep(mem, k))

RecordConflict == \E p \in ConflictPairs(mem) : Apply(ConflictStep(p))

\* The verifier stack evaluates the memory, and writes to it.
RunVerifiers ==
    /\ started
    /\ mem' = VerifiedMemory(mem)
    /\ UNCHANGED <<given, started>>

Load ==
    \/ \E r \in BundleRelations : LoadSchema(r)
    \/ \E f \in Facts : LoadFact(f)
    \/ \E c \in CaseConstraints : LoadConstraint(c)
    \/ \E g \in CaseGoals : LoadGoal(g)

Reason ==
    \/ TransitiveClosure \/ RewriteSubject \/ RewriteObject \/ ApplyImplication
    \/ BindNumeral \/ DecideConstraint \/ RecordConflict \/ RunVerifiers

Next == Load \/ Start \/ Reason

Spec == Init /\ [][Next]_vars

----------------------------------------------------------------------------
(* Properties.                                                             *)

\* Type invariant.
TypeOK ==
    /\ mem \in Memory
    /\ given \in 0..Len(mem.claims)
    /\ started \in BOOLEAN

Derived == (given + 1)..Len(mem.claims)

DepsOf(i) == {mem.claims[i].deps[k] : k \in DOMAIN mem.claims[i].deps}

\* The key index of the memory is one to one: no triple is stored twice.
UniqueClaims ==
    \A i, j \in DOMAIN mem.claims :
        TripleOf(mem.claims[i]) = TripleOf(mem.claims[j]) => i = j

\* A claim rests on nothing exactly when the case asserted it, and otherwise
\* on earlier claims only: AddClaim checks neither, yet the walk of
\* dependency_path_for_claim must end in the facts of the case.
DependenciesEarlier ==
    \A i \in DOMAIN mem.claims :
        /\ mem.claims[i].deps = << >> <=> i <= given
        /\ \A d \in DepsOf(i) : d \in 1..(i - 1)

\* The triple t follows from two claims by one of the four rules.
ByTransitivity(t, l, r) ==
    /\ mem.claims[l].relation \in mem.transitive
    /\ mem.claims[r].relation = mem.claims[l].relation
    /\ mem.claims[l].object = mem.claims[r].subject
    /\ t = TransitiveTriple(mem, <<l, r>>)

ByRewrite(t, e, c) ==
    /\ mem.claims[e].relation = "equals" /\ mem.claims[c].relation # "equals"
    /\ \/ /\ mem.claims[c].subject = mem.claims[e].object
          /\ t = SubjectTriple(mem, <<e, c>>)
       \/ /\ mem.claims[c].object = mem.claims[e].subject
          /\ t = ObjectTriple(mem, <<e, c>>)

ByImplication(t, p, c) ==
    /\ mem.claims[p].relation = "is_true" /\ mem.claims[c].relation = "implies"
    /\ mem.claims[p].subject = mem.claims[c].subject
    /\ t = ImplicationTriple(mem, <<p, c>>)

ByRule(t, a, b) ==
    ByTransitivity(t, a, b) \/ ByRewrite(t, a, b) \/ ByRewrite(t, b, a) \/ ByImplication(t, a, b)

\* Every derived claim is SUPPORTED and names, as its dependencies, the two
\* premises it really follows from: the proof trace shown to a user is a proof.
Justified ==
    \A i \in Derived :
        /\ mem.claims[i].status = "SUPPORTED"
        /\ Len(mem.claims[i].deps) = 2
        /\ ByRule(TripleOf(mem.claims[i]), mem.claims[i].deps[1], mem.claims[i].deps[2])

\* The proof trace of every claim ends in facts of the case and never meets
\* itself: triples are stored once, dependencies point back, rules were used.
WellFounded == UniqueClaims /\ DependenciesEarlier /\ Justified

\* M is closed under the inference rules, the transitive relations being trans.
Closed(M, trans) ==
    \A a, b \in M :
        /\ a[2] \in trans /\ b[2] = a[2] /\ a[3] = b[1] => <<a[1], a[2], b[3]>> \in M
        /\ a[2] = "equals" /\ b[2] # "equals" =>
              /\ b[1] = a[3] => <<a[1], b[2], b[3]>> \in M
              /\ b[3] = a[1] => <<b[1], b[2], a[3]>> \in M
        /\ a[2] = "is_true" /\ b[2] = "implies" /\ a[1] = b[1] => <<b[3], "is_true", "true">> \in M

GivenTriples == {TripleOf(mem.claims[i]) : i \in 1..given}

\* M is a model of the case.
IsModel(M) == GivenTriples \subseteq M /\ Closed(M, mem.transitive)

\* Soundness: the memory never holds a triple that is not in every model of
\* the facts, in whatever order rules, verifiers and bindings interleave.
Sound ==
    LET known == Triples(mem)
    IN  \A M \in Interpretations : known \subseteq M \/ ~IsModel(M)

\* ClaimVerifier refuses a derived claim only when a rule other than the
\* transitive closure concluded something over a transitive relation (its two
\* dependencies then do not chain): whatever else the proposers support, the
\* verifier accepts.
RefusedOnlyIfRewritten ==
    \A i \in Derived :
        \/ ClaimVerified(mem, mem.claims[i])
        \/ /\ mem.claims[i].relation \in mem.transitive
           /\ \E d \in DepsOf(i) : mem.claims[d].relation # mem.claims[i].relation

\* A number bound to a symbol is the value of an accepted equality.
BindingsJustified ==
    \A n \in {x \in Names : IsBound(mem, x)} :
        \E i \in DOMAIN mem.claims :
            /\ AcceptedEquality(mem, i)
            /\ mem.claims[i].subject = n
            /\ mem.claims[i].object \in Numerals
            /\ mem.bindings[n] = NumeralValue[mem.claims[i].object]

\* No false alarm: a recorded contradiction still stands, as two accepted
\* equalities that disagree, two bounds that exclude each other, or a bound
\* symbol outside a constraint.
StandingContradictions ==
    DetectedContradictions(mem)
    \cup {[elements |-> {<<"constraint", k>>, <<"symbol", mem.constraints[k].target>>},
           severity |-> "unsat"] :
            k \in {j \in DecidedConstraints(mem) : ~SatisfiedConstraint(mem, j)}}

ContradictionsReal == mem.contradictions \subseteq StandingContradictions

\* The verifiers raise no false alarm: what ClaimVerifier refuses and what
\* the other verifiers record is really wrong, however late they look.
NoFalseAlarm == RefusedOnlyIfRewritten /\ ContradictionsReal

\* What FinalStateEvaluator calls VERIFIED on a memory that the whole stack
\* passed is entailed by the case (a claim goal) or true of the bound symbol
\* (a constraint goal), and nothing in the memory contradicts it.
VerifiedIsSupported ==
    LET g == mem.goals[1]
    IN  started /\ StackPassed(mem) /\ Judgement(mem) = "VERIFIED" =>
        /\ mem.contradictions = {}
        /\ IF IsConstraintGoal(g)
           THEN /\ IsBound(mem, g.subject)
                /\ \A k \in ConstraintsOn(mem, g.subject) :
                      mem.constraints[k].kind = "numeric" => SatisfiedConstraint(mem, k)
           ELSE /\ \E i \in DOMAIN mem.claims :
                      /\ TripleOf(mem.claims[i]) = <<g.subject, g.relation, g.object>>
                      /\ AcceptedClaim(mem, i)
                /\ \A M \in Interpretations : IsModel(M) => <<g.subject, g.relation, g.object>> \in M

\* The memory only grows: a stored claim keeps its triple, status and
\* dependencies, and a contradiction, once found, is never forgotten.
AppendOnly ==
    [][/\ Len(mem.claims) <= Len(mem'.claims)
       /\ \A i \in DOMAIN mem.claims : mem'.claims[i] = mem.claims[i]
       /\ mem.contradictions \subseteq mem'.contradictions]_vars

Conflicted(m) == Judgement(m) \in {"CONTRADICTORY", "UNSATISFIABLE"}

\* Why a search may cut a contradictory node: once the verifiers have written
\* a contradiction down, nothing that can be applied to the memory makes a
\* later judgement anything but contradictory.  (What they would find may
\* still vanish: binding a symbol with a non-numeric constraint ends the scan
\* of the constraints before a violated one.)
ConflictIsFinal == [][started /\ mem.contradictions # {} => Conflicted(mem')]_vars
=============================================================================
