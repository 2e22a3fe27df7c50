----------------------------- MODULE Proposers -----------------------------
(***************************************************************************)
(* What the built-in proposers may propose on a memory                     *)
(* (proposer/rule_based.py, proposer/domain_specific.py), as one set of    *)
(* index tuples per rule and the transition each tuple stands for, and     *)
(* what applying a transition does (transitions/state_transition.py).      *)
(*                                                                         *)
(* The order and the limits of a proposal list are in SearchBase; here a   *)
(* rule is the set of its instances.                                       *)
(***************************************************************************)
EXTENDS Verifier

(***************************************************************************)
(* Transitions.  The status of a proposed claim is always SUPPORTED.       *)
(***************************************************************************)
Supporting(triple, deps) == [type |-> "AddClaim", triple |-> triple, deps |-> deps]
Binding(name, value) == [type |-> "BindSymbol", name |-> name, value |-> value]
Evidence(target) == [type |-> "AddEvidence", target |-> target]
Conflict(elements, severity) ==
    [type |-> "RecordContradiction", elements |-> elements, severity |-> severity]

\* Transition.validate: of the proposed types only AddClaim can be refused,
\* for a relation without a schema.
Valid(m, t) == t.type = "AddClaim" => KnownRelation(m, t.triple[2])

\* Transition.apply on a clone; an invalid transition leaves it as it was.
Applied(m, t) ==
    IF ~Valid(m, t) THEN m
    ELSE CASE t.type = "AddClaim" -> AddClaim(m, t.triple[1], t.triple[2], t.triple[3],
                                              "SUPPORTED", t.deps)
           [] t.type = "BindSymbol" -> BindSymbol(m, t.name, t.value)
           [] t.type = "AddEvidence" -> AddEvidence(m, t.target)
           [] t.type = "RecordContradiction" -> RecordContradiction(m, t.elements, t.severity)

(***************************************************************************)
(* Inference rules over claims.  Only equalities, premises of implications *)
(* and numerals are asked for their truth status: a transitive premise, an *)
(* implication and the claim an equality rewrites may have any.            *)
(***************************************************************************)
Fresh(m, triple) == triple \notin Triples(m)

AcceptedEquality(m, e) == m.claims[e].relation = "equals" /\ AcceptedClaim(m, e)

\* _propose_transitive_closure: left R x, x R right.
TransitiveTriple(m, p) ==
    <<m.claims[p[1]].subject, m.claims[p[1]].relation, m.claims[p[2]].object>>

\* Mutant: the schema of the relation is not consulted.
TransitivePairsUntyped(m) ==
    {p \in (DOMAIN m.claims) \X (DOMAIN m.claims) :
        /\ m.claims[p[2]].relation = m.claims[p[1]].relation
        /\ m.claims[p[1]].object = m.claims[p[2]].subject
        /\ Fresh(m, TransitiveTriple(m, p))}

TransitivePairs(m) ==
    {p \in (DOMAIN m.claims) \X (DOMAIN m.claims) :
        /\ m.claims[p[1]].relation \in m.transitive
        /\ m.claims[p[2]].relation = m.claims[p[1]].relation
        /\ m.claims[p[1]].object = m.claims[p[2]].subject
        /\ Fresh(m, TransitiveTriple(m, p))}

TransitiveStep(m, p) == Supporting(TransitiveTriple(m, p), p)

\* _propose_equality_propagation: from a = b, b R y to a R y ...
SubjectTriple(m, p) ==
    <<m.claims[p[1]].subject, m.claims[p[2]].relation, m.claims[p[2]].object>>

SubjectPairs(m) ==
    {p \in (DOMAIN m.claims) \X (DOMAIN m.claims) :
        /\ AcceptedEquality(m, p[1])
        /\ m.claims[p[2]].relation # "equals"
        /\ m.claims[p[2]].subject = m.claims[p[1]].object
        /\ Fresh(m, SubjectTriple(m, p))}

SubjectStep(m, p) == Supporting(SubjectTriple(m, p), p)

\* ... and from a = b, y R a to y R b.
ObjectTriple(m, p) ==
    <<m.claims[p[2]].subject, m.claims[p[2]].relation, m.claims[p[1]].object>>

ObjectPairs(m) ==
    {p \in (DOMAIN m.claims) \X (DOMAIN m.claims) :
        /\ AcceptedEquality(m, p[1])
        /\ m.claims[p[2]].relation # "equals"
        /\ m.claims[p[2]].object = m.claims[p[1]].subject
        /\ Fresh(m, ObjectTriple(m, p))}

ObjectStep(m, p) == Supporting(ObjectTriple(m, p), <<p[2], p[1]>>)

\* _propose_symbolic_logic: from a is_true _, a implies b to b is_true true.
\* The premise is the last accepted is_true claim of the subject; its object
\* is not looked at.
TruePremises(m, name) ==
    {i \in DOMAIN m.claims : /\ m.claims[i].relation = "is_true" /\ AcceptedClaim(m, i)
                             /\ m.claims[i].subject = name}

IsPremise(m, i, name) ==
    i \in TruePremises(m, name) /\ \A j \in TruePremises(m, name) : j <= i

ImplicationTriple(m, p) == <<m.claims[p[2]].object, "is_true", "true">>

ImplicationPairs(m) ==
    {p \in (DOMAIN m.claims) \X (DOMAIN m.claims) :
        /\ m.claims[p[2]].relation = "implies"
        /\ IsPremise(m, p[1], m.claims[p[2]].subject)
        /\ Fresh(m, ImplicationTriple(m, p))}

ImplicationStep(m, p) == Supporting(ImplicationTriple(m, p), p)

(***************************************************************************)
(* Arithmetic: numeric equalities bind symbols, bound symbols support or   *)
(* refute constraints.                                                     *)
(***************************************************************************)
BindableClaims(m) ==
    {i \in DOMAIN m.claims : /\ AcceptedEquality(m, i)
                             /\ m.claims[i].object \in Numerals
                             /\ ~IsBound(m, m.claims[i].subject)}

\* Mutant: the numeral is bound, not the symbol.
BindStepObject(m, i) == Binding(m.claims[i].object, NumeralValue[m.claims[i].object])

BindStep(m, i) == Binding(m.claims[i].subject, NumeralValue[m.claims[i].object])

DecidedConstraints(m) ==
    {k \in DOMAIN m.constraints : Applicable(m, m.constraints[k]) /\ m.constraints[k].isNumber}

SatisfiedConstraint(m, k) ==
    CompareNumeric(m.bindings[m.constraints[k].target], m.constraints[k].operator,
                   m.constraints[k].value)

\* Mutant: the two outcomes exchanged.
ConstraintStepInverted(m, k) ==
    IF ~SatisfiedConstraint(m, k)
    THEN Evidence(<<"constraint", k>>)
    ELSE Conflict({<<"constraint", k>>, <<"symbol", m.constraints[k].target>>}, "unsat")

ConstraintStep(m, k) ==
    IF SatisfiedConstraint(m, k)
    THEN Evidence(<<"constraint", k>>)
    ELSE Conflict({<<"constraint", k>>, <<"symbol", m.constraints[k].target>>}, "unsat")

\* _propose_contradiction_candidates
ConflictPairs(m) ==
    {p \in EqualityConflicts(m) : ~HasContradiction(m, <<"claim", p[1]>>)}

ConflictStep(p) == Conflict({<<"claim", p[1]>>, <<"claim", p[2]>>}, "high")
=============================================================================
