----------------------------- MODULE WorldState -----------------------------
(***************************************************************************)
(* The world-state memory of memory/world_state.py as a record, and its    *)
(* operations as operators from a memory to a memory.                      *)
(*                                                                         *)
(* A claim id "claim:N" is the index N of the claim in insertion order;    *)
(* "constraint:K" and "symbol:S" are tagged pairs, as are claim ids where  *)
(* the three meet (contradictions and evidence).  _norm, _norm_qualifiers  *)
(* and the text of a claim are not modelled: names are already normal and  *)
(* no caller inside the engine passes qualifiers.                          *)
(***************************************************************************)
EXTENDS Integers, Sequences

CONSTANTS
    Names,          \* subjects and objects of claims, goals and constraints
    Relations,      \* relation names
    Numerals,       \* the names that _parse_number accepts
    NumeralValue,   \* the number each numeral denotes
    Unbound         \* no binding

ASSUME NamesAssumption ==
    /\ "true" \in Names
    /\ Numerals \subseteq Names
    /\ NumeralValue \in [Numerals -> Int]
    /\ Unbound \notin Int
    /\ {"is_a", "equals", "is_true"} \subseteq Relations

(***************************************************************************)
(* Types.                                                                  *)
(***************************************************************************)
TruthStatus == {"ASSERTED", "SUPPORTED", "REFUTED", "ASSUMED", "UNKNOWN"}

Accepted == {"ASSERTED", "SUPPORTED"}

Triple == Names \X Relations \X Names

Claim == [subject : Names, relation : Relations, object : Names,
          status : TruthStatus, deps : Seq(Nat)]

Goal == [subject : Names, relation : Relations \cup {"satisfies"},
         object : Names \cup {"constraints"}]

\* A constraint whose value is not a number has isNumber = FALSE; its value
\* is then meaningless.  Any kind but "numeric" is skipped by every reader.
Operators == {">", ">=", "<", "<=", "==", "!="}

Constraint == [kind : {"numeric", "other"}, target : Names,
               operator : Operators, isNumber : BOOLEAN, value : Int]

ElementId == ({"claim", "constraint"} \X Nat) \cup ({"symbol"} \X Names)

\* A contradiction is stored once under each of its elements, so the index
\* of the code is a projection of this set.  Numbering and repeated records
\* of one conflict are not told apart.
Contradiction == [elements : SUBSET ElementId, severity : {"high", "unsat"}]

Memory == [claims : Seq(Claim),
           schemas : SUBSET Relations,
           transitive : SUBSET Relations,
           constraints : Seq(Constraint),
           bindings : [Names -> Int \cup {Unbound}],
           evidence : Seq(ElementId),
           goals : Seq(Goal),
           contradictions : SUBSET Contradiction]

EmptyMemory == [claims |-> << >>, schemas |-> {}, transitive |-> {},
                constraints |-> << >>, bindings |-> [n \in Names |-> Unbound],
                evidence |-> << >>, goals |-> << >>, contradictions |-> {}]

(***************************************************************************)
(* Lookups.                                                                *)
(***************************************************************************)
TripleOf(c) == <<c.subject, c.relation, c.object>>

\* What the memory holds, whatever the truth status of each claim.
Triples(m) == {TripleOf(m.claims[i]) : i \in DOMAIN m.claims}

\* find_claim(...) is not None.
Holds(m, s, r, o) == <<s, r, o>> \in Triples(m)

\* find_claim: the index of the claim with this key.
ClaimIdOf(m, s, r, o) ==
    CHOOSE i \in DOMAIN m.claims : TripleOf(m.claims[i]) = <<s, r, o>>

AcceptedClaim(m, i) == m.claims[i].status \in Accepted

\* name in symbol_bindings
IsBound(m, name) == m.bindings[name] # Unbound

\* get_contradictions_for(element) is not empty.
HasContradiction(m, e) == \E k \in m.contradictions : e \in k.elements

(***************************************************************************)
(* Updates.                                                                *)
(***************************************************************************)
AddSchema(m, r, isTransitive) ==
    [m EXCEPT !.schemas = @ \cup {r},
              !.transitive = IF isTransitive THEN @ \cup {r} ELSE @ \ {r}]

\* Mutant: the key index is not looked at.
AddClaimUnchecked(m, s, r, o, status, deps) ==
    [m EXCEPT !.claims = Append(@, [subject |-> s, relation |-> r, object |-> o,
                                    status |-> status, deps |-> deps])]

\* Mutant: a claim that is present takes the new status and dependencies.
AddClaimReplacing(m, s, r, o, status, deps) ==
    [m EXCEPT !.claims =
        IF Holds(m, s, r, o)
        THEN [@ EXCEPT ![ClaimIdOf(m, s, r, o)].status = status,
                       ![ClaimIdOf(m, s, r, o)].deps = deps]
        ELSE Append(@, [subject |-> s, relation |-> r, object |-> o,
                        status |-> status, deps |-> deps])]

\* A key that is present keeps its claim: the new status and the new
\* dependencies are dropped.
AddClaim(m, s, r, o, status, deps) ==
    IF Holds(m, s, r, o) THEN m
    ELSE [m EXCEPT !.claims = Append(@, [subject |-> s, relation |-> r, object |-> o,
                                          status |-> status, deps |-> deps])]

AddGoal(m, g) == [m EXCEPT !.goals = Append(@, g)]

AddConstraint(m, c) == [m EXCEPT !.constraints = Append(@, c)]

BindSymbol(m, name, value) == [m EXCEPT !.bindings[name] = value]

AddEvidence(m, target) == [m EXCEPT !.evidence = Append(@, target)]

RecordContradiction(m, elements, severity) ==
    [m EXCEPT !.contradictions = @ \cup {[elements |-> elements, severity |-> severity]}]

(***************************************************************************)
(* The dependency path of a claim: itself and everything it rests on.      *)
(* visit() descends along dependencies; Ancestors descends likewise, which *)
(* is enough because every dependency is an earlier claim (the invariant   *)
(* DependenciesEarlier of Reasoning).                                      *)
(***************************************************************************)
Ancestors(m) ==
    LET A[i \in Nat] ==
            IF i \notin DOMAIN m.claims THEN {}
            ELSE {i} \cup UNION {A[d] : d \in {m.claims[i].deps[k] :
                                                k \in DOMAIN m.claims[i].deps}}
    IN  A

DependencyPath(m, i) == Ancestors(m)[i]

HasContradictionOnPath(m, path) == \E i \in path : HasContradiction(m, <<"claim", i>>)
=============================================================================
