------------------------------ MODULE MCSearch ------------------------------
(***************************************************************************)
(* build_search of engine.py: a search runs one of the two backends.  The  *)
(* small instances are every case of at most MaxFacts facts out of a pool  *)
(* with a transitive chain, a rewriting equality, an implication and       *)
(* numeric equalities, with one goal and a few constraints.                *)
(***************************************************************************)
EXTENDS BeamSearch, MonteCarlo

CONSTANTS MaxFacts, MaxConstraints

vars == <<config, root, expanded, answer, beamVars, treeVars>>

Init == BaseInit /\ BeamInit /\ TreeInit

Next ==
    \/ BeamNext /\ UNCHANGED treeVars
    \/ TreeNext /\ UNCHANGED beamVars

\* run() is one uninterrupted call: a step that is possible is taken.
Spec == Init /\ [][Next]_vars /\ WF_vars(Next)

----------------------------------------------------------------------------
(* Properties.                                                             *)

\* A search keeps to its types and to the limits of its configuration, and
\* what a tree search has spent is where its visits say.
Bounded ==
    /\ BeamTypeOK /\ TreeTypeOK /\ BeamBounded /\ TreeBounded /\ VisitsAddUp
    /\ Done => answer.memory \in Memory /\ answer.judged \in Memory /\ answer.status \in FinalStatus

\* A conflict is answered only when the case itself, before any inference,
\* is in conflict: one that the search runs into belongs to the proposals.
ConflictIsOfCase ==
    Done /\ answer.status \in {"CONTRADICTORY", "UNSATISFIABLE"} =>
        Judgement(root) = answer.status

\* Whatever either search ran into on the way, its answer is about the case:
\* what it calls VERIFIED the case entails, and a conflict is the case's own.
AnswersAreOfCase == VerifiedEntailed /\ ConflictIsOfCase

\* A search ends: its loops are bounded by the limits, not by the case.
Terminates == <>Done

\* The promise of a search backend: what is held was reached by proposals of
\* the built-in proposers, and the answer is the verdict on one such memory.
\* For the tree search that memory is the end of a rollout, which need not be
\* the memory the answer hands out.
Backend == INSTANCE Search WITH
    nodes <- {n.mem : n \in NodesHeld} \cup TreeMemories
             \cup (IF Done THEN {answer.judged} ELSE {}),
    answer <- IF Done THEN [memory |-> answer.judged, status |-> answer.status] ELSE NoAnswer

ImplementsSearch == Backend!Spec

\* README.md, Doctrine: "No final answer is accepted without verifier-backed
\* state support": a VERIFIED memory passed the whole verifier stack.
VerifiedIsBacked == Done /\ answer.status = "VERIFIED" => StackPassed(answer.memory)

----------------------------------------------------------------------------

MCNames == {"a", "b", "c", "d", "x", "1", "2", "true"}
MCRelations == {"is_a", "equals", "implies", "is_true", "likes"}
MCNumerals == {"1", "2"}
MCNumeralValue == [n \in MCNumerals |-> IF n = "1" THEN 1 ELSE 2]

Fact(s, r, o, status) == [subject |-> s, relation |-> r, object |-> o,
                          status |-> status, deps |-> << >>]

Pool == <<
    Fact("a", "is_a", "b", "ASSERTED"),
    Fact("b", "is_a", "c", "ASSERTED"),
    Fact("c", "is_a", "d", "ASSERTED"),
    Fact("x", "equals", "a", "ASSERTED"),
    Fact("a", "likes", "c", "ASSUMED"),
    Fact("a", "equals", "1", "ASSERTED"),
    Fact("a", "is_true", "true", "REFUTED"),
    Fact("c", "is_true", "true", "ASSERTED"),
    Fact("c", "implies", "d", "ASSERTED")>>

Limits == <<
    [kind |-> "numeric", target |-> "a", operator |-> "<=", isNumber |-> TRUE, value |-> 1],
    [kind |-> "numeric", target |-> "a", operator |-> ">", isNumber |-> TRUE, value |-> 1]>>

MCGoals == {[subject |-> "a", relation |-> "is_a", object |-> "b"],
            [subject |-> "a", relation |-> "is_a", object |-> "d"],
            [subject |-> "x", relation |-> "likes", object |-> "c"],
            [subject |-> "d", relation |-> "is_true", object |-> "true"],
            [subject |-> "a", relation |-> "satisfies", object |-> "constraints"]}

CaseOf(F, C, gs) ==
    LET facts == SelectSeq(Pool, LAMBDA f : f \in F)
    IN  [EmptyMemory EXCEPT
            !.claims = facts,
            !.schemas = {"is_a"} \cup {facts[i].relation : i \in DOMAIN facts},
            !.transitive = {"is_a"},
            !.constraints = SelectSeq(Limits, LAMBDA c : c \in C),
            !.goals = gs]

PoolFacts == {Pool[i] : i \in DOMAIN Pool}

FactSets == {F \in SUBSET PoolFacts : Cardinality(F) <= MaxFacts}

AllCases ==
    {CaseOf(F, {}, <<g>>) : F \in FactSets, g \in MCGoals}
    \cup {CaseOf(F, C, <<g>>) :
            F \in {G \in FactSets : \E f \in G : f.relation = "equals" /\ f.object = "1"},
            C \in {D \in SUBSET {Limits[1], Limits[2]} :
                      D # {} /\ Cardinality(D) <= MaxConstraints},
            g \in {h \in MCGoals : h.relation = "satisfies"}}
    \cup {CaseOf(F, {}, << >>) : F \in {G \in FactSets : Cardinality(G) <= 1}}

\* A case a fact of which claims to be supported by nothing.
UnbackedCases ==
    {CaseOf({Pool[1], Pool[2]}, {}, <<[subject |-> "a", relation |-> "is_a", object |-> o]>>) :
        o \in {"b", "c", "d"}}
    \cup {[EmptyMemory EXCEPT
            !.claims = <<[Pool[1] EXCEPT !.status = "SUPPORTED"]>>,
            !.schemas = {"is_a"}, !.transitive = {"is_a"},
            !.goals = <<[subject |-> "a", relation |-> "is_a", object |-> "b"]>>]}

Beam(d, w, b) == [backend |-> "beam", depth |-> d, width |-> w, budget |-> b, minScore |-> 0,
                  iterations |-> 0, treeDepth |-> 0, rollout |-> 0]

Tree(i, d, r) == [Beam(0, 1, 0) EXCEPT !.backend = "mcts", !.iterations = i, !.treeDepth = d,
                                       !.rollout = r]

MCConfigs == {Beam(6, 8, 60), Beam(2, 1, 4), Beam(1, 1, 0),
              Tree(6, 4, 2), Tree(4, 2, 1), Tree(2, 0, 0)}

OneConfig == {Beam(6, 4, 500)}

TripleRules(T, trans, rewritable, doubtful) ==
    {<<p[1][1], p[1][2], p[2][3]>> : p \in {q \in T \X T :
        q[1][2] \in trans /\ q[2][2] = q[1][2] /\ q[1][3] = q[2][1]}}
    \cup {<<p[1][1], p[2][2], p[2][3]>> : p \in {q \in T \X T :
        q[1][2] = "equals" /\ q[1] \notin doubtful /\ q[2][2] \in rewritable /\ q[2][1] = q[1][3]}}
    \cup {<<p[2][1], p[2][2], p[1][3]>> : p \in {q \in T \X T :
        q[1][2] = "equals" /\ q[1] \notin doubtful /\ q[2][2] \in rewritable /\ q[2][3] = q[1][1]}}
    \cup {<<p[2][3], "is_true", "true">> : p \in {q \in T \X T :
        q[1][2] = "is_true" /\ q[1] \notin doubtful /\ q[2][2] = "implies" /\ q[1][1] = q[2][1]}}

RECURSIVE Closure(_, _, _)
Closure(T, rewritable, doubtful) ==
    LET more == T \cup TripleRules(T, {"is_a"}, rewritable, doubtful)
    IN  IF more = T THEN T ELSE Closure(more, rewritable, doubtful)

\* The least model of every case, with all rules and with the accepted ones.
LeastModels ==
    LET TriplesOf(F) == {TripleOf(f) : f \in F}
    IN  {Closure(TriplesOf(F), MCRelations \ {"equals"}, {}) : F \in FactSets}
        \cup {Closure(TriplesOf(F), MCRelations \ {"equals", "is_a"},
                      {TripleOf(f) : f \in {g \in F : g.status \notin Accepted}}) : F \in FactSets}

\* Names of their own, so that TLC computes these sets once.
MCInterpretations == LeastModels
MCCases == AllCases
=============================================================================
