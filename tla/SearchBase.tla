----------------------------- MODULE SearchBase -----------------------------
(***************************************************************************)
(* What the two search backends of search/*.py share: the case and the     *)
(* limits of a search, its answer, the proposal list of engine.py's        *)
(* CompositeProposer in its order, and the score of a memory.  BeamSearch  *)
(* and MonteCarlo extend this module; a search runs one of them.           *)
(*                                                                         *)
(* A score is in fortieths, like the score of the verifier stack.  The     *)
(* TS3 analyser is not modelled: it only observes, and the one branch in   *)
(* which it skips a child asks for a proposal that leaves the version of   *)
(* the memory as it was, which no built-in proposal does.                  *)
(***************************************************************************)
EXTENDS Proposers, FiniteSets

CONSTANTS
    Cases,           \* initial memories
    Configs,         \* search configurations
    ProposalLimit,   \* max_proposals of either proposer (32)
    NoAnswer,
    Interpretations  \* sets of triples to judge answers against

ASSUME ConfigAssumption ==
    /\ Configs \subseteq [backend : {"beam", "mcts"},
                          depth : Nat, width : Nat \ {0}, budget : Nat, minScore : Nat,
                          iterations : Nat, treeDepth : Nat, rollout : Nat]
    /\ ProposalLimit \in Nat

VARIABLES
    config,     \* SearchConfig
    root,       \* the case
    expanded,   \* nodes_expanded
    answer      \* the result of run()

\* build_search: a search starts with one of the backends.
BaseInit ==
    /\ config \in Configs
    /\ root \in Cases
    /\ expanded = 0
    /\ answer = NoAnswer

Done == answer # NoAnswer

----------------------------------------------------------------------------
(* Proposals, in the order the code makes them.                            *)

\* The pairs of claims in the order of two nested loops over the claims.
ClaimPairs(m) ==
    LET n == Len(m.claims)
    IN  [k \in 1..(n * n) |-> <<((k - 1) \div n) + 1, ((k - 1) % n) + 1>>]

Indices(s) == [k \in 1..Len(s) |-> k]

TransitiveProposals(m) ==
    LET ps == SelectSeq(ClaimPairs(m), LAMBDA p : p \in TransitivePairs(m))
    IN  [k \in DOMAIN ps |-> TransitiveStep(m, ps[k])]

\* One equality and one claim may give two proposals, the subject's first.
EqualityProposals(m) ==
    LET ps == ClaimPairs(m)
        turns == [k \in 1..(2 * Len(ps)) |-> <<ps[(k + 1) \div 2], k % 2 = 1>>]
        used == SelectSeq(turns, LAMBDA t : IF t[2] THEN t[1] \in SubjectPairs(m)
                                                    ELSE t[1] \in ObjectPairs(m))
    IN  [k \in DOMAIN used |-> IF used[k][2] THEN SubjectStep(m, used[k][1])
                                             ELSE ObjectStep(m, used[k][1])]

\* Grouped by subject in the code; no memory that is expanded has any.
ConflictProposals(m) ==
    LET ps == SelectSeq(ClaimPairs(m), LAMBDA p : p \in ConflictPairs(m))
    IN  [k \in DOMAIN ps |-> ConflictStep(ps[k])]

BindProposals(m) ==
    LET is == SelectSeq(Indices(m.claims), LAMBDA i : i \in BindableClaims(m))
    IN  [k \in DOMAIN is |-> BindStep(m, is[k])]

ConstraintProposals(m) ==
    LET ks == SelectSeq(Indices(m.constraints), LAMBDA c : c \in DecidedConstraints(m))
    IN  [k \in DOMAIN ks |-> ConstraintStep(m, ks[k])]

\* In the order of the implications.
ImplicationProposals(m) ==
    LET ps == SelectSeq(ClaimPairs(m), LAMBDA p : <<p[2], p[1]>> \in ImplicationPairs(m))
    IN  [k \in DOMAIN ps |-> ImplicationStep(m, <<ps[k][2], ps[k][1]>>)]

Limited(s, n) == SubSeq(s, 1, IF Len(s) < n THEN Len(s) ELSE n)

Hits(g, t) == t.type = "AddClaim" /\ t.triple = <<g.subject, g.relation, g.object>>

\* Mutant: the proposals that miss the goal are dropped.
GoalOnly(s, m) ==
    IF m.goals = << >> THEN s ELSE SelectSeq(s, LAMBDA t : Hits(m.goals[1], t))

\* _goal_first, a stable sort.
GoalFirst(s, m) ==
    IF m.goals = << >> THEN s
    ELSE SelectSeq(s, LAMBDA t : Hits(m.goals[1], t))
         \o SelectSeq(s, LAMBDA t : ~Hits(m.goals[1], t))

RuleProposals(m) == TransitiveProposals(m) \o EqualityProposals(m) \o ConflictProposals(m)

DomainProposals(m) == BindProposals(m) \o ConstraintProposals(m) \o ImplicationProposals(m)

Proposals(m) ==
    GoalFirst(Limited(RuleProposals(m), ProposalLimit), m)
    \o Limited(DomainProposals(m), ProposalLimit)

\* The limit of a proposer drops proposals of this memory.
Overflows(m) == Len(RuleProposals(m)) > ProposalLimit \/ Len(DomainProposals(m)) > ProposalLimit

----------------------------------------------------------------------------
(* Scores.                                                                 *)

GoalProgress(m) ==
    m.goals # << >> /\ LET g == m.goals[1]
                       IN  \/ Holds(m, g.subject, g.relation, g.object)
                           \/ IsConstraintGoal(g) /\ IsBound(m, g.subject)

\* goal_progress_weight 2, verifier_score_weight 1, contradiction_penalty 5,
\* depth_penalty 1/10, uncertainty_penalty 1/2.
Score(m, depth, verifierScore) ==
    (IF GoalProgress(m) THEN 80 ELSE -20) + verifierScore
    - (IF m.contradictions # {} THEN 200 ELSE 0) - 4 * depth

----------------------------------------------------------------------------
(* Properties of an answer.                                                *)

GivenTriples == Triples(root)

Entails(M) ==
    /\ GivenTriples \subseteq M
    /\ \A a, b \in M :
          /\ a[2] \in root.transitive /\ b[2] = a[2] /\ a[3] = b[1] => <<a[1], a[2], b[3]>> \in M
          /\ a[2] = "equals" /\ b[2] # "equals" =>
                /\ b[1] = a[3] => <<a[1], b[2], b[3]>> \in M
                /\ b[3] = a[1] => <<b[1], b[2], a[3]>> \in M
          /\ a[2] = "is_true" /\ b[2] = "implies" /\ a[1] = b[1] =>
                <<b[3], "is_true", "true">> \in M

GoalTriple == <<root.goals[1].subject, root.goals[1].relation, root.goals[1].object>>

\* A claim the search calls VERIFIED is in every model of the case, and its
\* proof trace bottoms out in facts of the case: nothing on the way from the
\* root to the answer was only assumed by the search.
VerifiedEntailed ==
    Done /\ answer.status = "VERIFIED" /\ ~IsConstraintGoal(root.goals[1]) =>
        /\ \A M \in Interpretations : Entails(M) => GoalTriple \in M
        /\ LET m == answer.judged
               path == DependencyPath(m, ClaimIdOf(m, GoalTriple[1], GoalTriple[2], GoalTriple[3]))
           IN  \A i \in path : m.claims[i].deps = << >> => m.claims[i] = root.claims[i]

\* The triples of the case whose status no rule accepts as a premise.
Doubtful == {TripleOf(root.claims[i]) : i \in {j \in DOMAIN root.claims : ~AcceptedClaim(root, j)}}

\* Closed under the rules as the verifiers let them through: an equality does
\* not rewrite a claim over a transitive relation.
AcceptedEntails(M) ==
    /\ GivenTriples \subseteq M
    /\ \A a, b \in M :
          /\ a[2] \in root.transitive /\ b[2] = a[2] /\ a[3] = b[1] => <<a[1], a[2], b[3]>> \in M
          /\ a[2] = "equals" /\ a \notin Doubtful /\ b[2] \notin root.transitive \cup {"equals"} =>
                /\ b[1] = a[3] => <<a[1], b[2], b[3]>> \in M
                /\ b[3] = a[1] => <<b[1], b[2], a[3]>> \in M
          /\ a[2] = "is_true" /\ a \notin Doubtful /\ b[2] = "implies" /\ a[1] = b[1] =>
                <<b[3], "is_true", "true">> \in M

Consistent(M) == \A a, b \in M : a[2] = "equals" /\ b[2] = "equals" /\ a[1] = b[1] => a[3] = b[3]
=============================================================================
