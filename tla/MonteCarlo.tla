----------------------------- MODULE MonteCarlo -----------------------------
(***************************************************************************)
(* MCTSSearch.run of search/mcts.py: an iteration descends the tree to a   *)
(* node, gives it one child, plays a greedy rollout below that leaf and    *)
(* adds the reward to every node above it.  An action is one turn of a     *)
(* loop of _select, _simulate or run.                                      *)
(*                                                                         *)
(* The weight of UCB1 is a real number; a descent may take any child that  *)
(* no sibling beats at once in mean reward and in few visits, and those    *)
(* are the only ones UCB1 can prefer for some exploration weight.          *)
(***************************************************************************)
EXTENDS SearchBase, FiniteSetsExt

VARIABLES
    turn,        \* "root", "loop", "select", "rollout", "done"; "idle": another backend runs
    tree,        \* the nodes, in the order they were made
    selected,    \* the node _select has come to
    leaf,        \* the node the rollout starts from
    sim,         \* the rollout: its memory, depth, verdict and the moves left
    favourite,   \* best_node and the status of best_eval
    iterations

treeVars == <<turn, tree, selected, leaf, sim, favourite, iterations>>

Terminal == {"VERIFIED", "CONTRADICTORY", "UNSATISFIABLE"}

NoRollout == [mem |-> root, depth |-> 0, status |-> "None", score |-> 0, left |-> 0]

TreeInit ==
    /\ turn = IF config.backend = "mcts" THEN "root" ELSE "idle"
    /\ tree = << >>
    /\ selected = 0 /\ leaf = 0
    /\ sim = NoRollout
    /\ favourite = [at |-> 0, status |-> "None"]
    /\ iterations = 0

\* MCTSNode for a memory m that has been evaluated, with its proposals; the
\* root has parent 0.
NewNode(m, parent, depth) ==
    [mem |-> m, parent |-> parent, depth |-> depth, status |-> Judgement(m),
     untried |-> Proposals(m), visits |-> 0, total |-> 0]

Offspring(k) == {c \in DOMAIN tree : tree[c].parent = k}

\* The node k and the nodes above it.
Lineage(k) ==
    LET above[n \in DOMAIN tree] ==
            {n} \cup (IF tree[n].parent = 0 THEN {} ELSE above[tree[n].parent])
    IN  above[k]

\* _score: the score of a node plus the bonus of the verdict.
Reward(m, depth, score, status) ==
    Score(m, depth, score)
    + (CASE status = "VERIFIED" -> 600
         [] status \in {"CONTRADICTORY", "UNSATISFIABLE"} -> -480
         [] status = "INCONCLUSIVE" -> -10)

\* A leaf is returned with the verdict of the rollout below it.
TreeReturn(k, judged, status) ==
    /\ turn' = "done"
    /\ answer' = [memory |-> tree'[k].mem, judged |-> judged, status |-> status]

EvaluateRoot ==
    /\ turn = "root"
    /\ \E m \in {VerifiedMemory(root)} : \E node \in {NewNode(m, 0, 0)} :
          /\ tree' = <<node>>
          /\ favourite' = [at |-> 1, status |-> node.status]
          /\ \/ node.status = "VERIFIED" /\ TreeReturn(1, node.mem, node.status)
             \/ node.status # "VERIFIED" /\ turn' = "loop" /\ UNCHANGED answer
    /\ UNCHANGED <<config, root, expanded, selected, leaf, sim, iterations>>

BeginIteration ==
    /\ turn = "loop" /\ iterations < config.iterations
    /\ turn' = "select"
    /\ iterations' = iterations + 1
    /\ selected' = 1
    /\ UNCHANGED <<config, root, expanded, answer, tree, leaf, sim, favourite>>

----------------------------------------------------------------------------
(* _select and _expand.                                                    *)

\* The average of total over visits of a is at least that of b.
MeanAtLeast(a, b) == a.total * b.visits >= b.total * a.visits

\* s comes before c whatever the exploration weight; max keeps the first.
Beats(s, c) ==
    /\ MeanAtLeast(tree[s], tree[c]) /\ tree[s].visits <= tree[c].visits
    /\ \/ ~MeanAtLeast(tree[c], tree[s])
       \/ tree[s].visits < tree[c].visits
       \/ s < c

Preferred(k) == {c \in Offspring(k) : ~\E s \in Offspring(k) : Beats(s, c)}

\* A contradictory node is still expanded, as long as it has proposals.
StopsAt(k) ==
    \/ tree[k].status \in Terminal
    \/ tree[k].depth >= config.treeDepth
    \/ tree[k].untried # << >>
    \/ Offspring(k) = {}

Descend ==
    /\ turn = "select" /\ ~StopsAt(selected)
    /\ selected' \in Preferred(selected)
    /\ UNCHANGED <<config, root, expanded, answer, turn, tree, leaf, sim, favourite, iterations>>

BeginRollout(k) ==
    /\ turn' = "rollout"
    /\ leaf' = k
    /\ sim' = [mem |-> tree'[k].mem, depth |-> tree'[k].depth, status |-> tree'[k].status,
               score |-> StackScore(tree'[k].mem), left |-> config.rollout]
    /\ UNCHANGED <<config, root, answer, selected, favourite, iterations>>

Expandable(k) == tree[k].depth < config.treeDepth /\ tree[k].untried # << >>

\* The first untried proposal is used up; an invalid one makes no node.
ExpandNode ==
    /\ turn = "select" /\ StopsAt(selected) /\ Expandable(selected)
    /\ expanded' = expanded + 1
    /\ \E step \in {Head(tree[selected].untried)} :
       \E tried \in {[tree EXCEPT ![selected].untried = Tail(@)]} :
       \E m \in {VerifiedMemory(Applied(tree[selected].mem, step))} :
          IF Valid(tree[selected].mem, step)
          THEN /\ tree' = Append(tried, NewNode(m, selected, tree[selected].depth + 1))
               /\ BeginRollout(Len(tree) + 1)
          ELSE tree' = tried /\ BeginRollout(selected)

KeepNode ==
    /\ turn = "select" /\ StopsAt(selected) /\ ~Expandable(selected)
    /\ UNCHANGED <<expanded, tree>>
    /\ BeginRollout(selected)

----------------------------------------------------------------------------
(* _simulate, _backpropagate and the end of an iteration.                  *)

Moves(m) == SelectSeq(Proposals(m), LAMBDA t : Valid(m, t))

\* What the moves of m lead to, judged.
Outcomes(m) ==
    {[move |-> r.move, mem |-> VerifiedMemory(r.mem), status |-> Judgement(r.mem),
      score |-> StackScore(r.mem)] :
        r \in {[move |-> k, mem |-> Applied(m, Moves(m)[k])] : k \in DOMAIN Moves(m)}}

\* _best_rollout_transition: the first of the outcomes with the best score.
Greedy(outcomes, depth) ==
    LET Gain(o) == Reward(o.mem, depth, o.score, o.status)
        best == {o \in outcomes : \A p \in outcomes : Gain(p) <= Gain(o)}
    IN  CHOOSE o \in best : \A p \in best : o.move <= p.move

RolloutGoesOn ==
    /\ sim.status = "INCONCLUSIVE"
    /\ sim.left > 0 /\ sim.depth < config.treeDepth
    /\ Moves(sim.mem) # << >>

RolloutMove ==
    /\ turn = "rollout" /\ RolloutGoesOn
    /\ \E outcomes \in {Outcomes(sim.mem)} : \E o \in {Greedy(outcomes, sim.depth + 1)} :
          sim' = [mem |-> o.mem, depth |-> sim.depth + 1, status |-> o.status,
                  score |-> o.score, left |-> sim.left - 1]
    /\ UNCHANGED <<config, root, expanded, answer, turn, tree, selected, leaf, favourite,
                   iterations>>

\* Mutant: only the leaf is told.
BackpropagatedLeaf(reward) ==
    [tree EXCEPT ![leaf].visits = @ + 1, ![leaf].total = @ + reward]

Backpropagated(reward) ==
    [k \in DOMAIN tree |->
        IF k \in Lineage(leaf)
        THEN [tree[k] EXCEPT !.visits = @ + 1, !.total = @ + reward]
        ELSE tree[k]]

Rank(status) ==
    CASE status = "VERIFIED" -> 4
      [] status = "INCONCLUSIVE" -> 3
      [] status = "CONTRADICTORY" -> 2
      [] status = "UNSATISFIABLE" -> 1

\* Mutant: a conflict that was met counts as an answer.
IsBetterWorst ==
    \/ Rank(sim.status) < Rank(favourite.status)
    \/ Rank(sim.status) = Rank(favourite.status) /\ MeanAtLeast(tree'[leaf], tree'[favourite.at])

\* _is_better
IsBetter ==
    \/ Rank(sim.status) > Rank(favourite.status)
    \/ Rank(sim.status) = Rank(favourite.status) /\ MeanAtLeast(tree'[leaf], tree'[favourite.at])

EndRollout ==
    /\ turn = "rollout" /\ ~RolloutGoesOn
    /\ tree' = Backpropagated(Reward(sim.mem, sim.depth, sim.score, sim.status))
    /\ \/ sim.status = "VERIFIED" /\ TreeReturn(leaf, sim.mem, "VERIFIED") /\ UNCHANGED favourite
       \/ /\ sim.status # "VERIFIED"
          /\ turn' = "loop"
          /\ favourite' = IF IsBetter THEN [at |-> leaf, status |-> sim.status] ELSE favourite
          /\ UNCHANGED answer
    /\ sim' = NoRollout
    /\ UNCHANGED <<config, root, expanded, selected, leaf, iterations>>

\* The iterations are used up: the best node is judged by itself.
GiveUp ==
    /\ turn = "loop" /\ iterations = config.iterations
    /\ UNCHANGED <<config, root, expanded, tree, selected, leaf, sim, favourite, iterations>>
    /\ \E m \in {tree[favourite.at].mem} : TreeReturn(favourite.at, m, Judgement(m))

TreeNext ==
    \/ EvaluateRoot \/ BeginIteration \/ Descend \/ ExpandNode \/ KeepNode
    \/ RolloutMove \/ EndRollout \/ GiveUp

----------------------------------------------------------------------------
(* Properties.                                                             *)

TreeMemories == {tree[k].mem : k \in DOMAIN tree} \cup {sim.mem}

TreeTypeOK ==
    /\ turn \in {"idle", "root", "loop", "select", "rollout", "done"}
    /\ \A k \in DOMAIN tree :
          /\ tree[k].mem \in Memory /\ tree[k].status \in FinalStatus
          /\ tree[k].parent \in 0..(k - 1) /\ (tree[k].parent = 0 <=> k = 1)
    /\ turn = "done" => Done

\* "MCTS exploration is bounded by iteration count, max depth, and rollout
\* depth": neither the tree nor a rollout goes deeper, and a claim is learned
\* at each step down at most.
TreeBounded ==
    config.backend = "mcts" =>
        /\ expanded <= iterations /\ iterations <= config.iterations
        /\ Len(tree) <= expanded + 1
        /\ \A k \in DOMAIN tree :
              /\ tree[k].depth <= config.treeDepth
              /\ Len(tree[k].mem.claims) <= Len(root.claims) + tree[k].depth
        /\ sim.depth <= config.treeDepth
        /\ leaf # 0 => sim.depth <= tree[leaf].depth + config.rollout

\* The visits of a node are those of its children and at least the one that
\* made it; every finished iteration went through the root, and the nodes of
\* the tree are one per proposal tried.
VisitsAddUp ==
    turn \in {"loop", "select"} =>
        /\ tree[1].visits = (IF turn = "loop" THEN iterations ELSE iterations - 1)
        /\ \A k \in DOMAIN tree :
              /\ MapThenSumSet(LAMBDA c : tree[c].visits, Offspring(k)) + (IF k = 1 THEN 0 ELSE 1)
                 <= tree[k].visits
              /\ Cardinality(Offspring(k)) + Len(tree[k].untried) = Len(Proposals(tree[k].mem))
=============================================================================
