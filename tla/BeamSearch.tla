----------------------------- MODULE BeamSearch -----------------------------
(***************************************************************************)
(* BeamSearch.run of search/beam.py: one thread, an action is one turn of  *)
(* one of its three nested loops.                                          *)
(***************************************************************************)
EXTENDS SearchBase

VARIABLES
    phase,      \* "level", "visit", "expand", "done", or "idle": another backend runs
    frontier,   \* the nodes of the level, those still to visit
    current,    \* the node being expanded
    todo,       \* its proposals still to apply
    next,       \* next_frontier
    best,       \* the best node so far
    cut         \* history: some limit has discarded a node or a proposal

beamVars == <<phase, frontier, current, todo, next, best, cut>>

\* SearchNode; a node that was never judged has no terminal_status.
Node == [mem : Memory, score : Int, depth : Nat, status : FinalStatus \cup {"None"}]

\* A node after the stack has judged its memory.
Judged(m, depth) ==
    [mem |-> VerifiedMemory(m), score |-> Score(VerifiedMemory(m), depth, StackScore(m)),
     depth |-> depth, status |-> Judgement(m)]

\* Stable sort by falling score.
Ranked(s) ==
    LET Before(i, j) == s[i].score > s[j].score \/ (s[i].score = s[j].score /\ i < j)
        rank == [j \in DOMAIN s |-> Cardinality({i \in DOMAIN s : Before(i, j)}) + 1]
    IN  [r \in DOMAIN s |-> s[CHOOSE j \in DOMAIN s : rank[j] = r]]

----------------------------------------------------------------------------
(* The search.                                                             *)

RootNode(c) == [mem |-> c, score |-> Score(c, 0, 40), depth |-> 0, status |-> "None"]

BeamInit ==
    /\ phase = IF config.backend = "beam" THEN "level" ELSE "idle"
    /\ frontier = <<RootNode(root)>>
    /\ current = RootNode(root)
    /\ todo = << >>
    /\ next = << >>
    /\ best = RootNode(root)
    /\ cut = FALSE

\* Mutant: the best node is returned with the verdict on another one.
ReturnBest(n) ==
    /\ phase' = "done"
    /\ answer' = [memory |-> best.mem, judged |-> best.mem, status |-> n.status]

Return(n) ==
    /\ phase' = "done"
    /\ answer' = [memory |-> n.mem, judged |-> n.mem, status |-> n.status]

\* Mutant: one node too many.
AffordableLate == expanded <= config.budget

Affordable == expanded < config.budget

\* Mutant: an empty level is searched too.
AnotherLevelAlways == Affordable

AnotherLevel == frontier # << >> /\ Affordable

BeginLevel ==
    /\ phase = "level"
    /\ AnotherLevel
    /\ phase' = "visit"
    /\ next' = << >>
    /\ UNCHANGED <<config, root, frontier, current, todo, best, expanded, cut, answer>>

\* Visiting: the node at the head of the level is judged once more, as n.
\* The best node may be that very node, and then changes with it.
BestAfterVisit(n) ==
    LET known == IF best = Head(frontier) THEN n ELSE best
    IN  IF n.score > known.score THEN n ELSE known

VisitVerified(n) ==
    /\ n.status = "VERIFIED"
    /\ best' = n
    /\ Return(n)
    /\ UNCHANGED <<config, root, current, todo, next, expanded, cut>>

\* Contradictory nodes and nodes at the depth limit are not expanded.
SkipConflicted(n) ==
    /\ n.status \in {"CONTRADICTORY", "UNSATISFIABLE"}
    /\ best' = BestAfterVisit(n)
    /\ UNCHANGED <<config, root, phase, current, todo, next, expanded, cut, answer>>

SkipDeep(n) ==
    /\ n.status = "INCONCLUSIVE" /\ n.depth >= config.depth
    /\ best' = BestAfterVisit(n)
    /\ cut' = (cut \/ Proposals(n.mem) # << >>)
    /\ UNCHANGED <<config, root, phase, current, todo, next, expanded, answer>>

Propose(n) ==
    /\ n.status = "INCONCLUSIVE" /\ n.depth < config.depth
    /\ phase' = "expand"
    /\ best' = BestAfterVisit(n)
    /\ current' = n
    /\ todo' = Proposals(n.mem)
    /\ cut' = (cut \/ Overflows(n.mem))
    /\ UNCHANGED <<config, root, next, expanded, answer>>

Visit ==
    /\ phase = "visit" /\ frontier # << >>
    /\ frontier' = Tail(frontier)
    /\ \E n \in {Judged(Head(frontier).mem, Head(frontier).depth)} :
          VisitVerified(n) \/ SkipConflicted(n) \/ SkipDeep(n) \/ Propose(n)

\* A child c survives when its transition was valid, the whole stack passed
\* and nothing contradicts it.
Keeps(c) ==
    /\ Valid(current.mem, Head(todo))
    /\ StackPassed(c.mem)
    /\ c.status \notin {"CONTRADICTORY", "UNSATISFIABLE"}
    /\ StackScore(c.mem) >= config.minScore

Drop(c) ==
    /\ ~Keeps(c)
    /\ cut' = (cut \/ (StackPassed(c.mem) /\ StackScore(c.mem) < config.minScore))
    /\ UNCHANGED <<phase, next, answer>>

Keep(c) ==
    /\ Keeps(c) /\ c.status = "INCONCLUSIVE"
    /\ next' = Append(next, c)
    /\ UNCHANGED <<phase, cut, answer>>

ChildVerified(c) ==
    /\ Keeps(c) /\ c.status = "VERIFIED"
    /\ Return(c)
    /\ UNCHANGED <<next, cut>>

\* One proposal is applied to the node, and its outcome is judged at once.
Expand ==
    /\ phase = "expand" /\ todo # << >> /\ Affordable
    /\ expanded' = expanded + 1
    /\ todo' = Tail(todo)
    /\ UNCHANGED <<config, root, frontier, current, best>>
    /\ \E m \in {Applied(current.mem, Head(todo))} : \E c \in {Judged(m, current.depth + 1)} :
          Drop(c) \/ Keep(c) \/ ChildVerified(c)

\* The budget ends this loop only: the other nodes of the level are visited.
ExpandEnd ==
    /\ phase = "expand"
    /\ todo = << >> \/ ~Affordable
    /\ phase' = "visit"
    /\ todo' = << >>
    /\ cut' = (cut \/ todo # << >>)
    /\ UNCHANGED <<config, root, frontier, current, next, best, expanded, answer>>

EndLevel ==
    /\ phase = "visit" /\ frontier = << >>
    /\ phase' = "level"
    /\ \E level \in {Limited(Ranked(next), config.width)} :
          /\ frontier' = level
          /\ best' = IF level # << >> /\ Head(level).score > best.score THEN Head(level) ELSE best
    /\ next' = << >>
    /\ cut' = (cut \/ Len(next) > config.width)
    /\ UNCHANGED <<config, root, current, todo, expanded, answer>>

\* Nothing left to visit, or no budget: the best node is judged once more.
Finish ==
    /\ phase = "level" /\ ~AnotherLevel
    /\ \E n \in {[Judged(best.mem, best.depth) EXCEPT !.score = best.score]} :
          best' = n /\ Return(n)
    /\ cut' = (cut \/ frontier # << >>)
    /\ UNCHANGED <<config, root, frontier, current, todo, next, expanded>>

BeamNext == BeginLevel \/ Visit \/ Expand \/ ExpandEnd \/ EndLevel \/ Finish

----------------------------------------------------------------------------
(* Properties.                                                             *)

\* Every node the search still holds.
NodesHeld ==
    {frontier[k] : k \in DOMAIN frontier} \cup {next[k] : k \in DOMAIN next} \cup {current, best}

BeamTypeOK ==
    /\ phase \in {"idle", "level", "visit", "expand", "done"}
    /\ NodesHeld \subseteq Node
    /\ \A k \in DOMAIN todo : todo[k].type \in {"AddClaim", "BindSymbol", "AddEvidence",
                                               "RecordContradiction"}
    /\ cut \in BOOLEAN
    /\ phase = "done" => Done

\* "Search is always bounded by depth, beam width, and node expansion limits":
\* and so is what it can learn, one claim per step down.
BeamBounded ==
    config.backend = "beam" =>
        /\ expanded <= config.budget
        /\ phase = "level" => Len(frontier) <= config.width
        /\ \A n \in NodesHeld :
              /\ n.depth <= config.depth
              /\ Len(n.mem.claims) <= Len(root.claims) + n.depth

\* Completeness within the limits: when the search gives up on a case that is
\* itself clean, and no limit ever cut anything off, then the goal does not
\* follow by the rules the verifiers accept (or the case entails a conflict).
Complete ==
    phase = "done" /\ answer.status = "INCONCLUSIVE" /\ ~cut /\ StackPassed(root) /\ root.goals # << >> =>
        \/ IsConstraintGoal(root.goals[1])
        \/ GoalTriple \in Doubtful
        \/ \E M \in Interpretations :
              AcceptedEntails(M) /\ (GoalTriple \notin M \/ ~Consistent(M))
=============================================================================
