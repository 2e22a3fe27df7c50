------------------------------ MODULE MCTrust ------------------------------
(* TrustPromotion with model values, and properties of its reports.          *)
EXTENDS TrustPromotion

MCFold(text) == IF text = "Cat" THEN "cat" ELSE text

MCNumber == [x \in {"3", "5"} |-> IF x = "3" THEN 3 ELSE 5]

MCSingleValued == {"ceo", "equals"}

MCPolicies ==
    LET default ==
          [threshold |-> 70, minSources |-> 2, consistency |-> TRUE, positive |-> TRUE,
           minProofs |-> 1, gauntlet |-> TRUE, singleSource |-> FALSE,
           minTier |-> 1, statuses |-> {"candidate", "reviewed"},
           relations |-> {"is", "not_is", "equals", "ceo", ">", "<"},
           rules |-> {[target |-> "not_is", effect |-> "block"]}, default |-> "allow",
           allowMissingSources |-> FALSE, requireProvenance |-> TRUE, allowConflicts |-> FALSE]
    IN  {default,
         [default EXCEPT !.singleSource = TRUE, !.gauntlet = FALSE, !.minProofs = 2,
                         !.minTier = 0, !.requireProvenance = FALSE, !.rules = {}]}

\* Claims that support, contradict and neighbour each other.
Statement(id, subject, relation, object) ==
    [id |-> id, subject |-> subject, relation |-> relation, object |-> object,
     start |-> "", end |-> "", source |-> "wikidata", evidence |-> "complete",
     tier |-> 0, status |-> "none", proofs |-> 0, confidence |-> "absent", age |-> 20]

Pool ==
    LET is == Statement("is", "cat", "is", "pet")
    IN  {is,
         [Statement("again", "Cat", "is", "pet") EXCEPT
             !.source = "official_government", !.status = "VERIFIED", !.proofs = 2],
         [is EXCEPT !.id = "not", !.relation = "not_is", !.tier = 5],
         Statement("three", "cat", "equals", "3"),
         [Statement("five", "cat", "equals", "5") EXCEPT !.tier = 3, !.status = "VERIFIED", !.proofs = 1],
         [Statement("old", "cat", "equals", "4") EXCEPT !.tier = 6],
         [Statement("above", "cat", ">", "5") EXCEPT !.source = "official_government",
             !.status = "VERIFIED", !.proofs = 2, !.confidence = "finite"],
         [Statement("below", "cat", "<", "3") EXCEPT !.source = "official_government",
             !.status = "VERIFIED", !.proofs = 2, !.confidence = "non_finite"],
         [Statement("ann", "cat", "ceo", "ann") EXCEPT !.evidence = "none", !.source = "missing"],
         [Statement("bob", "cat", "ceo", "bob") EXCEPT !.tier = 4, !.proofs = 1, !.status = "NO_PROOF"],
         [Statement("until", "cat", "is", "pet") EXCEPT !.start = "1", !.end = "2"],
         [Statement("after", "cat", "is", "pet") EXCEPT !.start = "1", !.end = "3"],
         Statement("blank", "", "is", "pet")}

PackOf(lifecycle, claims, rows) == [lifecycle |-> lifecycle, claims |-> claims, rows |-> rows]

\* Every pack of at most two claims, and the pack several processes work on.
Busy == PackOf("candidate", <<Statement("is", "cat", "is", "pet"), Statement("three", "cat", "equals", "3")>>, 2)

MCPacks ==
    {Busy} \cup
    {PackOf(l, << c >>, r) : l \in {"candidate", "certified"}, c \in Pool, r \in 0..1} \cup
    {PackOf("candidate", <<c, d>>, 2) : c, d \in Pool}

MCAdded == {Statement("five", "cat", "equals", "5")}

\* Two processes meet on the busy pack; the others see one command.
OnlyBusyShared == pack.claims = Busy.claims \/ pack.claims = Append(Busy.claims, CHOOSE c \in MCAdded : TRUE)
    \/ count.commands + count.added + count.crashes <= 1

-----------------------------------------------------------------------------
\* promoter.py says of T4 and T5 "Unconditional invariant: proof_count >= 1 +
\* VERIFIED always required for T4/T5".
ProofBehindTopTiers ==
    \A i \in DOMAIN report.trust.of :
        \A x \in ToSet(report.trust.decisions) :
            (x.id = report.trust.of[i].id /\ x.recommended \in {4, Certified}) =>
                report.trust.of[i].proofs >= 1 /\ report.trust.of[i].status = "VERIFIED"
=============================================================================
