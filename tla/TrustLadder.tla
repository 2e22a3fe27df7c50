---------------------------- MODULE TrustLadder ----------------------------
(***************************************************************************)
(* What the trust pipeline decides about a list of claims: the conflict    *)
(* detectors (trust/conflict.py), the clusters and the tier each claim is  *)
(* recommended (trust/promoter.py), and the certification gate             *)
(* (trust/gate.py) with its own detector (conflict/detector.py) and the    *)
(* relation policy (policy/enforcer.py).                                   *)
(*                                                                         *)
(* A tier is its number, T0_CANDIDATE to T7_CONFLICTED; a trust score and  *)
(* a threshold are percents; texts are model data that Fold strips and     *)
(* lowers; Number says which objects read as numbers.                      *)
(***************************************************************************)
EXTENDS Integers, Sequences, FiniteSets, SequencesExt, FiniteSetsExt

CONSTANTS
    Fold(_),        \* a text stripped and in lower case
    Number,         \* the objects that parse as numbers, and their values
    SingleValued    \* relations that conflict/detector.py takes as functional

ASSUME NumberAssumption == Number \in [DOMAIN Number -> Int]

Certified == 5

Deprecated == 6

Conflicted == 7

Tiers == 0..7

Blank == ""

\* The source of a claim, its own or its provenance's, when neither names one.
Missing == "missing"

UnknownSource == "unknown"

\* SourceAuthorityRegistry.score: a source nobody knows counts as unknown.
Score(source) ==
    CASE source = "official_government" -> 95
      [] source = "standards_body"      -> 90
      [] source = "academic_reference"  -> 85
      [] source = "wikidata"            -> 80
      [] source = "wikipedia"           -> 70
      [] source = "local_file"          -> 50
      [] OTHER                          -> 20

\* Days for which a claim of a relation is fresh.
FreshFor(relation) ==
    CASE relation = "price"               -> 1
      [] relation = "current_status"      -> 7
      [] relation = "population"          -> 30
      [] relation \in {"ceo", "president"} -> 14
      [] OTHER                            -> 365

\* Relations that trust/conflict.py takes as functional.
OneObject == {"has_ssn", "has_id", "current_status", "ceo", "president"}

-----------------------------------------------------------------------------
(* Conflicts between claims, a set of them.                                *)

On(claims, subject, relations) ==
    {c \in claims : c.subject = subject /\ c.relation \in relations}

Subjects(claims) == {c.subject : c \in claims}

Objects(claims) == {c.object : c \in claims}

Ids(claims) == {c.id : c \in claims}

Conflict(type, claims) == [type |-> type, affected |-> Ids(claims)]

SeveralObjects(type, claims, relation) ==
    {Conflict(type, On(claims, s, {relation})) :
        s \in {x \in Subjects(claims) : Cardinality(Objects(On(claims, x, {relation}))) > 1}}

EqualityConflicts(claims) == SeveralObjects("EQUALITY", claims, "equals")

FunctionalConflicts(claims) ==
    UNION {SeveralObjects("FUNCTIONAL", claims, r) : r \in OneObject}

Bounds == {">", ">=", "<", "<="}

\* The strongest lower bound exceeds the strongest upper bound, or meets it
\* on a subject that has a strict bound of any value.
RangeEmpty(claims) ==
    LET values(relations) == {Number[c.object] : c \in {d \in claims : d.relation \in relations}}
        low == values({">", ">="})
        high == values({"<", "<="})
    IN  /\ low # {} /\ high # {}
        /\ \/ Max(low) > Min(high)
           \/ Max(low) = Min(high) /\ values({">", "<"}) # {}

RangeConflicts(claims) ==
    LET bounds == {c \in claims : c.relation \in Bounds /\ c.object \in DOMAIN Number}
    IN  {Conflict("RANGE", On(bounds, s, Bounds)) :
            s \in {x \in Subjects(bounds) : RangeEmpty(On(bounds, x, Bounds))}}

\* Only the negated claims are affected.
NegationConflicts(claims) ==
    LET negated(s, o) == {c \in On(claims, s, {"not_is"}) : c.object = o}
    IN  {Conflict("NEGATION", negated(c.subject, c.object)) :
            c \in {d \in claims : d.relation = "is" /\ negated(d.subject, d.object) # {}}}

\* One triple that starts once and ends at two dates.
TemporalConflicts(claims) ==
    LET dated == {c \in claims : c.start # Blank \/ c.end # Blank}
        alike(c) == {d \in On(dated, c.subject, {c.relation}) : d.object = c.object}
        split(c) == \E d, e \in alike(c) : d.start = e.start /\ d.end # e.end
    IN  {Conflict("TEMPORAL", alike(c)) : c \in {d \in dated : split(d)}}

DetectConflicts(claims) ==
    EqualityConflicts(claims) \cup RangeConflicts(claims) \cup NegationConflicts(claims)
        \cup FunctionalConflicts(claims) \cup TemporalConflicts(claims)

-----------------------------------------------------------------------------
(* Clusters of claims that say the same.                                   *)

CanonicalKey(c) ==
    <<Fold(c.subject), Fold(c.relation), Fold(c.object), <<c.start, c.end>>>>

Cluster(claims, key) == {c \in ToSet(claims) : CanonicalKey(c) = key}

Support(cluster) == Cardinality({c.source : c \in cluster})

\* A claim shares the conflicts of every claim of its cluster.
InConflict(claims, cluster) ==
    LET affected == UNION {x.affected : x \in DetectConflicts(ToSet(claims))}
    IN  \E c \in cluster : c.id \in affected

-----------------------------------------------------------------------------
(* The tier a claim is recommended.                                        *)

SourcesNeeded(policy, c) ==
    IF policy.singleSource /\ Score(c.source) >= 90 THEN 1 ELSE policy.minSources

ProofAccepted(policy, c) ==
    /\ c.proofs >= 1
    /\ c.status = "VERIFIED"
    /\ c.confidence # "non_finite"
    /\ (policy.consistency /\ policy.positive) => c.proofs >= policy.minProofs

\* What takes a claim from tier t to the next one.
Rung(t, policy, c, support, conflicted) ==
    CASE t = 0 -> c.source \notin {Blank, Missing}
      [] t = 1 -> Score(c.source) >= policy.threshold
      [] t = 2 -> support >= SourcesNeeded(policy, c) /\ ~conflicted
      [] t = 3 -> ProofAccepted(policy, c)
      [] t = 4 -> ~policy.gauntlet

Climbed(policy, c, support, conflicted) ==
    IF c.tier > Certified THEN c.tier
    ELSE Max({t \in c.tier..Certified :
                \A k \in c.tier..(t - 1) : Rung(k, policy, c, support, conflicted)})

Stale(c) == c.age > FreshFor(c.relation)

\* Mutant: a conflict blocks the climb and changes no tier.
EvaluateClaimBlocked(policy, c, support, conflicted) ==
    LET climbed == Climbed(policy, c, support, conflicted)
    IN  [id |-> c.id, current |-> c.tier, recommended |-> climbed,
         blocked |-> conflicted \/ climbed < Certified \/ Stale(c),
         passed |-> ~conflicted /\ climbed = Certified /\ ~Stale(c)]

\* A climb that stops below T5 names what stopped it.
EvaluateClaim(policy, c, support, conflicted) ==
    LET climbed == Climbed(policy, c, support, conflicted)
        target == IF conflicted THEN Conflicted ELSE climbed
        blocked == climbed < Certified \/ Stale(c)
    IN  [id |-> c.id, current |-> c.tier, recommended |-> target, blocked |-> blocked,
         passed |-> ~blocked /\ target \in {4, Certified}]

\* No tier leads out of T6 or T7, so a deprecated claim in a conflict makes
\* the transition check raise.
Unmovable(claims) ==
    \E c \in ToSet(claims) :
        c.tier = Deprecated /\ InConflict(claims, Cluster(claims, CanonicalKey(c)))

\* promote fills in the source that a row leaves out.
Loaded(claims) ==
    [i \in DOMAIN claims |->
        IF claims[i].source = Missing THEN [claims[i] EXCEPT !.source = UnknownSource]
        ELSE claims[i]]

\* Claim j is judged before claim i: cluster by cluster, and in the order of
\* the file within one.  The clusters, in the code in the order of their
\* keys, are here in the order in which they first occur.
JudgedBefore(claims, j, i) ==
    LET first(k) == Min({n \in DOMAIN claims : CanonicalKey(claims[n]) = CanonicalKey(claims[k])})
    IN  first(j) < first(i) \/ (first(j) = first(i) /\ j < i)

\* The claim that n - 1 others are judged before.
DecisionOn(policy, claims, n) ==
    LET i == CHOOSE i \in DOMAIN claims :
                Cardinality({j \in DOMAIN claims : JudgedBefore(claims, j, i)}) = n - 1
        cluster == Cluster(claims, CanonicalKey(claims[i]))
    IN  EvaluateClaim(policy, claims[i], Support(cluster), InConflict(claims, cluster))

EvaluateClaims(policy, claims) == [n \in 1..Len(claims) |-> DecisionOn(policy, claims, n)]

-----------------------------------------------------------------------------
(* The certification gate.                                                 *)

\* A block wins over an allow, and the default decides the rest.
RelationAllowed(policy, relation) ==
    LET effects == {r.effect : r \in {x \in policy.rules : x.target = relation}}
    IN  \/ "allow" \in effects /\ "block" \notin effects
        \/ effects = {} /\ policy.default = "allow"

\* ConflictDetector.detect: one subject and relation with several objects.
ObjectsDiffer(claims) ==
    \E c, d \in ToSet(claims) :
        /\ c.subject = d.subject /\ c.relation = d.relation /\ c.relation \in SingleValued
        /\ c.object # d.object

WellShaped(c) == Blank \notin {c.subject, c.relation, c.object}

Certifiable(policy, c) ==
    /\ c.tier >= policy.minTier
    /\ c.relation \in policy.relations
    /\ RelationAllowed(policy, c.relation)
    /\ c.source \notin {Blank, Missing} \/ policy.allowMissingSources
    /\ policy.requireProvenance => c.evidence = "complete"

SameTriple(c, d) == <<c.subject, c.relation, c.object>> = <<d.subject, d.relation, d.object>>

\* The verdict of certify_pack on what it reads of a pack: its lifecycle
\* status, its claims and the number of its provenance rows.
GatePasses(policy, lifecycle, claims, provenanceRows) ==
    /\ lifecycle \in policy.statuses
    /\ \A i \in DOMAIN claims :
         /\ WellShaped(claims[i])
         /\ Certifiable(policy, claims[i])
         /\ \A j \in 1..(i - 1) : ~SameTriple(claims[i], claims[j])
    /\ policy.requireProvenance => provenanceRows >= Len(claims)
    /\ policy.allowConflicts \/ ~ObjectsDiffer(claims)

GateStatus(policy, lifecycle, claims, provenanceRows) ==
    IF GatePasses(policy, lifecycle, claims, provenanceRows) THEN "PASSED"
    ELSE IF claims = << >> THEN "FAILED" ELSE "BLOCKED"
=============================================================================
