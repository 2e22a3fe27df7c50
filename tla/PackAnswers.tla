---------------------------- MODULE PackAnswers ----------------------------
(***************************************************************************)
(* Questions asked of a pack (vcse ask --pack, planned or not) and what is *)
(* inferred of it and promoted to a pack of its own (vcse infer promote),  *)
(* while the pack is edited and compressed in place.  A question is what   *)
(* the fixed patterns make of its text; a text none of them matches goes   *)
(* to a session.  The claims come from the compressed files, which are     *)
(* not validated, or from claims.jsonl (a runtime store that is valid      *)
(* holds the same: RuntimeStore); a planned question is first asked of the *)
(* runtime store, which need only exist.                                   *)
(***************************************************************************)
EXTENDS PackCompression, FiniteSetsExt

CONSTANTS
    Inquiries,       \* the questions
    Benchmarks       \* claims a benchmark file names often enough

\* normalize_query: what its patterns can ask for, with an object only in
\* the two questions for a class.
Normalizes(q) ==
    /\ q.relation \in {"capital_of", "located_in_country", "part_of", "uses_currency", "language_of",
                       "has_country_code", "located_in_region", "located_in_subregion", "instance_of"}
    /\ q.relation = "instance_of" <=> q.object \in {"City", "Country"}

ASSUME InquiriesNormalized == \A q \in Inquiries : q.kind = "normalized" => Normalizes(q)

VARIABLES
    compiled,    \* the rows of the runtime store, or None
    promoted,    \* the pack of promoted claims
    told         \* the last answer

answerVars == <<sheet, pressed, typist, editions, spent, compiled, promoted, told>>

None == << <<"none">> >>

NoAnswerYet == [kind |-> "none"]

NoPack == [made |-> FALSE]

-----------------------------------------------------------------------------
(* Inference over loaded claims. *)

Usable(rows) == {row \in ToSet(rows) : WellFormed(row)}

\* infer_inverse_claims: of the two relations that have an inverse, one is
\* its own.
InferInverse(claims) ==
    {[claim |-> <<c[3], "capital_of", c[1]>>, from |-> <<c>>, by |-> "inverse"] :
        c \in {c \in claims : c[2] = "has_capital" /\ <<c[3], "capital_of", c[1]>> \notin claims}}

\* Mutant: any two located claims chain.
ChainsAnywhere(a, b) == a[2] = "located_in_country" /\ Lower[b[2]] \in {"part_of", "located_in_region"}

\* infer_transitive_claims: two hops, and case matters for the first only.
ChainsTo(a, b) ==
    /\ a[2] = "located_in_country" /\ Lower[b[2]] \in {"part_of", "located_in_region"}
    /\ Lower[b[1]] = Lower[a[3]]

InferTransitive(claims) ==
    {[claim |-> <<p[1][1], "located_in_region", p[2][3]>>, from |-> p, by |-> "transitive"] :
        p \in {q \in claims \X claims :
                 ChainsTo(q[1], q[2]) /\ <<q[1][1], "located_in_region", q[2][3]>> \notin claims}}

Inferred(claims) == InferInverse(claims) \cup InferTransitive(claims)

SameClaim(c, d) == \A f \in 1..3 : Lower[c[f]] = Lower[d[f]]

\* What a subject is said to have, stated or else inferred.
Stated(claims, subject, relations) ==
    {c[3] : c \in {c \in claims : Lower[c[1]] = Lower[subject] /\ Lower[c[2]] \in relations}}

Values(claims, subject, relation) ==
    LET explicit == Stated(claims, subject, {relation})
    IN  IF explicit # {} THEN explicit
        ELSE Stated({i.claim : i \in Inferred(claims)}, subject, {relation})

-----------------------------------------------------------------------------
(* The stages of run_ask.  A stage gives its answers, or none. *)

GivenFact(claim, how) == [claim |-> claim, how |-> how]

\* The one value there is.
Single(values) == IF Cardinality(values) = 1 THEN values ELSE {}

\* _run_continent_lookup and _run_inverse_capital_fact_lookup: one object
\* stated, whatever relation states it, or else one inferred.
Lookup(claims, subject, relations, target, inferred) ==
    LET stated == Single(Stated(claims, subject, relations))
        found == {i \in inferred : Lower[i.claim[1]] = Lower[subject] /\ i.claim[2] = target}
    IN  IF stated # {} THEN {GivenFact(<<subject, target, o>>, "explicit") : o \in stated}
        ELSE {GivenFact(i.claim, i.by) : i \in {i \in found : Cardinality({j.claim : j \in found}) = 1}}

\* _goal_from_boolean_capital_query: stated either way round, or inferred.
CapitalCheck(claims, city, country) ==
    LET says(c) == \/ SameClaim(c, <<city, "capital_of", country>>)
                   \/ SameClaim(c, <<country, "has_capital", city>>)
        stated == {c \in claims : says(c)}
    IN  IF stated # {} THEN {GivenFact(c, how) : c \in stated, how \in {"explicit", "unknown"}}
        ELSE {GivenFact(i.claim, "inverse") : i \in {i \in InferInverse(claims) : says(i.claim)}}

\* _goal_from_normalized_query: relations with another to fall back on.
Fallbacks(relation) ==
    CASE relation = "capital_of" -> <<"has_capital">>
      [] relation = "located_in_country" -> <<"located_in_country", "capital_of">>
      [] relation = "part_of" -> <<"part_of", "located_in_continent">>
      [] OTHER -> <<relation>>

NormalizedGoals(claims, q) ==
    LET tries == Fallbacks(q.relation)
        direct(r) == {<<q.subject, r, o>> : o \in Single(Values(claims, q.subject, r))}
        hits == {n \in DOMAIN tries : direct(tries[n]) # {}}
        countries == Single(Stated({i.claim : i \in Inferred(claims)}, q.subject, {"capital_of"}))
        speakers == {c[1] : c \in {c \in claims : Lower[c[2]] = "language_of" /\ SameClaim(c, <<c[1], c[2], q.subject>>)}}
        kinds == IF q.object = "City" THEN <<"city", "capital city">> ELSE <<"country">>
        classes == Values(claims, q.subject, "instance_of")
        named == {n \in DOMAIN kinds : \E o \in classes : Lower[o] = kinds[n]}
    IN  CASE q.relation = "language_of" -> {<<l, "language_of", q.subject>> : l \in Single(speakers)}
          [] q.relation = "instance_of" ->
               {<<q.subject, "instance_of", o>> : o \in {o \in classes : named # {} /\ Lower[o] = kinds[Min(named)]}}
          [] hits # {} -> direct(tries[Min(hits)])
          [] hits = {} /\ q.relation = "capital_of" -> {<<c, "has_capital", q.subject>> : c \in countries}
          [] OTHER -> {}

\* QueryPlanner.plan and QueryExecutor.execute over the store: the subject as
\* it is written, the least of several objects (here any), and a region
\* inferred in two hops for what is part of another.
PlannedRelations ==
    {"has_capital", "located_in_country", "located_in_region", "part_of", "uses_currency", "language_of", "has_country_code"}

\* RuntimeStore.get_claim_with_metrics: to the letter.
StoreClaims(rows, subject, relation) == {c \in ToSet(rows) : c[1] = subject /\ c[2] = relation}

PlannedFacts(rows, q) ==
    LET relation == IF q.relation = "capital_of" THEN "has_capital" ELSE q.relation
        stated == StoreClaims(rows, q.subject, relation)
        seeded == StoreClaims(rows, q.subject, "located_in_country") # {}
        regions == {i.claim : i \in {i \in InferTransitive(ToSet(rows)) : Lower[i.claim[1]] = Lower[q.subject]}}
    IN  CASE relation \notin PlannedRelations -> {}
          [] relation \in PlannedRelations /\ stated # {} -> {GivenFact(c, "explicit") : c \in stated}
          [] relation \in {"located_in_region", "part_of"} /\ stated = {} /\ seeded ->
               {GivenFact(c, "explicit") : c \in regions}
          [] OTHER -> {}

\* The first stage with an answer gives it; the last gives the question to a
\* session, which is not told the goal.
StagesOf(claims, q) ==
    CASE q.kind = "continent" ->
           Lookup(claims, q.subject, {"part_of", "located_in_region"}, "located_in_region", InferTransitive(claims))
      [] q.kind = "capital of what" ->
           Lookup(claims, q.subject, {"capital_of"}, "capital_of", InferInverse(claims))
      [] q.kind = "is capital" -> CapitalCheck(claims, q.subject, q.object)
      [] q.kind = "normalized" -> {GivenFact(g, "unknown") : g \in NormalizedGoals(claims, q)}
      [] OTHER -> {}

-----------------------------------------------------------------------------
AnswerInit ==
    /\ CompressionInit
    /\ compiled = None /\ promoted = NoPack /\ told = NoAnswerYet

KeepFiles == UNCHANGED <<sheet, pressed, editions, spent>>

\* vcse pack compile-runtime, as a whole: RuntimeStore has its steps.
CompileStore ==
    /\ compiled # sheet /\ Begin
    /\ compiled' = sheet /\ told' = NoAnswerYet
    /\ UNCHANGED <<sheet, pressed, editions, typist, promoted>>

\* PackActivator.activate: the table first, if both files are there, or else
\* the rows.
Activate(t, op, seen, stable) ==
    LET squeezed == pressed["table"].kind # "missing" /\ pressed["encoded"].kind # "missing"
        reader == [op |-> op, seen |-> seen, stable |-> stable, step |-> "claims", table |-> pressed["table"],
                   rows |-> None, mixed |-> FALSE, cut |-> FALSE]
    IN  typist' = [typist EXCEPT ![t] =
          IF squeezed /\ pressed["table"].kind = "whole" THEN reader
          ELSE [reader EXCEPT !.step = "loaded", !.table = Missing, !.rows = sheet]]

\* CompressedRuntimeIndex.iter_claims: an empty or garbled file fails, and
\* the rows are loaded after all.
LoadClaims(t) ==
    LET j == typist[t]
        encoded == pressed["encoded"]
        loads == encoded.kind = "whole" /\ encoded.lines > 0
    IN  /\ j.op \in {"ask", "promote"} /\ j.step = "claims"
        /\ typist' = [typist EXCEPT ![t] =
             [j EXCEPT !.step = "loaded", !.rows = IF loads THEN Decoded(j.table, encoded) ELSE sheet,
                       !.mixed = loads /\ j.table.of # encoded.of,
                       !.cut = loads /\ encoded.lines < LinesOf("encoded", encoded.of)]]
        /\ told' = NoAnswerYet
        /\ KeepFiles /\ UNCHANGED <<compiled, promoted>>

Inquire(t) ==
    /\ typist[t] = Unemployed /\ Begin
    /\ told' = NoAnswerYet
    /\ UNCHANGED <<sheet, pressed, editions, compiled, promoted>>

\* vcse ask: the pack is activated.
Ask(t) == Inquire(t) /\ Activate(t, "ask", << >>, {})

Tell(t, answer) ==
    /\ told' = answer
    /\ typist' = [typist EXCEPT ![t] = Unemployed]
    /\ KeepFiles /\ UNCHANGED <<compiled, promoted>>

\* run_ask: the planned store if it is there, or the stages.
Respond(t) ==
    LET j == typist[t]
        claims == Usable(j.rows)
    IN  /\ j.op = "ask" /\ j.step = "loaded"
        /\ \E q \in Inquiries, planned \in BOOLEAN :
             LET stored == IF planned /\ compiled # None /\ q.kind = "normalized"
                           THEN PlannedFacts(compiled, q) ELSE {}
                 facts == StagesOf(claims, q)
                 answer(f) == [kind |-> "fact", claim |-> f.claim, how |-> f.how, planned |-> stored # {},
                               mixed |-> j.mixed /\ stored = {}, cut |-> j.cut /\ stored = {}]
             IN  IF stored \cup facts = {} THEN Tell(t, [kind |-> "session"])
                 ELSE \E f \in (IF stored # {} THEN stored ELSE facts) : Tell(t, answer(f))

\* vcse infer promote: what the benchmark names and only inference resolves.
Promote(t) == Inquire(t) /\ Activate(t, "promote", None, {})

\* classify_resolution_for_claim, in either case of letters.
Classified(claims, c) ==
    {i.by : i \in {i \in Inferred(claims) : SameClaim(i.claim, c) /\ \A d \in claims : ~SameClaim(d, c)}}

\* _collect_inference_observations; then the pack is activated once more.
Observe(t) ==
    LET j == typist[t]
        claims == Usable(j.rows)
        by(c) == IF "inverse" \in Classified(claims, c) THEN "inverse" ELSE "transitive"
    IN  /\ j.op = "promote" /\ j.step = "loaded" /\ j.seen = None
        /\ \E wanted \in Benchmarks :
             Activate(t, "promote", j.rows,
                      {[claim |-> c, by |-> by(c)] : c \in {d \in wanted : Classified(claims, d) # {}}})
        /\ told' = NoAnswerYet
        /\ KeepFiles /\ UNCHANGED <<compiled, promoted>>

\* run_infer_promote: the sources are looked up in the second load, under
\* the very key the benchmark has; without them the claim is promoted too.
SourcesOf(claims, s) ==
    LET sources == {i.from : i \in {k \in Inferred(claims) : k.claim = s.claim /\ k.by = s.by}}
    IN  IF sources = {} THEN {<< >>} ELSE sources

Sourced(claims, stable) ==
    UNION {{[claim |-> s.claim, by |-> s.by, from |-> from] : from \in SourcesOf(claims, s)} : s \in stable}

\* build_pack_from_promoted_claims: the directory must be new.
MakePromoted(t) ==
    LET j == typist[t]
    IN  /\ j.op = "promote" /\ j.step = "loaded" /\ j.seen # None
        /\ IF promoted.made THEN Tell(t, [kind |-> "exists"])
           ELSE \E list \in {l \in SUBSET Sourced(Usable(j.rows), j.stable) :
                              /\ \A x, y \in l : x.claim = y.claim => x = y
                              /\ {x.claim : x \in l} = {s.claim : s \in j.stable}} :
                  /\ promoted' = [made |-> TRUE, claims |-> None, provenance |-> None, meta |-> FALSE,
                                  of |-> {j.seen, j.rows}]
                  /\ typist' = [typist EXCEPT ![t] = [op |-> "fill", file |-> "claims", list |-> list]]
                  /\ told' = NoAnswerYet
                  /\ KeepFiles /\ UNCHANGED compiled

\* Its files follow; pack.json is the third.
FillPromoted(t) ==
    LET j == typist[t]
    IN  /\ j.op = "fill"
        /\ CASE j.file = "claims" -> promoted' = [promoted EXCEPT !.claims = j.list]
             [] j.file = "provenance" -> promoted' = [promoted EXCEPT !.provenance = j.list]
             [] j.file = "meta" -> promoted' = [promoted EXCEPT !.meta = TRUE]
        /\ typist' = [typist EXCEPT ![t] =
             CASE j.file = "claims" -> [j EXCEPT !.file = "provenance"]
               [] j.file = "provenance" -> [j EXCEPT !.file = "meta"]
               [] j.file = "meta" -> Unemployed]
        /\ told' = NoAnswerYet
        /\ KeepFiles /\ UNCHANGED compiled

KillPromoter(t) ==
    /\ typist[t].op = "fill" /\ spent.kills < MaxKills
    /\ typist' = [typist EXCEPT ![t] = Unemployed]
    /\ spent' = [spent EXCEPT !.kills = @ + 1]
    /\ told' = NoAnswerYet
    /\ UNCHANGED <<sheet, pressed, editions, compiled, promoted>>

\* All jobs there are, up to the bound, are done.
Rest ==
    /\ spent.jobs = MaxJobs /\ typist = [t \in Typists |-> Unemployed]
    /\ UNCHANGED answerVars

AnswerNext ==
    \/ CompressionNext /\ told' = NoAnswerYet /\ UNCHANGED <<compiled, promoted>>
    \/ CompileStore \/ Rest
    \/ \E t \in Typists :
         \/ Ask(t) \/ LoadClaims(t) \/ Respond(t)
         \/ Promote(t) \/ Observe(t) \/ MakePromoted(t) \/ FillPromoted(t) \/ KillPromoter(t)

AnswerSpec == AnswerInit /\ [][AnswerNext]_answerVars

-----------------------------------------------------------------------------
\* A claim is one of a set, or follows of one or two of it by one rule.
Backs(from, claim) ==
    \/ Len(from) = 1 /\ from[1][2] = "has_capital" /\ claim = <<from[1][3], "capital_of", from[1][1]>>
    \/ /\ Len(from) = 2
       /\ from[1][2] = "located_in_country" /\ Lower[from[2][2]] \in {"part_of", "located_in_region"}
       /\ Lower[from[1][3]] = Lower[from[2][1]]
       /\ claim = <<from[1][1], "located_in_region", from[2][3]>>

Follows(claims, claim) ==
    LET lowered(c) == [f \in 1..3 |-> Lower[c[f]]]
        given == {lowered(c) : c \in claims}
    IN  \/ lowered(claim) \in given
        \/ \E c \in given : Backs(<<c>>, lowered(claim))
        \/ \E c, d \in given : Backs(<<c, d>>, lowered(claim))

\* What rows say, as they are or in canonical form.
Says(rows, claim) == Follows(Usable(rows), claim) \/ Follows(ToSet(Canonicals(rows)), claim)

\* Either name of being in a region, and either way to be a capital.
Reworded(c) ==
    {c, <<c[1], "part_of", c[3]>>}
    \cup (IF c[2] = "has_capital" THEN {<<c[3], "capital_of", c[1]>>} ELSE {})

\* An answer that run_ask gives as a fact is a claim of the pack or follows
\* of its claims by one rule, and of those it had at one time: through the
\* numbers of a compression made long ago, the store of a planned question,
\* which nobody validates and which has the malformed rows too, and a pack
\* edited between two reads; except when table and numbers are of two
\* compressions.  What it calls explicit or unknown the pack may only imply,
\* what it calls inferred by a rule the pack did not state then, unless the
\* numbers were cut before the row that does.  And a promoted pack that has
\* its pack.json is whole, each of its claims inferable from what the pack
\* was at one of the two reads, and the sources it names are claims of the
\* pack that imply it by that rule (inference/promotion.py).
FactsComeFromPack ==
    /\ (told.kind = "fact" /\ ~told.mixed) =>
         \E v \in editions :
            /\ \E c \in Reworded(told.claim) : Says(v, c) \/ (told.planned /\ Follows(ToSet(v), c))
            /\ (told.how \in {"inverse", "transitive"} /\ ~told.cut) => told.claim \notin Usable(v)
    /\ (promoted.made /\ promoted.meta) =>
         /\ promoted.claims = promoted.provenance
         /\ \A x \in promoted.claims :
              /\ \E rows \in promoted.of : Follows(Usable(rows), x.claim)
              /\ x.from # << >> =>
                   /\ Backs(x.from, x.claim)
                   /\ \E rows \in promoted.of : ToSet(x.from) \subseteq Usable(rows)
=============================================================================
