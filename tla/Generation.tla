----------------------------- MODULE Generation -----------------------------
(***************************************************************************)
(* Making an artifact of a specification (generation/*.py): each template  *)
(* of its type makes a candidate, a candidate that fails is repaired with  *)
(* other templates, and the best of them is the answer.                    *)
(*                                                                         *)
(* A body is the fields it has placeholders for, the keys it has and the   *)
(* words of its own that a criterion may be met by.  A template's rank is  *)
(* its number by priority and name, its place the one by name alone.       *)
(***************************************************************************)
EXTENDS Integers, FiniteSets

CONSTANTS
    Specs,        \* what may be asked for
    Shelf         \* the templates

\* All of them are read from files.
ASSUME GenerationAssumption ==
    /\ IsFiniteSet(Shelf)
    /\ \A t \in Shelf : t.rank \in Int /\ t.place \in Int /\ IsFiniteSet(t.present)
    /\ \A s \in Specs :
          /\ IsFiniteSet(DOMAIN s.fields) /\ IsFiniteSet(DOMAIN s.defaults)
          /\ IsFiniteSet(s.present) /\ IsFiniteSet(s.criteria)

VARIABLES artifact, output   \* the last result, and the file it was written to

generationVars == <<artifact, output>>

NoArtifact == [answer |-> [status |-> "none"]]

-----------------------------------------------------------------------------
\* _select_templates: a specification that names none allows them all.
Selected(spec) ==
    {t \in Shelf : t.type = spec.type /\ (spec.allowed # {} => t.name \in spec.allowed)}

\* GenerationSpec.validate: the fields that are blank.
Blank(spec) == {f \in DOMAIN spec.fields : spec.fields[f] = "blank"}

Lacks(t, spec) == t.required \ DOMAIN spec.fields

\* A candidate: the template, the fields it counts as used, and those its
\* content was made with.
Candidate(t, fields) == [template |-> t, used |-> fields, made |-> fields]

\* _render_string: a placeholder whose field is not there stays as it is.
Unfilled(a) == a.template.shown \ DOMAIN a.made

WordsOf(a) == a.template.words \cup {a.made[f] : f \in a.template.shown \cap DOMAIN a.made}
              \cup {a.used[f] : f \in DOMAIN a.used} \cup DOMAIN a.used

\* evaluate_constraints, success criteria and _type_specific_violations; a
\* default is a constraint no one knows, so it is a violation
\* itself.
Violations(a, spec) ==
    LET t == a.template
        needs == CASE t.type = "plan" -> {"steps", "preconditions", "effects"}
                   [] t.type = "config" -> DOMAIN spec.fields
                   [] t.type = "policy" -> {"sections"}
                   [] OTHER -> {"code"}
    IN  {<<"template field", f>> : f \in t.present \ DOMAIN a.used}
        \cup {<<"field", f>> : f \in spec.present \ DOMAIN a.used}
        \cup {<<"unsupported", f>> : f \in DOMAIN spec.defaults}
        \cup {<<"criterion", w>> : w \in spec.criteria \ WordsOf(a)}
        \cup {<<"content", k>> : k \in needs \ t.keys}

Satisfied(a, spec) ==
    Cardinality(a.template.present \cap DOMAIN a.used) + Cardinality(spec.present \cap DOMAIN a.used)
    + Cardinality(spec.criteria \cap WordsOf(a))

\* _detect_contradiction: only of an equality, and with the memory's text.
Contradicts(a, known) ==
    /\ {"subject", "relation", "object"} \subseteq DOMAIN a.used
    /\ a.used["relation"] = "equals"
    /\ \E k \in known : k[1] = a.used["subject"] /\ k[2] = "equals" /\ k[3] # a.used["object"]

\* ArtifactEvaluator.evaluate of what was made of a template.
ArtifactStatus(a, spec) ==
    CASE Contradicts(a, spec.known) -> "CONTRADICTORY_ARTIFACT"
      [] ~Contradicts(a, spec.known) /\ spec.type = "simple_code" /\ "tests" \in DOMAIN spec.fields -> "INCONCLUSIVE_ARTIFACT"
      [] ~Contradicts(a, spec.known) /\ ~(spec.type = "simple_code" /\ "tests" \in DOMAIN spec.fields) ->
           IF Violations(a, spec) = {} THEN "VERIFIED_ARTIFACT" ELSE "FAILED_ARTIFACT"

\* ArtifactRepairer.repair, twice: defaults for fields that are not there,
\* else the first other template, whatever fields that one requires.
Others(t, templates) == {u \in templates : u.name # t.name}

First(templates) == CHOOSE t \in templates : \A u \in templates : t.rank <= u.rank

Replaced(a, templates) ==
    LET others == Others(a.template, templates)
    IN  IF others = {} THEN a ELSE Candidate(First(others), a.used)

Repaired(a, spec, templates) ==
    LET missing == DOMAIN spec.defaults \ DOMAIN a.used
        filled == [a EXCEPT !.used = [f \in DOMAIN a.used \cup missing |->
                                        IF f \in missing THEN spec.defaults[f] ELSE a.used[f]]]
    IN  IF missing # {} THEN Replaced(filled, templates)
        ELSE Replaced(Replaced(a, templates), templates)

\* Mutant: a repaired artifact is taken for a verified one.
RepairedUnseen(t, spec, templates) ==
    LET a == Candidate(t, spec.fields)
        b == Repaired(a, spec, templates)
    IN  IF Lacks(t, spec) # {} THEN [a |-> a, status |-> "NEEDS_CLARIFICATION"]
        ELSE IF ArtifactStatus(a, spec) # "FAILED_ARTIFACT" THEN [a |-> a, status |-> ArtifactStatus(a, spec)]
        ELSE [a |-> b, status |-> "VERIFIED_ARTIFACT"]

\* One candidate, evaluated, and repaired and evaluated again if it failed.
Evaluated(t, spec, templates) ==
    LET a == Candidate(t, spec.fields)
        b == Repaired(a, spec, templates)
    IN  IF Lacks(t, spec) # {} THEN [a |-> a, status |-> "NEEDS_CLARIFICATION"]
        ELSE IF ArtifactStatus(a, spec) # "FAILED_ARTIFACT" THEN [a |-> a, status |-> ArtifactStatus(a, spec)]
        ELSE [a |-> b, status |-> ArtifactStatus(b, spec)]

StatusRank(status) ==
    CASE status = "VERIFIED_ARTIFACT" -> 0
      [] status = "CONTRADICTORY_ARTIFACT" -> 1
      [] status = "INCONCLUSIVE_ARTIFACT" -> 2
      [] status = "NEEDS_CLARIFICATION" -> 3
      [] status = "FAILED_ARTIFACT" -> 4

\* _rank_key: a candidate that was not evaluated has no violations, and one
\* that contradicts the memory none of its content.  Sorting keeps the order
\* of the templates t they were made for where the keys agree.
RankKey(c, t, spec) ==
    LET seen == {v \in Violations(c.a, spec) : c.status = "CONTRADICTORY_ARTIFACT" => v[1] # "content"}
        judged == c.status # "NEEDS_CLARIFICATION"
    IN  <<StatusRank(c.status), IF judged THEN Cardinality(seen) ELSE 0,
          IF judged THEN -Satisfied(c.a, spec) ELSE 0, c.a.template.place, t.rank>>

KeyBefore(x, y) == \E i \in 1..5 : x[i] < y[i] /\ \A j \in 1..(i - 1) : x[j] = y[j]

\* GenerationPipeline.generate with these templates of its type.
Generated(spec, templates) ==
    LET made == [t \in templates |-> Evaluated(t, spec, templates)]
        key == [t \in templates |-> RankKey(made[t], t, spec)]
        best == CHOOSE t \in templates : \A u \in templates : ~KeyBefore(key[u], key[t])
    IN  IF Blank(spec) # {} THEN [status |-> "NEEDS_CLARIFICATION"]
        ELSE IF templates = {} THEN [status |-> "INCONCLUSIVE_ARTIFACT"]
        ELSE [status |-> made[best].status, best |-> made[best].a]

\* With an index, any of the templates it selects, but not none.
TemplateChoices(spec) ==
    LET all == Selected(spec)
    IN  {all} \cup {{t \in all : t.name \in some} : some \in (SUBSET {t.name : t \in all}) \ {{}}}

-----------------------------------------------------------------------------
GenerationInit == artifact = NoArtifact /\ output = NoArtifact

\* run_generate; a specification that is not valid is an error.
Generate ==
    \E spec \in Specs, write \in BOOLEAN :
        /\ spec.valid
        /\ \E templates \in TemplateChoices(spec) :
             artifact' = [spec |-> spec, templates |-> templates, answer |-> Generated(spec, templates)]
        /\ output' = IF write THEN artifact' ELSE output

ArtifactSpec == GenerationInit /\ [][Generate]_generationVars

-----------------------------------------------------------------------------
\* What is VERIFIED of an answer: its content meets every criterion, has the
\* fields that its template and the specification want and says nothing the
\* memory denies; and no candidate of these templates that needs no repair
\* does so when the answer is that none is.
ArtifactHolds(spec, templates, answer) ==
    LET good(a) == Violations(a, spec) = {} /\ ~Contradicts(a, spec.known)
                   /\ ~(spec.type = "simple_code" /\ "tests" \in DOMAIN spec.fields)
    IN  IF answer.status = "VERIFIED_ARTIFACT" THEN good(answer.best)
        ELSE Blank(spec) # {} \/ \A t \in templates : Lacks(t, spec) # {} \/ ~good(Candidate(t, spec.fields))

ArtifactsHold == artifact # NoArtifact => ArtifactHolds(artifact.spec, artifact.templates, artifact.answer)
=============================================================================
