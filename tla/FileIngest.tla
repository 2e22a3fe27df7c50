----------------------------- MODULE FileIngest -----------------------------
(***************************************************************************)
(* Importing a document into a memory (ingestion/*.py): a template reads   *)
(* its rows into frames, the frames are validated together, applied to a   *)
(* copy of the memory and verified there, and the copy takes the memory's  *)
(* place unless the run is a dry one.                                      *)
(*                                                                         *)
(* A row is its form, two names and a relation; a text has forms like      *)
(* those of Conversation, other documents have frame types for forms.      *)
(***************************************************************************)
EXTENDS Conversation

CONSTANTS
    Documents,     \* of each file: type, column names and rows, or unreadable
    Templates,     \* template names that may be asked for
    OwnTemplate,   \* a bundle's: the form it matches and the relation it makes
    Singular,      \* what a name is without its plural ending
    Requirement,   \* what a name is as a requirement
    MaxImports     \* a bound

ASSUME ImportAssumption ==
    /\ MaxImports \in Nat
    /\ \A file \in DOMAIN Documents :
         LET rows == Documents[file].rows IN Len(rows) \in Nat /\ DOMAIN rows = 1..Len(rows)

VARIABLES
    kept,       \* the memory a caller keeps
    evidence,   \* of what it was told: elements of it, and the rows named
    imports,    \* imports so far: the file, its frames, and the result
    shelf       \* what was written of a memory: saved, or exported as a pack

importVars == <<kept, evidence, imports, shelf>>

-----------------------------------------------------------------------------
(* From a document to frames.                                               *)

\* load_source_document: there is an adapter for its kind of file, and the
\* adapter makes it out.
IsLoaded(doc) == doc.type \notin {"unsupported", "unreadable"}

BuiltIn == {"text_policy", "csv_triples", "csv_entity_relation_value", "by type"}

\* resolve_template: by name, whether automatic or not, or, when automatic,
\* the bundle's before those that are built in.
Resolved(doc, name, auto, bundled) ==
    LET own == IF bundled THEN {OwnTemplate.name} ELSE {}
    IN  CASE name # "" -> IF name \in BuiltIn \cup own THEN name ELSE "none"
          [] name = "" /\ ~auto -> "none"
          [] name = "" /\ auto /\ doc.type = "text" -> IF bundled THEN OwnTemplate.name ELSE "text_policy"
          [] OTHER -> IF doc.type = "csv" /\ doc.columns = "entities" THEN "csv_entity_relation_value" ELSE "by type"

OwnFrames(row) ==
    IF row.form = OwnTemplate.form
    THEN << Frame("claim", <<Singular[row.x], OwnTemplate.relation, Singular[row.y]>>, {}) >> ELSE << >>

\* The policy patterns, in order: one "is" is enough for the first of them,
\* so what a bundle reads "part of" in is a class without that bundle.
PolicyFrames(row) ==
    LET claim(x, r, y) == << Frame("claim", <<x, r, y>>, {}) >>
    IN  CASE row.form \in {"is", "all are"} -> claim(Singular[row.x], "is_a", Plain[row.y])
          [] row.form = "is part of" -> claim(Singular[row.x], "is_a", Phrase["part of", row.y])
          [] row.form \in {"must be", "requires"} -> claim(Singular[row.x], "requires", Requirement[row.y])
          [] row.form = "equals" -> claim(Plain[row.x], "equals", Plain[row.y])
          [] OTHER -> << >>

\* _extract_csv: columns are looked for by name, and without them no row is
\* read.
CsvFrames(doc, template, row) ==
    IF doc.columns = (IF template = "csv_entity_relation_value" THEN "entities" ELSE "triples")
    THEN << Frame("claim", <<Plain[row.x], row.r, Plain[row.y]>>, {}) >> ELSE << >>

\* _extract_structured: a row without a subject is left out, whatever else it
\* has.
RecordFrames(row) ==
    IF row.x = "" THEN << >>
    ELSE IF row.form = "constraint" THEN << Frame("constraint", <<Plain[row.x], row.r, row.y>>, {}) >>
    ELSE << Frame(row.form, <<Plain[row.x], row.r, Plain[row.y]>>, {}) >>

\* extract_frames, each frame with the row its provenance names.  Once the
\* bundle's template matches a row of a text, the other rows of it are not
\* read at all.
Extracted(doc, template) ==
    LET own == \E i \in DOMAIN doc.rows : OwnFrames(doc.rows[i]) # << >>
        of(row) == CASE doc.type = "csv" -> CsvFrames(doc, template, row)
                     [] doc.type = "json" -> RecordFrames(row)
                     [] doc.type = "text" /\ template = OwnTemplate.name /\ own -> OwnFrames(row)
                     [] OTHER -> PolicyFrames(row)
    IN  FlattenSeq([i \in DOMAIN doc.rows |->
            [k \in DOMAIN of(doc.rows[i]) |-> [row |-> i, frame |-> of(doc.rows[i])[k]]]])

\* validate_frames on one frame: the object of a claim or a goal may be empty.
ValidFrame(f) ==
    CASE f.kind \in {"claim", "goal"} -> f.triple[1] # "" /\ f.triple[2] # ""
      [] OTHER -> f.triple[1] # "" /\ f.triple[2] # "" /\ f.triple[3] # ""

-----------------------------------------------------------------------------
(* From frames to a memory.                                                 *)

\* FrameApplicator._apply_claim, _apply_goal, _apply_constraint: a definition
\* makes nothing, and "=" is no operator of a constraint.
Makes(f) == f.kind \in {"claim", "goal"} \/ (f.kind = "constraint" /\ f.triple[2] \in Operators)

Refused(f) == f.kind = "constraint" /\ f.triple[2] \notin Operators

\* The value of a constraint in a record is the number it was.
ApplyRow(m, f) ==
    IF f.kind = "constraint"
    THEN IF Makes(f)
         THEN AddConstraint(m, [kind |-> "numeric", target |-> f.triple[1], operator |-> f.triple[2],
                                isNumber |-> f.triple[3] \in Numerals,
                                value |-> IF f.triple[3] \in Numerals THEN NumeralValue[f.triple[3]] ELSE 0])
         ELSE m
    ELSE ApplyFrame(m, f)

\* What a frame made: its goal or constraint is the last one.
Made(m, f) ==
    CASE f.kind = "claim" -> <<"claim", ClaimIdOf(m, f.triple[1], f.triple[2], f.triple[3])>>
      [] f.kind = "goal" -> <<"goal", Len(m.goals)>>
      [] OTHER -> <<"constraint", Len(m.constraints)>>

\* FrameApplicator.apply, with the ids it creates in order.
Application(m, frames) ==
    LET after(before, f) ==
            LET x == ApplyRow(before.memory, f)
            IN  [memory |-> x, ids |-> IF Makes(f) THEN Append(before.ids, Made(x, f)) ELSE before.ids]
        upto[n \in 0..Len(frames)] ==
            IF n = 0 THEN [memory |-> m, ids |-> << >>] ELSE after(upto[n - 1], frames[n])
    IN  upto[Len(frames)]

ImportStatus(m, created, refused) ==
    IF m.contradictions # {} THEN IF created > 0 THEN "CONTRADICTORY" ELSE "PARTIAL"
    ELSE IF refused THEN IF created > 0 THEN "PARTIAL" ELSE "REJECTED"
    ELSE "IMPORTED"

Result(status, created, m, pairs) ==
    [status |-> status, created |-> created, memory |-> m, pairs |-> pairs]

\* Mutant: frames that are not valid are left out, the others applied.
ValidPart(read) == SelectSeq(read, LAMBDA e : ValidFrame(e.frame))

AllOrNone(read) == IF \A i \in DOMAIN read : ValidFrame(read[i].frame) THEN read ELSE << >>

\* ingest_file up to the result.  The ids that were created are paired with
\* the frames from the first on, though a frame may have created none: from
\* there on the pairs are those of other rows.
Ingested(doc, template, m, bundled) ==
    LET read == Extracted(doc, template)
        valid == AllOrNone(read)
        made == Application(IF bundled THEN WithBundle(m) ELSE m, [i \in DOMAIN valid |-> valid[i].frame])
        verified == VerifiedMemory(made.memory)
        created == Len(made.ids)
    IN  CASE ~IsLoaded(doc) ->
               Result(IF doc.type = "unsupported" THEN "UNSUPPORTED_FORMAT" ELSE "REJECTED", 0, m, {})
          [] IsLoaded(doc) /\ valid = << >> /\ read # << >> ->
               Result("VALIDATION_FAILED", 0, m, {})
          [] OTHER ->
               Result(ImportStatus(verified, created, \E i \in DOMAIN valid : Refused(valid[i].frame)), created,
                      verified, {<<made.ids[i], valid[i].row>> : i \in DOMAIN made.ids})

\* No template, no import: the caller gets an error.
Importable(doc, template) == ~IsLoaded(doc) \/ template # "none"

-----------------------------------------------------------------------------
NoMemory == [status |-> "none"]

ImportInit ==
    /\ kept = EmptyMemory /\ evidence = {} /\ imports = << >>
    /\ shelf = [saved |-> NoMemory, pack |-> NoMemory]

\* ingest_file with a memory.  What is saved or exported is the memory the
\* caller is left with, a dry run's too; a pack's provenance is the frames'.
Import(file, name, auto, bundled, dry) ==
    LET doc == Documents[file]
        template == Resolved(doc, name, auto, bundled)
        result == Ingested(doc, template, kept, bundled)
        left == IF dry THEN kept ELSE result.memory
        done == result.status \notin {"UNSUPPORTED_FORMAT", "VALIDATION_FAILED"} /\ doc.type # "unreadable"
        read == IF done THEN Extracted(doc, template) ELSE << >>
    IN  /\ Len(imports) < MaxImports
        /\ Importable(doc, template)
        /\ kept' = left
        /\ evidence' = IF dry THEN evidence ELSE evidence \cup {<<p[1], file, p[2]>> : p \in result.pairs}
        /\ imports' = Append(imports, [file |-> file, status |-> result.status, created |-> result.created,
                                       dry |-> dry, read |-> read])
        /\ \E save, export \in BOOLEAN :
             shelf' = [saved |-> IF save /\ done THEN left ELSE shelf.saved,
                       pack |-> IF export /\ done
                                THEN [status |-> "pack", claims |-> Triples(left), rows |-> Len(read)] ELSE shelf.pack]

ImportNext ==
    \E file \in DOMAIN Documents, name \in Templates \cup {""}, auto, bundled, dry \in BOOLEAN :
        (auto => name = "") /\ Import(file, name, auto, bundled, dry)

ImportSpec == ImportInit /\ [][ImportNext]_importVars

-----------------------------------------------------------------------------
\* Two of a list of claims disagree.
Clash(claims) == \E a, b \in claims : a[2] = "equals" /\ b[2] = "equals" /\ a[1] = b[1] /\ a[3] # b[3]

FramesOfKind(read, kind) == {read[i].frame.triple : i \in {i \in DOMAIN read : read[i].frame.kind = kind}}

\* A memory holds what the imports that took effect read, all of it and
\* nothing else, in whatever order they came: a dry run leaves nothing, a
\* document with one frame that is not valid leaves nothing, a contradiction
\* takes nothing back; what was saved was held.  Two imports that disagree
\* are found out by the later one, dry or not, and it says so.  An element
\* has evidence only of a row that states it, as long as every row of that
\* file that was read made something (ingest_file).
ImportsAreWhole ==
    LET taken == {i \in DOMAIN imports : ~imports[i].dry}
        told == UNION {FramesOfKind(imports[i].read, "claim") : i \in taken}
        last == imports[Len(imports)]
        goals == UNION {{<<i, k>> : k \in {k \in DOMAIN imports[i].read : imports[i].read[k].frame.kind = "goal"}} : i \in taken}
        plain(file) == \A i \in taken : imports[i].file = file => \A e \in ToSet(imports[i].read) : Makes(e.frame)
        stated(element, file, row) ==
            \E i \in taken : imports[i].file = file /\ \E e \in ToSet(imports[i].read) :
                /\ e.row = row /\ e.frame.kind = element[1]
                /\ element[1] = "claim" => TripleOf(kept.claims[element[2]]) = e.frame.triple
    IN  /\ Triples(kept) = told /\ Len(kept.goals) = Cardinality(goals)
        /\ shelf.saved # NoMemory => Triples(shelf.saved) \subseteq told
        /\ (\E k \in kept.contradictions : k.severity = "high") <=> Clash(told)
        /\ imports # << >> /\ Clash(told \cup FramesOfKind(last.read, "claim")) /\ last.read # << >> =>
             last.status \in {"CONTRADICTORY", "PARTIAL", "VALIDATION_FAILED"}
        /\ \A e \in evidence : plain(e[2]) => stated(e[1], e[2], e[3])
=============================================================================
