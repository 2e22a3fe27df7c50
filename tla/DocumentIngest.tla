--------------------------- MODULE DocumentIngest ---------------------------
(***************************************************************************)
(* vcse ingest (ingest/orchestrator.py, ingest/delta.py): the documents at *)
(* a path are read one after the other, and the rows of each become a      *)
(* candidate pack of its own; an incremental run leaves a state file by    *)
(* which a later one skips a document whose rows it has seen.              *)
(*                                                                         *)
(* A document is read several times in a run: for its rows, for the name   *)
(* of its mapping, and for a fingerprint before and after the pack is      *)
(* written.  It may change in between.  A text stands for its bytes and    *)
(* their hash, and its rows are the set of their hashes.                   *)
(***************************************************************************)
EXTENDS Naturals, Sequences, FiniteSets, SequencesExt

CONSTANTS
    Ingesters,     \* the processes
    Documents,     \* the files of a directory, as detect_source_files sorts them
    Stem(_),       \* a file's name without its suffix
    JsonLines,     \* the documents with the suffix .jsonl
    Texts,
    Held(_),       \* the texts that a document may come to have
    RowsIn(_),     \* the rows of a text, made explicit
    Unreadable,    \* texts that the adapter or _compile_rows rejects
    Implicit,      \* texts whose rows need a mapping
    MappingOf(_),  \* the mapping proposed for the rows of a text
    Place(_),      \* the place of a state file's name, a hash, among the others
    Flags,         \* the flags a run may be given
    MaxIngests,    \* bound on the runs
    MaxEdits,      \* bound on the changes to documents
    MaxBreaks      \* bound on failed writes and processes that die

ASSUME IngestBounds == MaxIngests \in Nat /\ MaxEdits \in Nat /\ MaxBreaks \in Nat

\* The files of a directory come as a list.
ASSUME DocumentList == Documents \in Seq(ToSet(Documents))

VARIABLES
    text,       \* what each document holds
    mapping,    \* .vcse/mappings, by the hash of a text
    candidate,  \* examples/packs, by pack id
    record,     \* .vcse/ingest_state, by document and text
    ingest,     \* the run of each process, or its last one
    tally       \* runs, changes and breaks so far

ingestVars == <<text, mapping, candidate, record, ingest, tally>>

DocumentSet == ToSet(Documents)

PackIds == {Stem(d) : d \in DocumentSet} \X (1..MaxIngests) \X (1..Len(Documents))

Names == DocumentSet \X Texts

Unwritten == [kind |-> "absent"]

Partial == [kind |-> "partial"]

Filled(rows) == [kind |-> "whole", rows |-> rows]

\* A run that is over, with its report.
Resting(status, outcome) == [step |-> "idle", status |-> status, outcome |-> outcome]

NothingFiled == [d \in DocumentSet |-> {}]

\* What a run keeps of the document at hand: the text read, the text its
\* mapping is named by, its pack, its state file and the mapping's hash.
Untouched == [read |-> "none", map |-> "none", pack |-> <<"none">>, name |-> <<"none">>, print |-> "none"]

IngestInit ==
    /\ text \in [DocumentSet -> Texts] /\ \A d \in DocumentSet : text[d] \in Held(d)
    /\ mapping = [t \in Texts |-> "none"]
    /\ candidate = [i \in PackIds |-> Unwritten]
    /\ record = [n \in Names |-> Unwritten]
    /\ ingest = [p \in Ingesters |-> Resting("NONE", NothingFiled)]
    /\ tally = [runs |-> 0, edits |-> 0, breaks |-> 0]

-----------------------------------------------------------------------------
Doing(p, step) == ingest[p].step = step

Document(p) == Head(ingest[p].queue)

Set(p, r) == ingest' = [ingest EXCEPT ![p] = r]

\* The outcome filed for the document at hand.
Filing(r, kind) ==
    [r EXCEPT !.outcome[Head(r.queue)] = @ \cup {[kind |-> kind, pack |-> r.at.pack, text |-> r.at.read]}]

NextDocument(r) == [r EXCEPT !.step = "read", !.queue = Tail(@), !.at = Untouched]

\* The except clause of run_ingest: the error is filed and the run goes on.
FailedDocument(r) == NextDocument(Filing(r, "error"))

\* A directory with several documents is refused in incremental mode.
StartIngest(p) ==
    /\ Doing(p, "idle") /\ tally.runs < MaxIngests
    /\ tally' = [tally EXCEPT !.runs = @ + 1]
    /\ \E target \in {Documents} \cup {<<d>> : d \in DocumentSet}, f \in Flags :
         Set(p, IF f.incremental /\ Len(target) > 1
                THEN Resting("REFUSED", NothingFiled)
                ELSE [step |-> "read", flags |-> f, target |-> target, queue |-> target,
                      run |-> tally.runs + 1, at |-> Untouched, outcome |-> NothingFiled])
    /\ UNCHANGED <<text, mapping, candidate, record>>

\* Where a document goes once its rows are compiled.
WithRows(r) == [r EXCEPT !.step = IF r.flags.incremental THEN "compare" ELSE "make"]

ReadDocument(p) ==
    /\ Doing(p, "read") /\ ingest[p].queue # << >>
    /\ LET t == text[Document(p)]
           r == [ingest[p] EXCEPT !.at.read = t]
       IN  Set(p, IF t \in Unreadable THEN FailedDocument(r)
                  ELSE IF t \in Implicit THEN [r EXCEPT !.step = "map"]
                  ELSE WithRows(r))
    /\ UNCHANGED <<text, mapping, candidate, record, tally>>

\* write_mapping_artifact names the file by what the document holds by now.
\* Without --auto-approve the document ends here.
MapDocument(p) ==
    LET t == text[Document(p)]
        r == [ingest[p] EXCEPT !.at.map = t]
    IN  /\ Doing(p, "map")
        /\ mapping' = [mapping EXCEPT ![t] = MappingOf(ingest[p].at.read)]
        /\ Set(p, IF ingest[p].flags.auto THEN WithRows(r) ELSE FailedDocument(r))
        /\ UNCHANGED <<text, candidate, record, tally>>

-----------------------------------------------------------------------------
\* The hash of the mapping file, if the document has one.
MappingPrint(p) ==
    IF ingest[p].at.map = "none" THEN "none" ELSE mapping[ingest[p].at.map]

\* The state files that load_previous_state_for_source may stop at: one of
\* the document, or one that cannot be parsed, whatever document it is of.
Candidates(d) ==
    {n \in Names : record[n].kind = "torn" \/ (record[n].kind = "whole" /\ n[1] = d)}

IsFirst(n, d) == n \in Candidates(d) /\ \A m \in Candidates(d) : Place(n) <= Place(m)

\* compute_delta finds DELTA_NO_CHANGES.
Unchanged(s, p) ==
    /\ s.rows = RowsIn(ingest[p].at.read)
    /\ s.source = text[Document(p)]
    /\ s.mapping = MappingPrint(p)

Skips(s, p) == Unchanged(s, p) /\ ~ingest[p].flags.force

Compare(p) ==
    /\ Doing(p, "compare")
    /\ \/ /\ Document(p) \notin JsonLines
          /\ Set(p, FailedDocument(ingest[p]))
       \/ /\ Document(p) \in JsonLines /\ Candidates(Document(p)) = {}
          /\ Set(p, [ingest[p] EXCEPT !.step = "make"])
       \/ /\ Document(p) \in JsonLines
          /\ \E n \in Names :
               /\ IsFirst(n, Document(p))
               /\ Set(p, IF record[n].kind = "torn" THEN FailedDocument(ingest[p])
                         ELSE IF ~Skips(record[n], p) THEN [ingest[p] EXCEPT !.step = "make"]
                         ELSE Filing([ingest[p] EXCEPT !.step = "print", !.at.pack = record[n].pack], "skipped"))
    /\ UNCHANGED <<text, mapping, candidate, record, tally>>

\* _build_pack_id numbers the packs of one stem among those this run made.
NewPackId(p) ==
    LET made == {o \in UNION {ingest[p].outcome[d] : d \in DocumentSet} : o.kind = "packed"}
        stem == Stem(Document(p))
    IN  <<stem, ingest[p].run, Cardinality({o \in made : o.pack[1] = stem}) + 1>>

MakePack(p) ==
    /\ Doing(p, "make")
    /\ LET i == NewPackId(p)
       IN  IF candidate[i] # Unwritten
           THEN Set(p, FailedDocument(ingest[p])) /\ UNCHANGED candidate
           ELSE /\ candidate' = [candidate EXCEPT ![i] = Partial]
                /\ Set(p, [ingest[p] EXCEPT !.step = "fill", !.at.pack = i])
    /\ UNCHANGED <<text, mapping, record, tally>>

\* The six files of the pack, then the look at them (_validate_pack).
FillPack(p) ==
    /\ Doing(p, "fill")
    /\ candidate' = [candidate EXCEPT ![ingest[p].at.pack] = Filled(RowsIn(ingest[p].at.read))]
    /\ LET r == Filing(ingest[p], "packed")
       IN  Set(p, IF r.flags.incremental THEN [r EXCEPT !.step = "print"] ELSE NextDocument(r))
    /\ UNCHANGED <<text, mapping, record, tally>>

\* The second fingerprint names the state file, which is opened and so
\* emptied.
OpenState(p) ==
    LET n == <<Document(p), text[Document(p)]>>
    IN  /\ Doing(p, "print")
        /\ record' = [record EXCEPT ![n] = [kind |-> "torn"]]
        /\ Set(p, [ingest[p] EXCEPT !.step = "save", !.at.name = n, !.at.print = MappingPrint(p)])
        /\ UNCHANGED <<text, mapping, candidate, tally>>

\* Mutant: the rows are those of the text the file is named by.
StateOfPrint(r) ==
    [kind |-> "whole", source |-> r.at.name[2], mapping |-> r.at.print, rows |-> RowsIn(r.at.name[2]), pack |-> r.at.pack]

StateOf(r) ==
    [kind |-> "whole", source |-> r.at.name[2], mapping |-> r.at.print, rows |-> RowsIn(r.at.read), pack |-> r.at.pack]

\* Writing over what another process wrote leaves either text or a mixture.
SaveState(p) ==
    LET r == ingest[p]
    IN  /\ Doing(p, "save")
        /\ \E s \in {StateOf(r)} \cup (IF record[r.at.name].kind = "whole" THEN {[kind |-> "torn"]} ELSE {}) :
             record' = [record EXCEPT ![r.at.name] = s]
        /\ Set(p, NextDocument(r))
        /\ UNCHANGED <<text, mapping, candidate, tally>>

\* persist_ingest_report.  Errors do not show in the status.
EndIngest(p) ==
    /\ Doing(p, "read") /\ ingest[p].queue = << >>
    /\ LET r     == ingest[p]
           kinds == {o.kind : o \in UNION {r.outcome[d] : d \in DocumentSet}}
       IN  Set(p, [step |-> "idle", outcome |-> r.outcome, target |-> r.target,
                   status |-> IF "skipped" \in kinds THEN "INGEST_NO_CHANGES"
                              ELSE IF r.flags.incremental /\ "packed" \in kinds
                              THEN "INGEST_INCREMENTAL_COMPLETE" ELSE "INGEST_COMPLETE"])
    /\ UNCHANGED <<text, mapping, candidate, record, tally>>

-----------------------------------------------------------------------------
\* The owner of a document changes it.
EditDocument ==
    /\ tally.edits < MaxEdits
    /\ \E d \in DocumentSet : \E t \in Held(d) :
         t # text[d] /\ text' = [text EXCEPT ![d] = t]
    /\ tally' = [tally EXCEPT !.edits = @ + 1]
    /\ UNCHANGED <<mapping, candidate, record, ingest>>

\* What a break leaves of a mapping that is being written.
MappingDamaged(p) ==
    \/ UNCHANGED mapping
    \/ Doing(p, "map") /\ mapping' = [mapping EXCEPT ![text[Document(p)]] = "torn"]

\* A read or a write fails: the document at hand is lost, the run goes on.
BreakWrite(p) ==
    /\ tally.breaks < MaxBreaks
    /\ ~Doing(p, "idle") /\ ingest[p].queue # << >>
    /\ Set(p, FailedDocument(ingest[p]))
    /\ MappingDamaged(p)
    /\ tally' = [tally EXCEPT !.breaks = @ + 1]
    /\ UNCHANGED <<text, candidate, record>>

\* The process dies, or its report cannot be written.
Die(p) ==
    /\ tally.breaks < MaxBreaks
    /\ ~Doing(p, "idle")
    /\ Set(p, Resting("DIED", NothingFiled))
    /\ MappingDamaged(p)
    /\ tally' = [tally EXCEPT !.breaks = @ + 1]
    /\ UNCHANGED <<text, candidate, record>>

IngestNext ==
    \/ EditDocument
    \/ \E p \in Ingesters :
         \/ StartIngest(p) \/ ReadDocument(p) \/ MapDocument(p) \/ Compare(p)
         \/ MakePack(p) \/ FillPack(p) \/ OpenState(p) \/ SaveState(p)
         \/ EndIngest(p) \/ BreakWrite(p) \/ Die(p)

IngestSpec == IngestInit /\ [][IngestNext]_ingestVars

-----------------------------------------------------------------------------
\* What a state file says is so: the pack it names was written in full and
\* holds the rows it lists (write_ingest_state), although the document may
\* change between its readings and a forced or skipped run names the pack of
\* another.
StatesTellTruth ==
    \A n \in Names :
        record[n].kind = "whole" => candidate[record[n].pack] = Filled(record[n].rows)

\* A run that ended reported on each of its documents, and what it reports
\* packed, or skipped for an earlier pack, is in that pack: all the rows it
\* read and no others (run_ingest).
ReportsTellTruth ==
    \A p \in Ingesters :
        LET r == ingest[p]
        IN  (r.step = "idle" /\ r.status \notin {"NONE", "REFUSED", "DIED"}) =>
              \A d \in ToSet(r.target) :
                /\ r.outcome[d] # {}
                /\ \A o \in r.outcome[d] :
                     o.kind \in {"packed", "skipped"} => candidate[o.pack] = Filled(RowsIn(o.text))

\* Both what a run tells its caller and what it leaves for the next run is so.
IngestTellsTruth == StatesTellTruth /\ ReportsTellTruth
=============================================================================
