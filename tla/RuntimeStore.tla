---------------------------- MODULE RuntimeStore ----------------------------
(***************************************************************************)
(* The SQLite copy of a pack's claims, .vcse/runtime_stores/<id>.sqlite    *)
(* (packs/runtime_store.py), compiled and read while the commands of       *)
(* PackWorkflow change the packs, and other compilations the store.        *)
(*                                                                         *)
(* A compilation hashes the files before it reads them.  The schema is     *)
(* dropped and created outside of the transaction that inserts the rows    *)
(* and the hashes; a store that is cut short between has no tables, or     *)
(* empty ones.                                                             *)
(***************************************************************************)
EXTENDS PackWorkflow

VARIABLES
    store,       \* the store of each pack id
    restless     \* the processes under whose reads something was written

storeVars == <<dirs, file, snapshots, work, marks, moved, used, store, restless>>

\* A store has tables or not, and metadata once the rows are committed.
\* Whether its maker was restless is kept for the property.
NoStore == [state |-> "absent", pack |-> << >>, claims |-> << >>, provenance |-> << >>, rows |-> << >>, restless |-> FALSE]

StoreStart == store = [p \in PackDirs |-> NoStore] /\ restless = {}

StoreInit == WorkflowInit /\ StoreStart

Bag(rows) == SortSeq(rows, LAMBDA a, b : a.key < b.key)

\* compute_pack_hash: the rows in any order, and the metadata.
PackHash(p) == <<Bag(file[p].claims), Bag(file[p].provenance), file[p].meta>>

\* compile without force refuses a store that exists, an incremental one
\* goes on.  The id in pack.json names the store.
Compile(w, p, mode) ==
    /\ HasMeta(p)
    /\ (mode = "plain" => store[Meta(p).id].state = "absent")
    /\ StartWork(w, [op |-> "compile", step |-> IF mode = "incremental" THEN "compare" ELSE "check",
                 pack |-> p, id |-> Meta(p).id, todo |-> << >>])
    /\ UNCHANGED <<moved, store>>

GoTo(w, job) ==
    /\ work' = [work EXCEPT ![w] = job @@ @]
    /\ UNCHANGED <<dirs, file, snapshots, marks, moved, used, store>>

GiveUp(w) == Refuse(w) /\ UNCHANGED <<moved, store>>

\* compile_incremental: the same claims and provenance need no compilation.
CompareHashes(w) ==
    LET s == store[work[w].id]
        f == file[work[w].pack]
    IN  /\ Doing(w, "compile", "compare")
        /\ IF s.state = "compiled" /\ s.claims = f.claims /\ s.provenance = f.provenance
           THEN GiveUp(w)
           ELSE GoTo(w, [step |-> "check"])

\* The three files must exist, and be JSON to be hashed as a pack.
HashPack(w) ==
    LET p == work[w].pack
    IN  /\ Doing(w, "compile", "check")
        /\ IF HasMeta(p) /\ Readable(file[p].claims) /\ Readable(file[p].provenance)
           THEN GoTo(w, [step |-> "hash", id |-> work[w].id, hash |-> PackHash(p)])
           ELSE GiveUp(w)

HashFiles(w) ==
    LET f == file[work[w].pack]
    IN  /\ Doing(w, "compile", "hash")
        /\ GoTo(w, [step |-> "read", claims |-> f.claims, provenance |-> f.provenance])

ReadRows(w) ==
    LET f == file[work[w].pack]
    IN  /\ Doing(w, "compile", "read")
        /\ IF Readable(f.claims) /\ Readable(f.provenance)
           THEN GoTo(w, [step |-> "drop", rows |-> f.claims])
           ELSE GiveUp(w)

\* Another compilation holds the lock only while it inserts, in one step.
DropTables(w) ==
    /\ Doing(w, "compile", "drop")
    /\ store' = [store EXCEPT ![work[w].id] = [NoStore EXCEPT !.state = "no tables"]]
    /\ work' = [work EXCEPT ![w].step = "create"]
    /\ UNCHANGED <<dirs, file, snapshots, marks, moved, used>>

\* Two that create the tables at once: the later finds them there and fails.
CreateTables(w) ==
    LET id == work[w].id
    IN  /\ Doing(w, "compile", "create")
        /\ IF store[id].state = "no tables"
           THEN /\ store' = [store EXCEPT ![id].state = "empty"]
                /\ work' = [work EXCEPT ![w].step = "insert"]
                /\ UNCHANGED <<dirs, file, snapshots, marks, moved, used>>
           ELSE GiveUp(w)

Committed(w) ==
    [state |-> "compiled", pack |-> work[w].hash, claims |-> work[w].claims,
     provenance |-> work[w].provenance, rows |-> Bag(work[w].rows), restless |-> w \in restless]

\* Mutant: the metadata stays when the rows are rolled back.
InsertMetaFirst(w) ==
    LET id == work[w].id
        rows == work[w].rows
        unique == \A i, j \in DOMAIN rows : rows[i].key = rows[j].key => i = j
    IN  /\ Doing(w, "compile", "insert")
        /\ IF store[id].state = "empty"
           THEN store' = [store EXCEPT ![id] = [Committed(w) EXCEPT !.rows = IF unique THEN @ ELSE << >>]]
           ELSE store' = store
        /\ Refuse(w) /\ UNCHANGED moved

\* Claims of one key, or rows that another compilation inserted, break the
\* primary keys and roll everything back; tables dropped meanwhile too.
Insert(w) ==
    LET id == work[w].id
        rows == work[w].rows
    IN  /\ Doing(w, "compile", "insert")
        /\ IF /\ store[id].state = "empty"
              /\ \A i, j \in DOMAIN rows : rows[i].key = rows[j].key => i = j
           THEN store' = [store EXCEPT ![id] = Committed(w)]
           ELSE store' = store
        /\ Refuse(w) /\ UNCHANGED moved

CompileStep(w) ==
    \/ CompareHashes(w) \/ HashPack(w) \/ HashFiles(w) \/ ReadRows(w)
    \/ DropTables(w) \/ CreateTables(w) \/ Insert(w)

-----------------------------------------------------------------------------
(* A command that needs the claims asks the store first.                   *)

\* load_runtime_claims_if_valid: without a store there is nothing to ask.
Load(w, p) ==
    /\ HasMeta(p) /\ store[Meta(p).id].state # "absent"
    /\ StartWork(w, [op |-> "load", step |-> "measure", pack |-> p, id |-> Meta(p).id, todo |-> << >>])
    /\ UNCHANGED <<moved, store>>

\* The files are hashed as a pack and then by their contents; what is no
\* JSON cannot be read from the files either.
MeasurePack(w) ==
    LET p == work[w].pack
    IN  /\ Doing(w, "load", "measure")
        /\ IF HasMeta(p) /\ Readable(file[p].claims) /\ Readable(file[p].provenance)
           THEN GoTo(w, [step |-> "contents", hash |-> PackHash(p)])
           ELSE GiveUp(w)

MeasureFiles(w) ==
    LET f == file[work[w].pack]
    IN  /\ Doing(w, "load", "contents")
        /\ GoTo(w, [step |-> "metadata", claims |-> f.claims, provenance |-> f.provenance])

\* Other hashes, or none: the claims are read from the files.  Without a
\* table to ask sqlite3 raises, and no caller catches that.
AskMetadata(w) ==
    LET s == store[work[w].id]
        j == work[w]
    IN  /\ Doing(w, "load", "metadata")
        /\ CASE s.state = "no tables" -> GoTo(w, [step |-> "raised"])
             [] /\ s.state = "compiled"
                /\ s.pack = j.hash /\ s.claims = j.claims /\ s.provenance = j.provenance -> GoTo(w, [step |-> "rows"])
             [] OTHER -> GiveUp(w)

\* The rows are those of the store as it is by now.
AskRows(w) ==
    LET s == store[work[w].id]
    IN  /\ Doing(w, "load", "rows")
        /\ IF s.state = "no tables" THEN GoTo(w, [step |-> "raised"]) ELSE GoTo(w, [step |-> "told", rows |-> s.rows])

Return(w) == (Doing(w, "load", "told") \/ Doing(w, "load", "raised")) /\ GiveUp(w)

LoadStep(w) == MeasurePack(w) \/ MeasureFiles(w) \/ AskMetadata(w) \/ AskRows(w) \/ Return(w)

-----------------------------------------------------------------------------
\* For the property: the claims were written between the hash and the reading
\* of a compilation, or the store was made anew between a load's questions,
\* or the store it asked was made so.
Disquiet(w) ==
    restless' = {v \in Workers : /\ work'[v] # Resting
                                 /\ \/ v \in restless
                                    \/ /\ Doing(v, "compile", "read")
                                       /\ file'[work[v].pack].claims # file[work[v].pack].claims
                                    \/ Doing(v, "load", "rows") /\ store'[work[v].id] # store[work[v].id]
                                    \/ v = w /\ Doing(v, "load", "metadata") /\ store[work[v].id].restless}

StoreStep(w) ==
    /\ \/ WorkflowStep(w) /\ UNCHANGED store
       \/ \E p \in PackDirs : \E mode \in {"plain", "force", "incremental"} : Compile(w, p, mode)
       \/ CompileStep(w)
       \/ \E p \in PackDirs : Load(w, p)
       \/ LoadStep(w)
    /\ Disquiet(w)

StoreNext == \E w \in Workers : StoreStep(w)

StoreSpec == StoreInit /\ [][StoreNext]_storeVars

-----------------------------------------------------------------------------
\* The rows a load takes from a store are the claims that were in the pack
\* when the load hashed them, whatever was compiled, merged, certified or
\* killed before and meanwhile, in this pack or in another of its id.  There
\* are two exceptions: the claims were written while they were compiled,
\* between the hash and the reading, or another compilation dropped the
\* store's tables between the load's two questions (RuntimeStoreCompiler
\* hashes before it reads, load_runtime_claims_if_valid asks twice).
StoreHoldsPack ==
    \A w \in Workers \ restless : Doing(w, "load", "told") => work[w].rows = Bag(work[w].claims)

\* A load takes rows from the store or leaves the claims to be read from the
\* files ("otherwise VCSE falls back to canonical JSONL loading").  It does
\* not where the store was cut between the dropping and the making of tables.
LoadFallsBack == \A w \in Workers : ~Doing(w, "load", "raised")
=============================================================================
