---------------------------- MODULE PackWorkflow ----------------------------
(***************************************************************************)
(* The pack directories under examples/packs and the commands that change  *)
(* them: certification (packs/certification.py), merge (packs/merge.py)    *)
(* and the lifecycle (packs/lifecycle.py), run by several processes, any   *)
(* of which may die.                                                       *)
(*                                                                         *)
(* A file is a sequence of rows.  To write one is to empty it and then to  *)
(* fill it: in between a reader finds nothing, and a process that dies     *)
(* leaves any beginning of the text, cut in the middle of a row or not.    *)
(* A command reads and checks, and what it goes on to do is a list of      *)
(* writes that nothing undoes.                                             *)
(***************************************************************************)
EXTENDS Integers, Sequences, SequencesExt

CONSTANTS
    Workers,         \* the processes
    PackDirs,           \* names of pack directories
    Origin,          \* the files each pack may have at first
    MaxChores,     \* bound on the commands run
    MaxKills        \* bound on the processes that die

VARIABLES
    dirs,        \* the directories that exist
    file,        \* the files of each pack
    snapshots,   \* the claims copied into snapshot directories, by pack
    work,        \* what each process is doing
    marks,       \* packs that two wrote at once, and the claims merges found
    moved,       \* packs certified from what was written meanwhile, and
                 \* those merges wrote to
    used        \* commands started and processes that died

workflowVars == <<dirs, file, snapshots, work, marks, moved, used>>

\* A claim has a key and maybe its provenance; a row of provenance.jsonl
\* has the key of the claim it is for.
Torn == [key |-> 0, prov |-> "torn"]
NoSuchFile == <<[key |-> 0, prov |-> "missing"]>>

Files == {"claims", "provenance", "meta", "reports"}

\* The packs there are at first have each of the files, or lack it.
ASSUME OriginAssumption ==
    \A o \in Origin : DOMAIN o \subseteq PackDirs /\ \A p \in DOMAIN o : o[p] = [f \in Files |-> o[p][f]]

Empty == [f \in Files |-> NoSuchFile]

Resting == [op |-> "none", step |-> "idle", todo |-> << >>]

Readable(rows) == rows # NoSuchFile /\ \A i \in DOMAIN rows : rows[i] # Torn

\* An emptied pack.json is no JSON.
HasMeta(p) == Readable(file[p].meta) /\ file[p].meta # << >>

Meta(p) == file[p].meta[1]

Keys(rows) == {rows[i].key : i \in DOMAIN rows}

WorkflowStart(origin, commands) ==
    /\ file = [p \in PackDirs |-> IF p \in DOMAIN origin THEN origin[p] ELSE Empty]
    /\ dirs = DOMAIN origin
    /\ snapshots = {}
    /\ work = [w \in Workers |-> Resting]
    /\ marks = [overlapped |-> {}, held |-> {}]
    /\ moved = {}
    /\ used = [commands |-> commands, deaths |-> 0]

WorkflowInit == \E origin \in Origin : WorkflowStart(origin, 0)

StartWork(w, job) ==
    /\ work[w] = Resting
    /\ used.commands < MaxChores
    /\ work' = [work EXCEPT ![w] = job]
    /\ used' = [used EXCEPT !.commands = @ + 1]
    /\ UNCHANGED <<dirs, file, snapshots, marks>>

Doing(w, op, step) == work[w].op = op /\ work[w].step = step

Refuse(w) == work' = [work EXCEPT ![w] = Resting] /\ UNCHANGED <<dirs, file, snapshots, marks, used>>

Proceed(w, todo) ==
    /\ work' = [work EXCEPT ![w].step = "act", ![w].todo = todo]
    /\ UNCHANGED <<dirs, file, snapshots, marks, used>>

\* What is left to do.
WriteTo(p, f, rows) == [do |-> "write", pack |-> p, file |-> f, rows |-> rows]
CopyTo(p, f, from) == [do |-> "copy", pack |-> p, file |-> f, from |-> from]
Make(p) == [do |-> "make", pack |-> p]
Snapshot(p) == [do |-> "snapshot", pack |-> p]

\* copytree makes the directory and copies its files in any order.
CopyTrees(from, p) ==
    {<<Make(p)>> \o [i \in 1..4 |-> CopyTo(p, order[i], from)] :
        order \in {<<"claims", "provenance", "meta", "reports">>,
                   <<"meta", "reports", "provenance", "claims">>}}

-----------------------------------------------------------------------------
(* Certification.                                                          *)

\* Every claim has a key of its own and complete provenance in its row and
\* in provenance.jsonl, which has as many rows.
MayCertify(claims, provenance) ==
    /\ Readable(claims) /\ Readable(provenance)
    /\ \A i, j \in DOMAIN claims : claims[i].key = claims[j].key => i = j
    /\ \A i \in DOMAIN claims : claims[i].prov = "complete"
    /\ \A i \in DOMAIN provenance : provenance[i].prov = "complete"
    /\ Len(provenance) = Len(claims)

Certify(w, s, o) ==
    StartWork(w, [op |-> "certify", step |-> "check", source |-> s, out |-> o, todo |-> << >>])

\* Mutant: the metadata is written first.
MetaFirst(s, o) ==
    <<Make(o),
      WriteTo(o, "meta", <<[id |-> o, version |-> 1, status |-> "certified", from |-> s]>>),
      CopyTo(o, "claims", s), CopyTo(o, "provenance", s),
      WriteTo(o, "reports", << >>)>>

CertifiedPack(s, o) ==
    <<Make(o), CopyTo(o, "claims", s), CopyTo(o, "provenance", s),
      WriteTo(o, "meta", <<[id |-> o, version |-> 1, status |-> "certified", from |-> s]>>),
      WriteTo(o, "reports", << >>)>>

CheckCandidate(w) ==
    LET s == work[w].source
        o == work[w].out
    IN  /\ Doing(w, "certify", "check")
        /\ IF /\ s \in dirs /\ \A f \in Files : file[s][f] # NoSuchFile
              /\ o \notin dirs
              /\ HasMeta(s) /\ Meta(s).status = "candidate"
              /\ MayCertify(file[s].claims, file[s].provenance)
           THEN Proceed(w, CertifiedPack(s, o))
           ELSE Refuse(w)

-----------------------------------------------------------------------------
(* Merge.  Without an output of its own it writes to the target.           *)

Merge(w, s, t, o) ==
    StartWork(w, [op |-> "merge", step |-> "check", source |-> s, target |-> t, out |-> o, todo |-> << >>])

CheckMerge(w) ==
    LET s == work[w].source
        t == work[w].target
        o == work[w].out
    IN  /\ Doing(w, "merge", "check")
        /\ IF /\ s \in dirs /\ t \in dirs /\ (o # t => o \notin dirs)
              /\ \A p \in {s, t} : \A f \in Files \ {"reports"} : file[p][f] # NoSuchFile
              /\ HasMeta(s) /\ HasMeta(t)
              /\ Meta(s).status = "certified"
           THEN /\ work' = [work EXCEPT ![w] =
                       [op |-> "merge", step |-> "read", source |-> s, target |-> t, out |-> o,
                        meta |-> Meta(t), todo |-> << >>]]
                /\ UNCHANGED <<dirs, file, snapshots, marks, used>>
           ELSE Refuse(w)

\* The rows of the source that are new to the target, by their place.
NewAt(source, target) ==
    SetToSortSeq({i \in DOMAIN source :
                     /\ source[i].key \notin Keys(target)
                     /\ \A j \in 1..(i - 1) : source[j].key # source[i].key}, <)

ByKey(rows) == SortSeq(rows, LAMBDA a, b : a.key < b.key)

\* Mutant: the target is written before its snapshot is taken.
SnapshotLater(t, o, claims, provenance, meta) ==
    {tree \o
     <<WriteTo(o, "claims", claims), WriteTo(o, "provenance", provenance), Snapshot(t),
       WriteTo(o, "meta", <<[meta EXCEPT !.id = IF o = t THEN @ ELSE o, !.version = @ + 1]>>)>> :
        tree \in IF o = t THEN {<< >>} ELSE CopyTrees(t, o)}

MergedPacks(t, o, claims, provenance, meta) ==
    {<<Snapshot(t)>> \o tree \o
     <<WriteTo(o, "claims", claims), WriteTo(o, "provenance", provenance),
       WriteTo(o, "meta", <<[meta EXCEPT !.id = IF o = t THEN @ ELSE o, !.version = @ + 1]>>)>> :
        tree \in IF o = t THEN {<< >>} ELSE CopyTrees(t, o)}

\* The processes that write the claims of a pack.
Writers(p) == {w \in Workers : work[w].op \in {"merge", "certify", "version"} /\ work[w].out = p}

\* A new claim brings its own provenance or, if it has none, the row of
\* provenance.jsonl at its place.
ReadAndMerge(w) ==
    LET j == work[w]
        source == file[j.source]
        target == file[j.target]
        new == NewAt(source.claims, target.claims)
        claims == ByKey(target.claims \o [n \in DOMAIN new |-> source.claims[new[n]]])
        Own(i) == source.claims[i].prov # "none"
        provenance == target.provenance \o
            [n \in DOMAIN new |-> IF Own(new[n]) THEN source.claims[new[n]] ELSE source.provenance[new[n]]]
    IN  /\ Doing(w, "merge", "read")
        /\ IF /\ \A p \in {j.source, j.target} : Readable(file[p].claims) /\ Readable(file[p].provenance)
              /\ \A n \in DOMAIN new : Own(new[n]) \/ new[n] \in DOMAIN source.provenance
           THEN /\ \E todo \in MergedPacks(j.target, j.out, claims, provenance, j.meta) :
                      work' = [work EXCEPT ![w].step = "act", ![w].todo = todo]
                /\ marks' = [marks EXCEPT
                      !.overlapped = @ \cup (IF Writers(j.out) = {w} THEN {} ELSE {j.out}),
                      !.held = @ \cup {<<j.target, target.claims[i]>> :
                                         i \in IF j.out = j.target THEN DOMAIN target.claims ELSE {}}]
                /\ UNCHANGED <<dirs, file, snapshots, used>>
           ELSE Refuse(w)

-----------------------------------------------------------------------------
(* The lifecycle.                                                          *)

Allowed == {<<"candidate", "certified">>, <<"candidate", "frozen">>, <<"candidate", "archived">>,
            <<"certified", "frozen">>, <<"certified", "archived">>, <<"frozen", "archived">>}

\* freeze and archive.
Transition(w, p, status) ==
    /\ p \in dirs /\ HasMeta(p)
    /\ <<Meta(p).status, status>> \in Allowed
    /\ StartWork(w, [op |-> "transition", step |-> "act",
                 todo |-> <<WriteTo(p, "meta", <<[Meta(p) EXCEPT !.status = status]>>)>>])

\* The metadata of the copy is read after the copy.
CreateVersion(w, s, o) ==
    /\ s \in dirs /\ HasMeta(s) /\ o \notin dirs
    /\ \E tree \in CopyTrees(s, o) :
         StartWork(w, [op |-> "version", step |-> "act", out |-> o, todo |-> tree])

NewVersion(w) ==
    LET o == work[w].out
    IN  /\ Doing(w, "version", "act") /\ work[w].todo = << >>
        /\ IF HasMeta(o)
           THEN /\ work' = [work EXCEPT ![w] = [op |-> "transition", step |-> "act", todo |->
                      <<WriteTo(o, "meta", <<[Meta(o) EXCEPT !.status = "candidate", !.version = @ + 5]>>)>>]]
                /\ UNCHANGED <<dirs, file, snapshots, marks, used>>
           ELSE Refuse(w)

-----------------------------------------------------------------------------
(* Doing it.                                                               *)

Next1(w) == Head(work[w].todo)

Has(w, do) == work[w].todo # << >> /\ work[w].step = "act" /\ Next1(w).do = do

Pop(w) == work' = [work EXCEPT ![w].todo = Tail(@)] /\ UNCHANGED used

MakeDirectory(w) ==
    /\ Has(w, "make")
    /\ IF Next1(w).pack \in dirs THEN Refuse(w)
       ELSE /\ dirs' = dirs \cup {Next1(w).pack}
            /\ Pop(w)
            /\ UNCHANGED <<file, snapshots, marks>>

\* A snapshot is named by the second; one of that name makes the copy fail.
TakeSnapshot(w) ==
    /\ Has(w, "snapshot")
    /\ \/ /\ snapshots' = snapshots \cup {<<Next1(w).pack, file[Next1(w).pack].claims>>}
          /\ Pop(w)
          /\ UNCHANGED <<dirs, file, marks>>
       \/ (\E s \in snapshots : s[1] = Next1(w).pack) /\ Refuse(w)

Truncate(w) ==
    LET n == Next1(w)
        rows == IF n.do = "copy" THEN file[n.from][n.file] ELSE n.rows
    IN  /\ Has(w, "write") \/ Has(w, "copy")
        /\ IF rows = NoSuchFile
           THEN file' = file /\ Pop(w)
           ELSE /\ file' = [file EXCEPT ![n.pack][n.file] = << >>]
                /\ work' = [work EXCEPT ![w].todo =
                               <<[do |-> "fill", pack |-> n.pack, file |-> n.file, rows |-> rows]>> \o Tail(@)]
                /\ UNCHANGED used
        /\ UNCHANGED <<dirs, snapshots, marks>>

\* Two that write one file at once may leave a mixture.
Fill(w) ==
    LET n == Next1(w)
        others == \E v \in Workers \ {w} :
                     Has(v, "fill") /\ Next1(v).pack = n.pack /\ Next1(v).file = n.file
    IN  /\ Has(w, "fill")
        /\ file' \in {[file EXCEPT ![n.pack][n.file] = rows] :
                         rows \in {n.rows} \cup (IF others THEN {n.rows \o <<Torn>>} ELSE {})}
        /\ Pop(w)
        /\ UNCHANGED <<dirs, snapshots, marks>>

Finish(w) ==
    /\ work[w].step = "act" /\ work[w].todo = << >> /\ work[w].op # "version"
    /\ Refuse(w)

Beginnings(rows) ==
    {SubSeq(rows, 1, n) : n \in 0..Len(rows)} \cup {SubSeq(rows, 1, n) \o <<Torn>> : n \in 0..(Len(rows) - 1)}

Killed(w) ==
    /\ work[w] # Resting
    /\ used.deaths < MaxKills
    /\ work' = [work EXCEPT ![w] = Resting]
    /\ used' = [used EXCEPT !.deaths = @ + 1]
    /\ IF Has(w, "fill")
       THEN LET n == Next1(w) IN file' \in {[file EXCEPT ![n.pack][n.file] = rows] : rows \in Beginnings(n.rows)}
       ELSE file' = file
    /\ UNCHANGED <<dirs, snapshots, marks>>

Command(w) ==
    \/ \E s, o \in PackDirs : s # o /\ Certify(w, s, o)
    \/ \E s, t, o \in PackDirs : s # t /\ s # o /\ Merge(w, s, t, o)
    \/ \E p \in PackDirs : \E status \in {"frozen", "archived"} : Transition(w, p, status)
    \/ \E s, o \in PackDirs : CreateVersion(w, s, o)

Act(w) ==
    \/ CheckCandidate(w) \/ CheckMerge(w) \/ ReadAndMerge(w) \/ NewVersion(w)
    \/ MakeDirectory(w) \/ TakeSnapshot(w) \/ Truncate(w) \/ Fill(w) \/ Finish(w) \/ Killed(w)

\* Certifications that checked their source and are not done copying it.
Certifies(w) == Doing(w, "certify", "act") /\ (Has(w, "make") => work[w].out \notin dirs)

\* For the property: what a step of w wrote, and who relied on it.
Watch(w) ==
    LET written == {p \in PackDirs : \E f \in {"claims", "provenance"} : file'[p][f] # file[p][f]}
    IN  moved' = moved
            \cup {work[v].out : v \in {u \in Workers : Certifies(u) /\ work[u].source \in written}}
            \cup (IF work[w].op = "merge" THEN written ELSE {})

WorkflowStep(w) == (Command(w) \/ Act(w)) /\ Watch(w)

WorkflowNext == \E w \in Workers : WorkflowStep(w)

WorkflowSpec == WorkflowInit /\ [][WorkflowNext]_workflowVars

-----------------------------------------------------------------------------
\* Every claim a merge found in its target is in the target or in one of its
\* snapshots, wherever a merge died, unless two merges into it overlapped
\* (merge_certified_pack copies the target before it writes to it).
TargetRecoverable ==
    \A h \in marks.held : h[1] \notin marks.overlapped =>
        \/ h[2] \in Range(file[h[1]].claims)
        \/ \E s \in snapshots : s[1] = h[1] /\ h[2] \in Range(s[2])

\* A pack that says it was certified holds claims that pass every check, and
\* all of them, wherever certify_candidate_pack died and whatever else ran.
\* There are two exceptions: a merge wrote to the pack, or the claims or the
\* provenance of its source were written after they were checked and before
\* the certification was over; it copies the files, not what it checked.
CertifiedWasChecked ==
    \A p \in dirs \ moved :
        (HasMeta(p) /\ Meta(p).id = p /\ Meta(p).from # "none")
            => MayCertify(file[p].claims, file[p].provenance)
=============================================================================
