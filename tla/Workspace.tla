----------------------------- MODULE Workspace -----------------------------
(***************************************************************************)
(* A workspace's directory (workspace/manager.py, workspace/store.py): it  *)
(* is created, deleted, exported to an archive and imported from one by    *)
(* several processes, while agent commands save tasks and append to the    *)
(* log in it.  It exists when workspace.json does, which none of the       *)
(* writers in it creates.  A file is written whole here: what two writers  *)
(* of one file make of it is TaskExecution's subject.                      *)
(***************************************************************************)
EXTENDS Naturals, Sequences, FiniteSets, SequencesExt

CONSTANTS
    Users,       \* processes
    TaskIds,     \* tasks
    NoArchive,
    MaxOrders, MaxSaves, MaxDeaths    \* bounds

ASSUME WorkspaceBounds == MaxOrders \in Nat /\ MaxSaves \in Nat /\ MaxDeaths \in Nat

VARIABLES
    place,       \* the directory
    archive,     \* the export file
    order,       \* what each process does, and how far it is
    origin,      \* tasks and events written since workspace.json was
    troubled,    \* a deletion was cut off, a write came when there was no workspace,
                 \* it was made or deleted under an import, or comes from the
                 \* archive of such a one
    restored,    \* the last import and what it found
    spent        \* orders, saves, deaths

workspaceVars == <<place, archive, order, origin, troubled, restored, spent>>

Nowhere == [dir |-> FALSE, manifest |-> FALSE, tasks |-> [t \in TaskIds |-> 0], sessions |-> {}, events |-> << >>]

NoOrder == [op |-> "none", stage |-> "idle", file |-> Nowhere, left |-> {}, undisturbed |-> TRUE, at |-> 0]

TasksIn(d) == {<<t, d.tasks[t]>> : t \in {t \in TaskIds : d.tasks[t] # 0}}

Contents(d) == [tasks |-> d.tasks, sessions |-> d.sessions, events |-> d.events]

\* An archive, and whether the workspace was in order when it was made.
Archived(d, sound) == [tasks |-> d.tasks, sessions |-> d.sessions, events |-> d.events, sound |-> sound]

NewPlace == [Nowhere EXCEPT !.dir = TRUE, !.manifest = TRUE]

WorkspaceInit ==
    /\ place \in {Nowhere, NewPlace} /\ archive = NoArchive
    /\ order = [p \in Users |-> NoOrder]
    /\ origin = {} /\ troubled = FALSE
    /\ restored = [done |-> FALSE]
    /\ spent = [orders |-> 0, saves |-> 0, deaths |-> 0]

-----------------------------------------------------------------------------
At(p, stage) == order[p].stage = stage

\* The next stage of p; what it wrote is news to all others at work.
Go(p, job, wrote) ==
    order' = [q \in Users |->
        IF q = p THEN job
        ELSE IF wrote /\ order[q] # NoOrder THEN [order[q] EXCEPT !.undisturbed = FALSE] ELSE order[q]]

To(p, stage) == [order[p] EXCEPT !.stage = stage]

Give(p, op, stage) ==
    /\ At(p, "idle") /\ spent.orders < MaxOrders
    /\ spent' = [spent EXCEPT !.orders = @ + 1]
    /\ Go(p, [NoOrder EXCEPT !.op = op, !.stage = stage], FALSE)
    /\ restored' = [done |-> FALSE]
    /\ UNCHANGED <<place, archive, origin, troubled>>

\* WorkspaceManager.create_workspace, delete_workspace and export_workspace
\* first look for workspace.json, as agent run does.
StartCreate(p) == ~place.manifest /\ Give(p, "create", "dirs")
StartDelete(p) == place.manifest /\ Give(p, "delete", "remove")
StartExport(p) == place.manifest /\ Give(p, "export", "tasks out")
StartSession(p) == place.manifest /\ Give(p, "session", "session")

\* agent run looks for the workspace, agent resume for the task only.
StartWork(p, t) ==
    /\ place.manifest \/ place.tasks[t] # 0
    /\ Give(p, "work", "save")

\* WorkspaceManager.import_workspace: with force, the one that exists is
\* deleted first.
StartImport(p, force) ==
    /\ archive # NoArchive /\ (place.manifest => force)
    /\ At(p, "idle") /\ spent.orders < MaxOrders
    /\ spent' = [spent EXCEPT !.orders = @ + 1]
    /\ Go(p, [NoOrder EXCEPT !.op = "import", !.stage = IF place.manifest THEN "remove" ELSE "dirs",
                             !.file = archive, !.left = {t \in TaskIds : archive.tasks[t] # 0}], FALSE)
    /\ restored' = [done |-> FALSE]
    /\ UNCHANGED <<place, archive, origin, troubled>>

-----------------------------------------------------------------------------
\* What p writes outside a workspace, in one that is being deleted, or from
\* an archive of a troubled one.
Stray(p) ==
    \/ order[p].op = "import" /\ ~order[p].file.sound
    \/ ~place.manifest /\ order[p].stage \in {"save", "event", "session", "tasks in", "events in"}
    \/ \E q \in Users \ {p} : At(q, "remove")

Write(p, next, after, written) ==
    /\ place' = after
    /\ Go(p, next, TRUE)
    /\ origin' = origin \cup written
    /\ troubled' = (troubled \/ Stray(p))
    /\ restored' = [done |-> FALSE]
    /\ UNCHANGED archive

\* WorkspaceStore.create_workspace
MakeDirectories(p) ==
    /\ At(p, "dirs")
    /\ Write(p, To(p, "manifest"), [place EXCEPT !.dir = TRUE], {})
    /\ UNCHANGED spent

\* _write_json makes the directory again if it is gone.
WriteManifest(p) ==
    /\ At(p, "manifest")
    /\ place' = [place EXCEPT !.dir = TRUE, !.manifest = TRUE]
    /\ origin' = IF place.manifest THEN origin ELSE {}
    /\ LET next == IF order[p].op = "import" THEN To(p, "tasks in") ELSE NoOrder IN Go(p, next, TRUE)
    /\ troubled' = (troubled \/ Stray(p) \/ place.manifest)
    /\ restored' = [done |-> FALSE]
    /\ UNCHANGED <<archive, spent>>

\* Mutant: only workspace.json goes.
ManifestOnly(d) == IF d.manifest THEN {[d EXCEPT !.manifest = FALSE]} ELSE {}

\* shutil.rmtree: the entries one after the other in the order they come,
\* and the directory when none is left.
Removals(d) ==
    {[d EXCEPT !.tasks[t] = 0] : t \in {t \in TaskIds : d.tasks[t] # 0}}
    \cup (IF d.manifest THEN {[d EXCEPT !.manifest = FALSE]} ELSE {})
    \cup (IF d.sessions # {} THEN {[d EXCEPT !.sessions = {}]} ELSE {})
    \cup (IF d.events # << >> THEN {[d EXCEPT !.events = << >>]} ELSE {})

RemoveEntry(p) ==
    /\ At(p, "remove")
    /\ \E after \in Removals(place) : Write(p, order[p], after, {})
    /\ UNCHANGED spent

RemoveDirectory(p) ==
    /\ At(p, "remove") /\ place.dir /\ Removals(place) = {}
    /\ place' = [place EXCEPT !.dir = FALSE]
    /\ troubled' = \E q \in Users \ {p} : order[q].op = "import" \/ (troubled /\ order[q] # NoOrder)
    /\ restored' = [done |-> FALSE]
    /\ Go(p, IF order[p].op = "import" THEN To(p, "dirs") ELSE NoOrder, TRUE)
    /\ UNCHANGED <<archive, origin, spent>>

-----------------------------------------------------------------------------
\* WorkspaceManager.export_workspace: tasks, sessions and events are read one
\* after the other; the archive is renamed into place.
ReadOut(p) ==
    /\ \/ /\ At(p, "tasks out") /\ order' = [order EXCEPT ![p].file.tasks = place.tasks, ![p].stage = "sessions out"]
       \/ /\ At(p, "sessions out") /\ order' = [order EXCEPT ![p].file.sessions = place.sessions, ![p].stage = "events out"]
       \/ /\ At(p, "events out") /\ order' = [order EXCEPT ![p].file.events = place.events, ![p].stage = "archive"]
    /\ UNCHANGED <<place, archive, origin, troubled, restored, spent>>

WriteArchive(p) ==
    /\ At(p, "archive")
    /\ archive' = Archived(order[p].file, ~troubled)
    /\ Go(p, NoOrder, FALSE)
    /\ restored' = [done |-> order[p].undisturbed, of |-> Contents(order[p].file), empty |-> TRUE]
    /\ UNCHANGED <<place, origin, troubled, spent>>

\* WorkspaceManager.import_workspace: each task, each session and each event
\* is a write of its own; tasks are saved anew, events appended.
RestoreTask(p, t) ==
    /\ At(p, "tasks in") /\ t \in order[p].left
    /\ LET v == order[p].file.tasks[t]
       IN  Write(p, [order[p] EXCEPT !.left = @ \ {t}], [place EXCEPT !.dir = TRUE, !.tasks[t] = v], {<<t, v>>})
    /\ UNCHANGED spent

RestoreSessions(p) ==
    /\ At(p, "tasks in") /\ order[p].left = {}
    /\ Write(p, To(p, "events in"), [place EXCEPT !.dir = TRUE, !.sessions = @ \cup order[p].file.sessions], {})
    /\ UNCHANGED spent

RestoreEvent(p) ==
    /\ At(p, "events in") /\ order[p].at < Len(order[p].file.events)
    /\ LET e == order[p].file.events[order[p].at + 1]
       IN  Write(p, [order[p] EXCEPT !.at = @ + 1],
                 [place EXCEPT !.dir = TRUE, !.events = Append(@, e)], {<<"event", e>>})
    /\ UNCHANGED spent

EndImport(p) ==
    /\ At(p, "events in") /\ order[p].at = Len(order[p].file.events)
    /\ Go(p, NoOrder, FALSE)
    /\ restored' = [done |-> order[p].undisturbed, of |-> Contents(order[p].file), empty |-> ~troubled]
    /\ UNCHANGED <<place, archive, origin, troubled, spent>>

\* cli agent run and resume: the task is saved, then the event is appended;
\* a run does both twice.
SaveTask(p, t) ==
    /\ At(p, "save") /\ spent.saves < MaxSaves
    /\ LET v == spent.saves + 1
       IN  /\ Write(p, [order[p] EXCEPT !.stage = "event", !.at = <<t, v>>],
                    [place EXCEPT !.dir = TRUE, !.tasks[t] = v], {<<t, v>>})
           /\ spent' = [spent EXCEPT !.saves = v]

AppendEvent(p) ==
    /\ At(p, "event")
    /\ \E again \in BOOLEAN :
         Write(p, IF again THEN To(p, "save") ELSE NoOrder,
               [place EXCEPT !.dir = TRUE, !.events = Append(@, order[p].at)], {<<"event", order[p].at>>})
    /\ UNCHANGED spent

\* WorkspaceManager.create_session
SaveSession(p) ==
    /\ At(p, "session")
    /\ Write(p, NoOrder, [place EXCEPT !.dir = TRUE, !.sessions = @ \cup {Cardinality(@) + 1}], {})
    /\ UNCHANGED spent

\* A process dies, or fails on what another one changed under it.
GiveUp(p) ==
    /\ order[p] # NoOrder
    /\ order[p].undisturbed => spent.deaths < MaxDeaths
    /\ spent' = [spent EXCEPT !.deaths = IF order[p].undisturbed THEN @ + 1 ELSE @]
    /\ troubled' = (troubled \/ At(p, "remove"))
    /\ Go(p, NoOrder, FALSE)
    /\ UNCHANGED <<place, archive, origin, restored>>

WorkspaceNext ==
    \E p \in Users :
        \/ StartCreate(p) \/ StartDelete(p) \/ StartExport(p) \/ StartSession(p)
        \/ \E force \in BOOLEAN : StartImport(p, force)
        \/ MakeDirectories(p) \/ WriteManifest(p) \/ RemoveEntry(p) \/ RemoveDirectory(p)
        \/ ReadOut(p) \/ WriteArchive(p) \/ RestoreSessions(p) \/ RestoreEvent(p) \/ EndImport(p)
        \/ \E t \in TaskIds : StartWork(p, t) \/ SaveTask(p, t) \/ RestoreTask(p, t)
        \/ AppendEvent(p) \/ SaveSession(p) \/ GiveUp(p)

WorkspaceSpec == WorkspaceInit /\ [][WorkspaceNext]_workspaceVars

-----------------------------------------------------------------------------
\* What is in a workspace was written into it since it was created or
\* imported, each event once, and an export or import that nobody disturbed
\* leaves the archive and the workspace the same -- unless a deletion was cut
\* off, or something was saved after it, where there was no workspace any
\* more: that is found again in the next one; or it was deleted or made while
\* an import was at it, which goes on and adds its events; or it was imported
\* from the archive of such a one (WorkspaceStore.create_workspace,
\* delete_workspace, WorkspaceManager.import_workspace).
WorkspaceIsItsOwn ==
    /\ (place.manifest /\ ~troubled) =>
         /\ TasksIn(place) \subseteq origin
         /\ \A i \in DOMAIN place.events : <<"event", place.events[i]>> \in origin
         /\ IsInjective(place.events)
    /\ (restored.done /\ restored.empty) => Contents(place) = restored.of
=============================================================================
