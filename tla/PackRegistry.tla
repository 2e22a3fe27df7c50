---------------------------- MODULE PackRegistry ----------------------------
(***************************************************************************)
(* Installed packs: the directories under ~/.vcse/packs, registry.json and *)
(* the commands on them (packs/installer.py, registry.py, resolver.py),    *)
(* run by several processes at once, any of which may die.                 *)
(*                                                                         *)
(* The registry is saved by renaming a temporary file of its own name, so  *)
(* a save is one step; but add and remove load it first and save what they *)
(* made of that.  A directory is copied file by file and is partial until  *)
(* the copy ends.  The resolver reads the registry anew for every pack it  *)
(* looks for, and its recursion is a stack here.                           *)
(***************************************************************************)
EXTENDS Integers, Sequences, SequencesExt

CONSTANTS
    Installers,      \* the processes
    Sources,         \* validated packs that can be installed
    TextOrder,       \* the place of a version among the version strings
    Specs,           \* the lists of packs a resolution may be asked for
    MaxInstalls,     \* bound on the commands run
    MaxDeaths        \* bound on the processes that die

\* A pack is its id, its version (a number for a semantic version) and its
\* dependencies, each with the set of versions its requirement admits.
\* A version of a pack is never Latest, which stands for None, and distinct
\* versions are distinct strings.
ASSUME SourcesAssumption ==
    /\ \A s \in Sources : s = [id |-> s.id, version |-> s.version, needs |-> s.needs]
    /\ \A s \in Sources : s.version # 0 /\ s.needs \in Seq(ToSet(s.needs))
    /\ \A s, t \in Sources : <<s.id, s.version>> = <<t.id, t.version>> => s = t
    /\ \A s \in Sources : TextOrder[s.version] \in Nat
    /\ \A s, t \in Sources : TextOrder[s.version] = TextOrder[t.version] => s.version = t.version
    /\ \A l \in Specs : l \in Seq(ToSet(l)) /\ l # << >>
    /\ MaxInstalls \in Nat /\ MaxDeaths \in Nat

VARIABLES
    disk,        \* what is in the directory of a pack
    registry,    \* the records of registry.json
    removed,     \* slots whose directory some command set out to remove
    task,        \* the command of each process
    spent        \* commands started and processes that died

registryVars == <<disk, registry, removed, task, spent>>

Slot(s) == <<s.id, s.version>>

Slots == {Slot(s) : s \in Sources}

Latest == 0

AtRest == [op |-> "none", step |-> "idle"]

\* Any of the packs are installed already.
RegistryInit ==
    /\ registry \in SUBSET Sources
    /\ disk = [s \in Slots |-> IF \E r \in registry : Slot(r) = s THEN "whole" ELSE "absent"]
    /\ removed = {}
    /\ task = [p \in Installers |-> AtRest]
    /\ spent = [commands |-> 0, deaths |-> 0]

InStage(p, op, step) == task[p].op = op /\ task[p].step = step

Begin(p, t) ==
    /\ task[p] = AtRest
    /\ spent.commands < MaxInstalls
    /\ task' = [task EXCEPT ![p] = t]
    /\ spent' = [spent EXCEPT !.commands = @ + 1]

Step(p, t) == task' = [task EXCEPT ![p] = t] /\ UNCHANGED spent

GoOn(p, step) == Step(p, [task[p] EXCEPT !.step = step])

End(p) == Step(p, AtRest)

-----------------------------------------------------------------------------
(* install and uninstall.                                                  *)

Install(p, s, force) ==
    /\ Begin(p, [op |-> "install", step |-> "place", pack |-> s, force |-> force])
    /\ UNCHANGED <<disk, registry, removed>>

InstallRefused(p) ==
    /\ InStage(p, "install", "place")
    /\ disk[Slot(task[p].pack)] # "absent" /\ ~task[p].force
    /\ End(p)
    /\ UNCHANGED <<disk, registry, removed>>

RemoveForReinstall(p) ==
    LET s == Slot(task[p].pack)
    IN  /\ InStage(p, "install", "place")
        /\ disk[s] # "absent" /\ task[p].force
        /\ disk' = [disk EXCEPT ![s] = "absent"]
        /\ removed' = removed \cup {s}
        /\ GoOn(p, "copy")
        /\ UNCHANGED registry

NothingThere(p) ==
    /\ InStage(p, "install", "place")
    /\ disk[Slot(task[p].pack)] = "absent"
    /\ GoOn(p, "copy")
    /\ UNCHANGED <<disk, registry, removed>>

\* copytree refuses a directory that exists by now.
BeginCopy(p) ==
    LET s == Slot(task[p].pack)
    IN  /\ InStage(p, "install", "copy")
        /\ IF disk[s] = "absent"
           THEN disk' = [disk EXCEPT ![s] = "partial"] /\ GoOn(p, "copying")
           ELSE disk' = disk /\ End(p)
        /\ UNCHANGED <<registry, removed>>

\* Mutant: the record is made although the copy failed.
EndCopyRegardless(p) ==
    LET s == Slot(task[p].pack)
    IN  /\ InStage(p, "install", "copying")
        /\ disk' \in {disk, [disk EXCEPT ![s] = IF @ = "partial" THEN "whole" ELSE @]}
        /\ GoOn(p, "add")
        /\ UNCHANGED <<registry, removed>>

\* The copy succeeds, or fails on an error of the disk or because another
\* command removed the directory; one that made it anew may get the rest of
\* this copy, and lack the beginning.
EndCopy(p) ==
    LET s == Slot(task[p].pack)
    IN  /\ InStage(p, "install", "copying")
        /\ \/ disk[s] = "partial" /\ disk' = [disk EXCEPT ![s] = "whole"] /\ GoOn(p, "add")
           \/ disk[s] # "absent" /\ s \in removed /\ disk' = disk /\ GoOn(p, "add")
           \/ disk' = disk /\ End(p)
        /\ UNCHANGED <<registry, removed>>

\* add loads the registry, and refuses a record it has unless forced.
LoadForAdd(p) ==
    LET s == Slot(task[p].pack)
    IN  /\ InStage(p, "install", "add")
        /\ IF ~task[p].force /\ \E r \in registry : Slot(r) = s
           THEN End(p)
           ELSE Step(p, [op |-> "install", step |-> "save",
                         records |-> {r \in registry : Slot(r) # s} \cup {task[p].pack}])
        /\ UNCHANGED <<disk, registry, removed>>

\* The records of a version, or of all versions, of a pack.
Matching(records, id, version) ==
    {r \in records : r.id = id /\ (version = Latest \/ r.version = version)}

Uninstall(p, id, version) ==
    /\ Begin(p, [op |-> "uninstall", step |-> "remove", id |-> id, version |-> version,
                 targets |-> {Slot(r) : r \in Matching(registry, id, version)}])
    /\ UNCHANGED <<disk, registry, removed>>

RemoveTarget(p, s) ==
    /\ InStage(p, "uninstall", "remove")
    /\ s \in task[p].targets
    /\ disk' = [disk EXCEPT ![s] = "absent"]
    /\ removed' = removed \cup {s}
    /\ Step(p, [task[p] EXCEPT !.targets = @ \ {s}])
    /\ UNCHANGED registry

LoadForRemove(p) ==
    /\ InStage(p, "uninstall", "remove")
    /\ task[p].targets = {}
    /\ Step(p, [op |-> "uninstall", step |-> "save",
                records |-> registry \ Matching(registry, task[p].id, task[p].version)])
    /\ UNCHANGED <<disk, registry, removed>>

SaveRegistry(p) ==
    /\ task[p].step = "save"
    /\ registry' = task[p].records
    /\ End(p)
    /\ UNCHANGED <<disk, removed>>

-----------------------------------------------------------------------------
(* Resolution.                                                             *)

\* find: the record of a version, or of the version whose text sorts last.
Found(id, version) ==
    LET candidates == Matching(registry, id, version)
    IN  {r \in candidates : \A o \in candidates : TextOrder[o.version] <= TextOrder[r.version]}

Resolve(p, specs) ==
    /\ Begin(p, [op |-> "resolve", step |-> "visit", specs |-> specs, next |-> Head(specs),
                 stack |-> << >>, seen |-> {}, ordered |-> << >>])
    /\ UNCHANGED <<disk, registry, removed>>

\* Mutant: one that is being visited is passed over, too.
VisitCycle(p) ==
    LET t == task[p]
        key == t.next
    IN  /\ InStage(p, "resolve", "visit")
        /\ IF key \in t.seen \/ \E i \in DOMAIN t.stack : t.stack[i].key = key THEN GoOn(p, "descend")
           ELSE IF Found(key[1], key[2]) = {} THEN End(p)
           ELSE \E r \in Found(key[1], key[2]) :
                  Step(p, [t EXCEPT !.step = "descend",
                                    !.stack = Append(@, [key |-> key, pack |-> r, needs |-> r.needs])])
        /\ UNCHANGED <<disk, registry, removed>>

\* A pack that was visited is passed over; one that is being visited is a
\* cycle, and one that is not registered is missing: both raise.
Visit(p) ==
    LET t == task[p]
        key == t.next
    IN  /\ InStage(p, "resolve", "visit")
        /\ IF key \in t.seen THEN GoOn(p, "descend")
           ELSE IF \/ \E i \in DOMAIN t.stack : t.stack[i].key = key
                   \/ Found(key[1], key[2]) = {}
           THEN End(p)
           ELSE \E r \in Found(key[1], key[2]) :
                  Step(p, [t EXCEPT !.step = "descend",
                                    !.stack = Append(@, [key |-> key, pack |-> r, needs |-> r.needs])])
        /\ UNCHANGED <<disk, registry, removed>>

\* A dependency is looked for in its newest version, which must satisfy
\* the requirement, and then visited in that version.
Descend(p) ==
    LET t == task[p]
        top == Last(t.stack)
        need == Head(top.needs)
        newest == Found(need.id, Latest)
    IN  /\ InStage(p, "resolve", "descend")
        /\ t.stack # << >> /\ top.needs # << >>
        /\ IF ~\E r \in newest : r.version \in need.versions THEN End(p)
           ELSE \E r \in newest :
                  Step(p, [t EXCEPT !.step = "visit", !.next = Slot(r),
                                    !.stack = Append(Front(@), [top EXCEPT !.needs = Tail(@)])])
        /\ UNCHANGED <<disk, registry, removed>>

\* A pack whose dependencies are all resolved is.
Leave(p) ==
    LET t == task[p]
        top == Last(t.stack)
    IN  /\ InStage(p, "resolve", "descend")
        /\ t.stack # << >> /\ top.needs = << >>
        /\ Step(p, [t EXCEPT !.stack = Front(@), !.seen = @ \cup {top.key},
                             !.ordered = Append(@, top.pack)])
        /\ UNCHANGED <<disk, registry, removed>>

NextSpec(p) ==
    LET t == task[p]
    IN  /\ InStage(p, "resolve", "descend")
        /\ t.stack = << >>
        /\ IF Len(t.specs) > 1
           THEN Step(p, [t EXCEPT !.step = "visit", !.specs = Tail(@), !.next = t.specs[2]])
           ELSE GoOn(p, "resolved")
        /\ UNCHANGED <<disk, registry, removed>>

Resolved(p) == InStage(p, "resolve", "resolved") /\ End(p) /\ UNCHANGED <<disk, registry, removed>>

-----------------------------------------------------------------------------
\* A process that dies while it removes a directory leaves a part of it.
DieInstalling(p) ==
    /\ task[p] # AtRest
    /\ spent.deaths < MaxDeaths
    /\ task' = [task EXCEPT ![p] = AtRest]
    /\ spent' = [spent EXCEPT !.deaths = @ + 1]
    /\ \/ UNCHANGED <<disk, removed>>
       \/ \E s \in Slots :
            /\ disk[s] # "absent"
            /\ \/ InStage(p, "install", "place") /\ task[p].force /\ s = Slot(task[p].pack)
               \/ InStage(p, "uninstall", "remove") /\ s \in task[p].targets
            /\ disk' = [disk EXCEPT ![s] = "partial"]
            /\ removed' = removed \cup {s}
    /\ UNCHANGED registry

InstallStep(p) ==
    \/ InstallRefused(p) \/ RemoveForReinstall(p) \/ NothingThere(p)
    \/ BeginCopy(p) \/ EndCopy(p) \/ LoadForAdd(p)

UninstallStep(p) == LoadForRemove(p) \/ \E s \in Slots : RemoveTarget(p, s)

ResolveStep(p) == Visit(p) \/ Descend(p) \/ Leave(p) \/ NextSpec(p) \/ Resolved(p)

RegistryNext ==
    \/ \E p \in Installers :
         \/ \E s \in Sources, force \in BOOLEAN : Install(p, s, force)
         \/ \E s \in Sources : \E version \in {Latest, s.version} : Uninstall(p, s.id, version)
         \/ \E specs \in Specs : Resolve(p, specs)
    \/ \E p \in Installers :
         InstallStep(p) \/ UninstallStep(p) \/ SaveRegistry(p) \/ ResolveStep(p) \/ DieInstalling(p)

RegistrySpec == RegistryInit /\ [][RegistryNext]_registryVars

-----------------------------------------------------------------------------
\* A record of the registry points to a whole directory, whatever overlaps
\* and whoever dies, unless some command set out to remove that directory
\* (PackInstaller.install records a pack only after its copy).
RecordsAreWhole == \A r \in registry : Slot(r) \in removed \/ disk[Slot(r)] = "whole"

\* A resolution lists every dependency, in a version its requirement
\* admits, before the packs that need it, though the registry may change
\* between any two of its lookups (DependencyResolver.resolve).
DependenciesComeFirst ==
    \A p \in Installers : task[p].op = "resolve" =>
        LET ordered == task[p].ordered
        IN  \A i \in DOMAIN ordered : \A n \in DOMAIN ordered[i].needs :
                \E j \in 1..(i - 1) :
                    /\ ordered[j].id = ordered[i].needs[n].id
                    /\ ordered[j].version \in ordered[i].needs[n].versions
=============================================================================
