---------------------------- MODULE WorkspaceProofs ----------------------------
(***************************************************************************)
(* Proofs about a workspace's directory, for any processes, tasks and      *)
(* bounds: what is in it is its own, and is what was exported.             *)
(***************************************************************************)
EXTENDS Workspace, SequenceTheorems, TLAPS

-----------------------------------------------------------------------------
(* The shape of the state.                                                 *)

Events == TaskIds \X Nat

Saved == [TaskIds -> Nat]

\* A directory, and the archive that export is making of one.
DirectoryOK(d) ==
    d \in [dir : BOOLEAN, manifest : BOOLEAN, tasks : Saved, sessions : {d.sessions}, events : Seq(Events)]

\* An archive of a workspace in order has every event once.
ArchiveOK(a) ==
    /\ a.tasks \in Saved /\ a.events \in Seq(Events) /\ a.sound \in BOOLEAN
    /\ a.sound => IsInjective(a.events)

Importing(o) == o.stage \in {"tasks in", "events in"}

OrderOK(o) ==
    /\ o \in [op : {o.op}, stage : {o.stage}, file : {o.file}, left : {o.left}, undisturbed : BOOLEAN, at : {o.at}]
    /\ \/ o.op = "none" /\ o.stage = "idle" /\ o = NoOrder
       \/ o.op = "create" /\ o.stage \in {"dirs", "manifest"}
       \/ o.op = "delete" /\ o.stage = "remove"
       \/ /\ o.op = "export" /\ o.stage \in {"tasks out", "sessions out", "events out", "archive"}
          /\ DirectoryOK(o.file)
       \/ o.op = "session" /\ o.stage = "session"
       \/ o.op = "work" /\ o.stage = "save"
       \/ o.op = "work" /\ o.stage = "event" /\ o.at \in Events
       \/ /\ o.op = "import" /\ o.stage \in {"remove", "dirs", "manifest", "tasks in", "events in"}
          /\ ArchiveOK(o.file)
          /\ o.at \in 0..Len(o.file.events)
          /\ o.stage # "events in" => o.at = 0
          /\ ~Importing(o) => o.left = {t \in TaskIds : o.file.tasks[t] # 0}

Shape ==
    /\ DirectoryOK(place)
    /\ archive # NoArchive => ArchiveOK(archive)
    /\ order = [p \in Users |-> order[p]]
    /\ \A p \in Users : OrderOK(order[p])
    /\ troubled \in BOOLEAN
    /\ spent \in [orders : Nat, saves : Nat, deaths : Nat]

\* What the others at work notice of a step: at most that it wrote.
Kept(n, o) ==
    /\ n.op = o.op /\ n.stage = o.stage /\ n.file = o.file /\ n.left = o.left /\ n.at = o.at
    /\ n.undisturbed => o.undisturbed
    /\ (n = NoOrder) = (o = NoOrder)

OthersKept(p) == \A q \in Users \ {p} : OrderOK(order'[q]) /\ Kept(order'[q], order[q])

OthersTold(p) == \A q \in Users \ {p} : order'[q] # NoOrder => ~order'[q].undisturbed

LEMMA NoOrderOK == OrderOK(NoOrder) /\ NoOrder.undisturbed = TRUE /\ NoOrder.op = "none" /\ NoOrder.stage = "idle"
                   /\ NoOrder.at = 0 /\ NoOrder.left = {} /\ NoOrder.file = Nowhere
  BY DEF OrderOK, NoOrder, Nowhere

LEMMA IdleIsNone ==
    ASSUME NEW o, OrderOK(o)
    PROVE  (o.stage = "idle") = (o = NoOrder)
  BY NoOrderOK DEF OrderOK

LEMMA NowhereOK == DirectoryOK(Nowhere) /\ DirectoryOK(NewPlace)
  <1>1. << >> \in Seq(Events)
    BY EmptySeq
  <1>2. [t \in TaskIds |-> 0] \in Saved
    BY DEF Saved
  <1> QED
    BY <1>1, <1>2 DEF DirectoryOK, Nowhere, NewPlace

LEMMA GoKeeps ==
    ASSUME NEW p \in Users, NEW job, NEW wrote \in BOOLEAN, Shape, Go(p, job, wrote)
    PROVE  /\ order' = [q \in Users |-> order'[q]] /\ order'[p] = job
           /\ OthersKept(p)
           /\ wrote => OthersTold(p)
  <1>1. order' = [q \in Users |-> order'[q]] /\ order'[p] = job
    BY DEF Go
  <1>2. ASSUME NEW q \in Users \ {p}
        PROVE  /\ OrderOK(order'[q]) /\ Kept(order'[q], order[q])
               /\ wrote /\ order'[q] # NoOrder => ~order'[q].undisturbed
    <2>1. CASE ~(wrote /\ order[q] # NoOrder)
      <3>1. order'[q] = order[q]
        BY <2>1 DEF Go
      <3> QED
        BY <3>1, <2>1 DEF Shape, Kept
    <2>2. CASE wrote /\ order[q] # NoOrder
      <3> DEFINE o == order[q]
                 n == [o EXCEPT !.undisturbed = FALSE]
      <3>1. order'[q] = n
        BY <2>2 DEF Go
      <3>2. OrderOK(o)
        BY DEF Shape
      <3> HIDE DEF o
      <3>3. /\ n \in [op : {n.op}, stage : {n.stage}, file : {n.file}, left : {n.left},
                      undisturbed : BOOLEAN, at : {n.at}]
            /\ n.op = o.op /\ n.stage = o.stage /\ n.file = o.file /\ n.left = o.left /\ n.at = o.at
            /\ n.undisturbed = FALSE
        BY <3>2 DEF OrderOK
      <3> HIDE DEF n
      <3>4. o.stage # "idle" /\ o # NoOrder
        BY <2>2, <3>2, IdleIsNone DEF o
      <3>5. n # NoOrder
        BY <3>3, NoOrderOK
      <3>6. OrderOK(n)
        BY <3>2, <3>3, <3>4 DEF OrderOK, Importing
      <3> QED
        BY <3>1, <3>3, <3>4, <3>5, <3>6 DEF Kept, o
    <2> QED
      BY <2>1, <2>2
  <1> QED
    BY <1>1, <1>2 DEF OthersKept, OthersTold

-----------------------------------------------------------------------------
(* What the steps write, field by field.                                   *)

LEMMA DirectoryWrites ==
    ASSUME NEW d, DirectoryOK(d), NEW b \in BOOLEAN, NEW c, NEW t \in TaskIds, NEW v \in Nat, NEW e \in Events
    PROVE  /\ LET n == [d EXCEPT !.dir = b]
              IN  DirectoryOK(n) /\ n.dir = b /\ n.manifest = d.manifest /\ n.tasks = d.tasks
                  /\ n.sessions = d.sessions /\ n.events = d.events
           /\ LET n == [d EXCEPT !.manifest = b]
              IN  DirectoryOK(n) /\ n.manifest = b /\ n.tasks = d.tasks
                  /\ n.sessions = d.sessions /\ n.events = d.events
           /\ LET n == [d EXCEPT !.tasks[t] = v]
              IN  DirectoryOK(n) /\ n.manifest = d.manifest /\ n.tasks = [d.tasks EXCEPT ![t] = v]
                  /\ n.sessions = d.sessions /\ n.events = d.events
           /\ LET n == [d EXCEPT !.dir = b, !.tasks[t] = v]
              IN  DirectoryOK(n) /\ n.manifest = d.manifest /\ n.tasks = [d.tasks EXCEPT ![t] = v]
                  /\ n.sessions = d.sessions /\ n.events = d.events
           /\ LET n == [d EXCEPT !.sessions = c]
              IN  DirectoryOK(n) /\ n.manifest = d.manifest /\ n.tasks = d.tasks
                  /\ n.sessions = c /\ n.events = d.events
           /\ LET n == [d EXCEPT !.dir = b, !.sessions = c]
              IN  DirectoryOK(n) /\ n.manifest = d.manifest /\ n.tasks = d.tasks
                  /\ n.sessions = c /\ n.events = d.events
           /\ LET n == [d EXCEPT !.events = << >>]
              IN  DirectoryOK(n) /\ n.manifest = d.manifest /\ n.tasks = d.tasks
                  /\ n.sessions = d.sessions /\ n.events = << >>
           /\ LET n == [d EXCEPT !.dir = b, !.events = Append(d.events, e)]
              IN  DirectoryOK(n) /\ n.manifest = d.manifest /\ n.tasks = d.tasks
                  /\ n.sessions = d.sessions /\ n.events = Append(d.events, e)
  <1>1. << >> \in Seq(Events) /\ Append(d.events, e) \in Seq(Events)
    BY EmptySeq, AppendProperties DEF DirectoryOK
  <1>2. [d.tasks EXCEPT ![t] = v] \in Saved
    BY DEF DirectoryOK, Saved
  <1> QED
    BY <1>1, <1>2 DEF DirectoryOK

\* An entry that is removed is empty afterwards, the others stay.
LEMMA RemovalsAre ==
    ASSUME NEW d, DirectoryOK(d)
    PROVE  /\ \A n \in Removals(d) :
                /\ DirectoryOK(n)
                /\ n.manifest => d.manifest
                /\ n.events = d.events \/ n.events = << >>
                /\ \A t \in TaskIds : n.tasks[t] = d.tasks[t] \/ n.tasks[t] = 0
           /\ Removals(d) = {} =>
                ~d.manifest /\ d.sessions = {} /\ d.events = << >> /\ \A t \in TaskIds : d.tasks[t] = 0
  <1>1. ASSUME NEW n \in Removals(d)
        PROVE  /\ DirectoryOK(n)
               /\ n.manifest => d.manifest
               /\ n.events = d.events \/ n.events = << >>
               /\ \A t \in TaskIds : n.tasks[t] = d.tasks[t] \/ n.tasks[t] = 0
    <2>1. CASE \E t \in TaskIds : n = [d EXCEPT !.tasks[t] = 0]
      <3>1. PICK t \in TaskIds : n = [d EXCEPT !.tasks[t] = 0]
        BY <2>1
      <3> QED
        BY <3>1 DEF DirectoryOK, Saved
    <2>2. CASE d.manifest /\ n = [d EXCEPT !.manifest = FALSE]
      BY <2>2 DEF DirectoryOK
    <2>3. CASE n = [d EXCEPT !.sessions = {}]
      BY <2>3 DEF DirectoryOK
    <2>4. CASE n = [d EXCEPT !.events = << >>]
      BY <2>4, EmptySeq DEF DirectoryOK
    <2> QED
      BY <2>1, <2>2, <2>3, <2>4 DEF Removals
  <1>2. ASSUME Removals(d) = {}
        PROVE  ~d.manifest /\ d.sessions = {} /\ d.events = << >> /\ \A t \in TaskIds : d.tasks[t] = 0
    BY <1>2 DEF Removals
  <1> QED
    BY <1>1, <1>2

\* An order as it moves on.
LEMMA OrderMoves ==
    ASSUME NEW o, OrderOK(o), NEW stage, NEW a, NEW c
    PROVE  /\ LET n == [o EXCEPT !.stage = stage]
              IN  n \in [op : {o.op}, stage : {stage}, file : {o.file}, left : {o.left},
                         undisturbed : {o.undisturbed}, at : {o.at}]
           /\ LET n == [o EXCEPT !.stage = stage, !.at = a]
              IN  n \in [op : {o.op}, stage : {stage}, file : {o.file}, left : {o.left},
                         undisturbed : {o.undisturbed}, at : {a}]
           /\ LET n == [o EXCEPT !.at = a]
              IN  n \in [op : {o.op}, stage : {o.stage}, file : {o.file}, left : {o.left},
                         undisturbed : {o.undisturbed}, at : {a}]
           /\ LET n == [o EXCEPT !.left = c]
              IN  n \in [op : {o.op}, stage : {o.stage}, file : {o.file}, left : {c},
                         undisturbed : {o.undisturbed}, at : {o.at}]
  BY DEF OrderOK

LEMMA OrderGiven ==
    ASSUME NEW op, NEW stage, NEW a, NEW c
    PROVE  /\ [NoOrder EXCEPT !.op = op, !.stage = stage]
                \in [op : {op}, stage : {stage}, file : {Nowhere}, left : {{}}, undisturbed : {TRUE}, at : {0}]
           /\ [NoOrder EXCEPT !.op = op, !.stage = stage, !.file = a, !.left = c]
                \in [op : {op}, stage : {stage}, file : {a}, left : {c}, undisturbed : {TRUE}, at : {0}]
  BY DEF NoOrder

-----------------------------------------------------------------------------
(* What each step does to the order of its process and to the directory.   *)

Fields(op, stage, file, left, undisturbed, at) ==
    [op : {op}, stage : {stage}, file : {file}, left : {left}, undisturbed : {undisturbed}, at : {at}]

\* One process moved on, and the state has its shape.
Moved(p) == Shape' /\ OthersKept(p)

Wrote(p) == Moved(p) /\ OthersTold(p) /\ archive' = archive /\ restored' = [done |-> FALSE]

Started(p) ==
    /\ Moved(p) /\ order[p].stage = "idle" /\ order'[p].stage \notin {"idle", "event", "tasks in", "events in"}
    /\ place' = place /\ archive' = archive /\ origin' = origin /\ troubled' = troubled
    /\ spent'.saves = spent.saves /\ restored' = [done |-> FALSE]
    /\ order'[p].op = "export" => order'[p].stage = "tasks out" /\ order'[p].file = Nowhere
    /\ order'[p].op = "import" => archive # NoArchive /\ order'[p].file = archive

LEMMA Starts ==
    ASSUME Shape, NEW p \in Users,
           \/ StartCreate(p) \/ StartDelete(p) \/ StartExport(p) \/ StartSession(p)
           \/ \E t \in TaskIds : StartWork(p, t)
           \/ \E force \in BOOLEAN : StartImport(p, force)
    PROVE  Started(p)
  <1>1. CASE \E force \in BOOLEAN : StartImport(p, force)
    <2>1. PICK force \in BOOLEAN : StartImport(p, force)
      BY <1>1
    <2> DEFINE c == {t \in TaskIds : archive.tasks[t] # 0}
               s == IF place.manifest THEN "remove" ELSE "dirs"
    <2>2. PICK n : n = [NoOrder EXCEPT !.op = "import", !.stage = s, !.file = archive, !.left = c]
      OBVIOUS
    <2>3. Go(p, n, FALSE)
      BY <2>1, <2>2 DEF StartImport
    <2>4. n \in Fields("import", s, archive, c, TRUE, 0)
      <3> HIDE DEF s, c
      <3> QED
        BY <2>2, OrderGiven DEF Fields
    <2>5. archive # NoArchive /\ ArchiveOK(archive)
      BY <2>1 DEF StartImport, Shape
    <2>6. 0 \in 0..Len(archive.events)
      BY <2>5, LenProperties DEF ArchiveOK
    <2>7. OrderOK(n)
      BY <2>4, <2>5, <2>6 DEF OrderOK, Fields, Importing
    <2>8. order' = [q \in Users |-> order'[q]] /\ order'[p] = n /\ OthersKept(p)
      BY <2>3, GoKeeps
    <2>9. Moved(p)
      <3>1. spent' \in [orders : Nat, saves : Nat, deaths : Nat] /\ place' = place /\ archive' = archive /\ troubled' = troubled
        <4>1. spent \in [orders : Nat, saves : Nat, deaths : Nat]
          BY DEF Shape
        <4>2. /\ spent' = [spent EXCEPT !.orders = spent.orders + 1]
              /\ place' = place /\ archive' = archive /\ troubled' = troubled
          BY <2>1 DEF StartImport
        <4>3. spent.orders + 1 \in Nat
          BY <4>1
        <4>4. [spent EXCEPT !.orders = spent.orders + 1] \in [orders : Nat, saves : Nat, deaths : Nat]
          BY <4>1, <4>3
        <4> QED
          BY <4>2, <4>4
      <3>2. \A q \in Users : OrderOK(order'[q])
        BY <2>7, <2>8 DEF OthersKept
      <3> QED
        BY <2>8, <3>1, <3>2 DEF Moved, Shape
    <2> QED
      BY <2>1, <2>4, <2>5, <2>8, <2>9 DEF Started, Fields, StartImport, At, Shape
  <1>2. CASE ~\E force \in BOOLEAN : StartImport(p, force)
    <2> DEFINE Kind(op, stage) ==
                 \/ op = "create" /\ stage = "dirs"
                 \/ op = "delete" /\ stage = "remove"
                 \/ op = "export" /\ stage = "tasks out"
                 \/ op = "session" /\ stage = "session"
                 \/ op = "work" /\ stage = "save"
    <2>1. \E op, stage : Kind(op, stage) /\ Give(p, op, stage)
      BY <1>2 DEF StartCreate, StartDelete, StartExport, StartSession, StartWork
    <2>2. PICK op, stage : Kind(op, stage) /\ Give(p, op, stage)
      BY <2>1
    <2>3. PICK n : n = [NoOrder EXCEPT !.op = op, !.stage = stage]
      OBVIOUS
    <2>4. Go(p, n, FALSE)
      BY <2>2, <2>3 DEF Give
    <2>5. n \in Fields(op, stage, Nowhere, {}, TRUE, 0)
      BY <2>3, OrderGiven DEF Fields
    <2>6. OrderOK(n)
      <3>1. n.op = op /\ n.stage = stage /\ n.file = Nowhere
            /\ n \in [op : {n.op}, stage : {n.stage}, file : {n.file}, left : {n.left}, undisturbed : BOOLEAN, at : {n.at}]
        BY <2>5 DEF Fields
      <3> QED
        BY <3>1, <2>2, NowhereOK DEF OrderOK
    <2>7. order' = [q \in Users |-> order'[q]] /\ order'[p] = n /\ OthersKept(p)
      BY <2>4, GoKeeps
    <2>8. Moved(p)
      <3>1. spent' \in [orders : Nat, saves : Nat, deaths : Nat] /\ place' = place /\ archive' = archive /\ troubled' = troubled
        <4>1. spent \in [orders : Nat, saves : Nat, deaths : Nat]
          BY DEF Shape
        <4>2. /\ spent' = [spent EXCEPT !.orders = spent.orders + 1]
              /\ place' = place /\ archive' = archive /\ troubled' = troubled
          BY <2>2 DEF Give
        <4>3. spent.orders + 1 \in Nat
          BY <4>1
        <4>4. [spent EXCEPT !.orders = spent.orders + 1] \in [orders : Nat, saves : Nat, deaths : Nat]
          BY <4>1, <4>3
        <4> QED
          BY <4>2, <4>4
      <3>2. \A q \in Users : OrderOK(order'[q])
        BY <2>6, <2>7 DEF OthersKept
      <3> QED
        BY <2>7, <3>1, <3>2 DEF Moved, Shape
    <2> QED
      BY <2>2, <2>5, <2>7, <2>8 DEF Started, Fields, Give, At, Shape
  <1> QED
    BY <1>1, <1>2

LEMMA DirectoriesMade ==
    ASSUME Shape, NEW p \in Users, MakeDirectories(p)
    PROVE  /\ Wrote(p) /\ order[p].stage = "dirs"
           /\ LET o == order[p] IN order'[p] \in Fields(o.op, "manifest", o.file, o.left, o.undisturbed, o.at)
           /\ place'.manifest = place.manifest /\ place'.tasks = place.tasks
           /\ place'.sessions = place.sessions /\ place'.events = place.events
           /\ origin' = origin /\ troubled' = (troubled \/ Stray(p)) /\ spent' = spent
  <1>1. PICK n : n = To(p, "manifest")
    OBVIOUS
  <1>2. Go(p, n, TRUE) /\ place' = [place EXCEPT !.dir = TRUE]
    BY <1>1 DEF MakeDirectories, Write
  <1>3. order[p].stage = "dirs" /\ OrderOK(order[p]) /\ DirectoryOK(place)
    BY DEF MakeDirectories, At, Shape
  <1>4. LET o == order[p] IN n \in Fields(o.op, "manifest", o.file, o.left, o.undisturbed, o.at)
    BY <1>1, <1>3, OrderMoves DEF To, Fields
  <1>5. OrderOK(n)
    <2>1. CASE order[p].op = "create"
      BY <1>3, <1>4, <2>1 DEF OrderOK, Fields
    <2>2. CASE order[p].op = "import"
      <3>1. n.op = "import" /\ n.stage = "manifest" /\ n.file = order[p].file /\ n.left = order[p].left
            /\ n.at = order[p].at
            /\ n \in [op : {n.op}, stage : {n.stage}, file : {n.file}, left : {n.left}, undisturbed : BOOLEAN, at : {n.at}]
        BY <1>3, <1>4, <2>2 DEF OrderOK, Fields
      <3>2. ~Importing(n) /\ ~Importing(order[p])
        BY <3>1, <1>3 DEF Importing
      <3> QED
        BY <1>3, <2>2, <3>1, <3>2 DEF OrderOK
    <2> QED
      BY <1>3, <2>1, <2>2 DEF OrderOK
  <1>6. order' = [q \in Users |-> order'[q]] /\ order'[p] = n /\ OthersKept(p) /\ OthersTold(p)
    BY <1>2, GoKeeps
  <1>7. /\ DirectoryOK(place')
        /\ place'.manifest = place.manifest /\ place'.tasks = place.tasks
        /\ place'.sessions = place.sessions /\ place'.events = place.events
    BY <1>2, <1>3 DEF DirectoryOK
  <1>8. /\ archive' = archive /\ restored' = [done |-> FALSE] /\ spent' = spent
        /\ origin' = origin /\ troubled' = (troubled \/ Stray(p))
    BY DEF MakeDirectories, Write
  <1>9. Wrote(p)
    BY <1>5, <1>6, <1>7, <1>8 DEF Wrote, Moved, Shape, OthersKept
  <1> QED
    BY <1>3, <1>4, <1>6, <1>7, <1>8, <1>9

LEMMA ManifestWritten ==
    ASSUME Shape, NEW p \in Users, WriteManifest(p)
    PROVE  /\ Wrote(p) /\ order[p].stage = "manifest"
           /\ LET o == order[p]
              IN  IF o.op = "import"
                  THEN order'[p] \in Fields(o.op, "tasks in", o.file, o.left, o.undisturbed, o.at)
                  ELSE order'[p] = NoOrder
           /\ place'.manifest = TRUE /\ place'.tasks = place.tasks
           /\ place'.sessions = place.sessions /\ place'.events = place.events
           /\ origin' = IF place.manifest THEN origin ELSE {}
           /\ troubled' = (troubled \/ Stray(p) \/ place.manifest) /\ spent' = spent
  <1>1. PICK n : n = IF order[p].op = "import" THEN To(p, "tasks in") ELSE NoOrder
    OBVIOUS
  <1>2. Go(p, n, TRUE) /\ place' = [place EXCEPT !.dir = TRUE, !.manifest = TRUE]
    BY <1>1 DEF WriteManifest
  <1>3. order[p].stage = "manifest" /\ OrderOK(order[p]) /\ DirectoryOK(place)
    BY DEF WriteManifest, At, Shape
  <1>4. LET o == order[p]
        IN  IF o.op = "import"
            THEN n \in Fields(o.op, "tasks in", o.file, o.left, o.undisturbed, o.at)
            ELSE n = NoOrder
    BY <1>1, <1>3, OrderMoves DEF To, Fields
  <1>5. OrderOK(n)
    BY <1>3, <1>4, NoOrderOK DEF OrderOK, Fields, Importing
  <1>6. order' = [q \in Users |-> order'[q]] /\ order'[p] = n /\ OthersKept(p) /\ OthersTold(p)
    BY <1>2, GoKeeps
  <1>7. /\ DirectoryOK(place')
        /\ place'.manifest = TRUE /\ place'.tasks = place.tasks
        /\ place'.sessions = place.sessions /\ place'.events = place.events
    BY <1>2, <1>3 DEF DirectoryOK
  <1>8. /\ archive' = archive /\ restored' = [done |-> FALSE] /\ spent' = spent
        /\ origin' = IF place.manifest THEN origin ELSE {}
        /\ troubled' = (troubled \/ Stray(p) \/ place.manifest)
    BY DEF WriteManifest
  <1>9. Wrote(p)
    BY <1>5, <1>6, <1>7, <1>8 DEF Wrote, Moved, Shape, OthersKept
  <1> QED
    BY <1>3, <1>4, <1>6, <1>7, <1>8, <1>9

LEMMA EntryRemoved ==
    ASSUME Shape, NEW p \in Users, RemoveEntry(p)
    PROVE  /\ Wrote(p) /\ order[p].stage = "remove" /\ order'[p] = order[p]
           /\ place'.manifest => place.manifest
           /\ place'.events = place.events \/ place'.events = << >>
           /\ \A t \in TaskIds : place'.tasks[t] = place.tasks[t] \/ place'.tasks[t] = 0
           /\ origin' = origin /\ troubled' = (troubled \/ Stray(p)) /\ spent' = spent
  <1>1. PICK after \in Removals(place) : Write(p, order[p], after, {})
    BY DEF RemoveEntry
  <1>2. order[p].stage = "remove" /\ OrderOK(order[p]) /\ DirectoryOK(place)
    BY DEF RemoveEntry, At, Shape
  <1>3. /\ Go(p, order[p], TRUE) /\ place' = after
        /\ archive' = archive /\ restored' = [done |-> FALSE]
        /\ origin' = origin /\ troubled' = (troubled \/ Stray(p))
    BY <1>1 DEF Write
  <1>4. order' = [q \in Users |-> order'[q]] /\ order'[p] = order[p] /\ OthersKept(p) /\ OthersTold(p)
    BY <1>3, GoKeeps
  <1>5. spent' = spent
    BY DEF RemoveEntry
  <1>6. /\ DirectoryOK(place')
        /\ place'.manifest => place.manifest
        /\ place'.events = place.events \/ place'.events = << >>
        /\ \A t \in TaskIds : place'.tasks[t] = place.tasks[t] \/ place'.tasks[t] = 0
    BY <1>1, <1>2, <1>3, RemovalsAre
  <1>7. Wrote(p)
    BY <1>2, <1>3, <1>4, <1>5, <1>6 DEF Wrote, Moved, Shape, OthersKept
  <1> QED
    BY <1>2, <1>3, <1>4, <1>5, <1>6, <1>7

LEMMA DirectoryRemoved ==
    ASSUME Shape, NEW p \in Users, RemoveDirectory(p)
    PROVE  /\ Wrote(p) /\ order[p].stage = "remove"
           /\ LET o == order[p]
              IN  IF o.op = "import"
                  THEN order'[p] \in Fields(o.op, "dirs", o.file, o.left, o.undisturbed, o.at)
                  ELSE order'[p] = NoOrder
           /\ ~place'.manifest /\ place'.sessions = {} /\ place'.events = << >>
           /\ \A t \in TaskIds : place'.tasks[t] = 0
           /\ origin' = origin /\ spent' = spent
           /\ ~troubled' => \A q \in Users \ {p} :
                order[q].op # "import" /\ (troubled => order[q] = NoOrder)
  <1>1. PICK n : n = IF order[p].op = "import" THEN To(p, "dirs") ELSE NoOrder
    OBVIOUS
  <1>2. Go(p, n, TRUE) /\ place' = [place EXCEPT !.dir = FALSE] /\ Removals(place) = {}
    BY <1>1 DEF RemoveDirectory
  <1>3. order[p].stage = "remove" /\ OrderOK(order[p]) /\ DirectoryOK(place)
    BY DEF RemoveDirectory, At, Shape
  <1>4. LET o == order[p]
        IN  IF o.op = "import"
            THEN n \in Fields(o.op, "dirs", o.file, o.left, o.undisturbed, o.at)
            ELSE n = NoOrder
    BY <1>1, <1>3, OrderMoves DEF To, Fields
  <1>5. OrderOK(n)
    <2>1. CASE order[p].op # "import"
      BY <2>1, <1>4, NoOrderOK
    <2>2. CASE order[p].op = "import"
      <3>1. n.op = "import" /\ n.stage = "dirs" /\ n.file = order[p].file /\ n.left = order[p].left
            /\ n.at = order[p].at
            /\ n \in [op : {n.op}, stage : {n.stage}, file : {n.file}, left : {n.left}, undisturbed : BOOLEAN, at : {n.at}]
        BY <1>3, <1>4, <2>2 DEF OrderOK, Fields
      <3>2. ~Importing(n) /\ ~Importing(order[p])
        BY <3>1, <1>3 DEF Importing
      <3> QED
        BY <1>3, <2>2, <3>1, <3>2 DEF OrderOK
    <2> QED
      BY <2>1, <2>2
  <1>6. order' = [q \in Users |-> order'[q]] /\ order'[p] = n /\ OthersKept(p) /\ OthersTold(p)
    BY <1>2, GoKeeps
  <1>7. /\ DirectoryOK(place')
        /\ ~place'.manifest /\ place'.sessions = {} /\ place'.events = << >>
        /\ \A t \in TaskIds : place'.tasks[t] = 0
    <2>1. ~place.manifest /\ place.sessions = {} /\ place.events = << >> /\ \A t \in TaskIds : place.tasks[t] = 0
      BY <1>2, <1>3, RemovalsAre
    <2> QED
      BY <1>2, <1>3, <2>1 DEF DirectoryOK
  <1>8. /\ archive' = archive /\ restored' = [done |-> FALSE] /\ spent' = spent /\ origin' = origin
        /\ troubled' = \E q \in Users \ {p} : order[q].op = "import" \/ (troubled /\ order[q] # NoOrder)
    BY DEF RemoveDirectory
  <1>9. Wrote(p)
    BY <1>5, <1>6, <1>7, <1>8 DEF Wrote, Moved, Shape, OthersKept
  <1> QED
    BY <1>3, <1>4, <1>6, <1>7, <1>8, <1>9

LEMMA SessionSaved ==
    ASSUME Shape, NEW p \in Users, SaveSession(p)
    PROVE  /\ Wrote(p) /\ order[p].stage = "session" /\ order'[p] = NoOrder
           /\ place'.manifest = place.manifest /\ place'.tasks = place.tasks /\ place'.events = place.events
           /\ origin' = origin /\ troubled' = (troubled \/ Stray(p)) /\ spent' = spent
  <1>1. PICK c : place' = [place EXCEPT !.dir = TRUE, !.sessions = c]
    BY DEF SaveSession, Write
  <1>2. Go(p, NoOrder, TRUE) /\ order[p].stage = "session" /\ DirectoryOK(place)
    BY DEF SaveSession, Write, At, Shape
  <1>3. order' = [q \in Users |-> order'[q]] /\ order'[p] = NoOrder /\ OthersKept(p) /\ OthersTold(p)
    BY <1>2, GoKeeps
  <1>4. /\ DirectoryOK(place')
        /\ place'.manifest = place.manifest /\ place'.tasks = place.tasks /\ place'.events = place.events
    BY <1>1, <1>2 DEF DirectoryOK
  <1>5. /\ archive' = archive /\ restored' = [done |-> FALSE] /\ spent' = spent
        /\ origin' = origin /\ troubled' = (troubled \/ Stray(p))
    BY DEF SaveSession, Write
  <1>6. Wrote(p)
    BY <1>3, <1>4, <1>5, NoOrderOK DEF Wrote, Moved, Shape, OthersKept
  <1> QED
    BY <1>2, <1>3, <1>4, <1>5, <1>6

LEMMA GivenUp ==
    ASSUME Shape, NEW p \in Users, GiveUp(p)
    PROVE  /\ Moved(p) /\ order[p].stage # "idle" /\ order'[p] = NoOrder
           /\ place' = place /\ archive' = archive /\ origin' = origin /\ restored' = restored
           /\ spent'.saves = spent.saves /\ troubled' = (troubled \/ At(p, "remove"))
  <1>1. Go(p, NoOrder, FALSE) /\ order[p].stage # "idle"
    BY IdleIsNone DEF GiveUp, Shape
  <1>2. order' = [q \in Users |-> order'[q]] /\ order'[p] = NoOrder /\ OthersKept(p)
    BY <1>1, GoKeeps
  <1>3. /\ place' = place /\ archive' = archive /\ origin' = origin /\ restored' = restored
        /\ troubled' = (troubled \/ At(p, "remove"))
        /\ spent' = [spent EXCEPT !.deaths = IF order[p].undisturbed THEN @ + 1 ELSE @]
    BY DEF GiveUp
  <1>4. spent' \in [orders : Nat, saves : Nat, deaths : Nat] /\ spent'.saves = spent.saves
    <2>1. spent \in [orders : Nat, saves : Nat, deaths : Nat]
      BY DEF Shape
    <2>2. PICK k : k = IF order[p].undisturbed THEN spent.deaths + 1 ELSE spent.deaths
      OBVIOUS
    <2>3. k \in Nat /\ spent' = [spent EXCEPT !.deaths = k]
      BY <1>3, <2>1, <2>2
    <2> QED
      BY <2>1, <2>3
  <1>5. Moved(p)
    BY <1>2, <1>3, <1>4, NoOrderOK DEF Moved, Shape, OthersKept
  <1> QED
    BY <1>1, <1>2, <1>3, <1>4, <1>5

\* An import in its second half that keeps its file stays well-formed.
LEMMA ImportGoesOn ==
    ASSUME NEW o, OrderOK(o), o.op = "import", NEW stage \in {"tasks in", "events in"}, NEW c,
           NEW a \in 0..Len(o.file.events), stage # "events in" => a = 0,
           NEW n \in Fields(o.op, stage, o.file, c, o.undisturbed, a)
    PROVE  OrderOK(n)
  <1>1. n.op = "import" /\ n.stage = stage /\ n.file = o.file /\ n.left = c /\ n.at = a
        /\ n \in [op : {n.op}, stage : {n.stage}, file : {n.file}, left : {n.left}, undisturbed : BOOLEAN, at : {n.at}]
    BY DEF OrderOK, Fields
  <1>2. Importing(n)
    BY <1>1 DEF Importing
  <1>3. ArchiveOK(o.file)
    BY DEF OrderOK
  <1> QED
    BY <1>1, <1>2, <1>3 DEF OrderOK

LEMMA ImportIs ==
    ASSUME NEW o, OrderOK(o), Importing(o)
    PROVE  /\ o.op = "import" /\ ArchiveOK(o.file) /\ o.at \in 0..Len(o.file.events)
           /\ Len(o.file.events) \in Nat
           /\ o.stage = "tasks in" => o.at = 0
  <1>1. o.op = "import" /\ ArchiveOK(o.file) /\ o.at \in 0..Len(o.file.events) /\ (o.stage # "events in" => o.at = 0)
    BY DEF OrderOK, Importing
  <1> QED
    BY <1>1, LenProperties DEF ArchiveOK

LEMMA TaskRestored ==
    ASSUME Shape, NEW p \in Users, NEW t \in TaskIds, RestoreTask(p, t)
    PROVE  /\ Wrote(p) /\ order[p].stage = "tasks in" /\ t \in order[p].left
           /\ LET o == order[p]
              IN  order'[p] \in Fields(o.op, o.stage, o.file, o.left \ {t}, o.undisturbed, o.at)
           /\ order[p].file.tasks[t] \in Nat
           /\ place'.manifest = place.manifest /\ place'.tasks = [place.tasks EXCEPT ![t] = order[p].file.tasks[t]]
           /\ place'.sessions = place.sessions /\ place'.events = place.events
           /\ origin' = origin \cup {<<t, order[p].file.tasks[t]>>}
           /\ troubled' = (troubled \/ Stray(p)) /\ spent' = spent
  <1>1. PICK o : o = order[p]
    OBVIOUS
  <1>2. PICK v : v = o.file.tasks[t]
    OBVIOUS
  <1>3. PICK n : n = [o EXCEPT !.left = o.left \ {t}]
    OBVIOUS
  <1>4. /\ Go(p, n, TRUE) /\ place' = [place EXCEPT !.dir = TRUE, !.tasks[t] = v]
        /\ o.stage = "tasks in" /\ t \in o.left
    BY <1>1, <1>2, <1>3 DEF RestoreTask, Write, At
  <1>5. OrderOK(o) /\ DirectoryOK(place) /\ Importing(o)
    BY <1>1, <1>4 DEF Shape, Importing
  <1>6. n \in Fields(o.op, o.stage, o.file, o.left \ {t}, o.undisturbed, o.at)
    BY <1>3, <1>5, OrderMoves DEF Fields
  <1>7. OrderOK(n)
    BY <1>4, <1>5, <1>6, ImportIs, ImportGoesOn
  <1>8. v \in Nat
    BY <1>2, <1>5, ImportIs DEF ArchiveOK, Saved
  <1>9. order' = [q \in Users |-> order'[q]] /\ order'[p] = n /\ OthersKept(p) /\ OthersTold(p)
    BY <1>4, GoKeeps
  <1>10. /\ DirectoryOK(place')
         /\ place'.manifest = place.manifest /\ place'.tasks = [place.tasks EXCEPT ![t] = v]
         /\ place'.sessions = place.sessions /\ place'.events = place.events
    BY <1>4, <1>5, <1>8 DEF DirectoryOK, Saved
  <1>11. /\ archive' = archive /\ restored' = [done |-> FALSE] /\ spent' = spent
         /\ origin' = origin \cup {<<t, v>>} /\ troubled' = (troubled \/ Stray(p))
    BY <1>1, <1>2 DEF RestoreTask, Write
  <1>12. Wrote(p)
    BY <1>7, <1>9, <1>10, <1>11 DEF Wrote, Moved, Shape, OthersKept
  <1> QED
    BY <1>1, <1>2, <1>4, <1>6, <1>8, <1>9, <1>10, <1>11, <1>12

LEMMA SessionsRestored ==
    ASSUME Shape, NEW p \in Users, RestoreSessions(p)
    PROVE  /\ Wrote(p) /\ order[p].stage = "tasks in" /\ order[p].left = {}
           /\ LET o == order[p]
              IN  order'[p] \in Fields(o.op, "events in", o.file, o.left, o.undisturbed, o.at)
           /\ place'.manifest = place.manifest /\ place'.tasks = place.tasks
           /\ place'.sessions = place.sessions \cup order[p].file.sessions /\ place'.events = place.events
           /\ origin' = origin /\ troubled' = (troubled \/ Stray(p)) /\ spent' = spent
  <1>1. PICK o : o = order[p]
    OBVIOUS
  <1>2. PICK c : c = place.sessions \cup o.file.sessions
    OBVIOUS
  <1>3. PICK n : n = [o EXCEPT !.stage = "events in"]
    OBVIOUS
  <1>4. /\ Go(p, n, TRUE) /\ place' = [place EXCEPT !.dir = TRUE, !.sessions = c]
        /\ o.stage = "tasks in" /\ o.left = {}
    BY <1>1, <1>2, <1>3 DEF RestoreSessions, Write, At, To
  <1>5. OrderOK(o) /\ DirectoryOK(place) /\ Importing(o)
    BY <1>1, <1>4 DEF Shape, Importing
  <1>6. n \in Fields(o.op, "events in", o.file, o.left, o.undisturbed, o.at)
    BY <1>3, <1>5, OrderMoves DEF Fields
  <1>7. OrderOK(n)
    BY <1>4, <1>5, <1>6, ImportIs, ImportGoesOn
  <1>8. order' = [q \in Users |-> order'[q]] /\ order'[p] = n /\ OthersKept(p) /\ OthersTold(p)
    BY <1>4, GoKeeps
  <1>9. /\ DirectoryOK(place')
        /\ place'.manifest = place.manifest /\ place'.tasks = place.tasks
        /\ place'.sessions = c /\ place'.events = place.events
    BY <1>4, <1>5 DEF DirectoryOK
  <1>10. /\ archive' = archive /\ restored' = [done |-> FALSE] /\ spent' = spent
         /\ origin' = origin /\ troubled' = (troubled \/ Stray(p))
    BY DEF RestoreSessions, Write
  <1>11. Wrote(p)
    BY <1>7, <1>8, <1>9, <1>10 DEF Wrote, Moved, Shape, OthersKept
  <1> QED
    BY <1>1, <1>2, <1>4, <1>6, <1>8, <1>9, <1>10, <1>11

LEMMA EventRestored ==
    ASSUME Shape, NEW p \in Users, RestoreEvent(p)
    PROVE  LET o == order[p]
               e == o.file.events[o.at + 1]
           IN  /\ Wrote(p) /\ o.stage = "events in" /\ o.at + 1 \in 1..Len(o.file.events) /\ e \in Events
               /\ order'[p] \in Fields(o.op, o.stage, o.file, o.left, o.undisturbed, o.at + 1)
               /\ place'.manifest = place.manifest /\ place'.tasks = place.tasks
               /\ place'.sessions = place.sessions /\ place'.events = Append(place.events, e)
               /\ origin' = origin \cup {<<"event", e>>} /\ troubled' = (troubled \/ Stray(p)) /\ spent' = spent
  <1>1. PICK o : o = order[p]
    OBVIOUS
  <1>2. PICK a : a = o.at + 1
    OBVIOUS
  <1>3. PICK e : e = o.file.events[a]
    OBVIOUS
  <1>4. PICK n : n = [o EXCEPT !.at = a]
    OBVIOUS
  <1>5. /\ Go(p, n, TRUE) /\ place' = [place EXCEPT !.dir = TRUE, !.events = Append(place.events, e)]
        /\ o.stage = "events in" /\ o.at < Len(o.file.events)
    BY <1>1, <1>2, <1>3, <1>4 DEF RestoreEvent, Write, At
  <1>6. OrderOK(o) /\ DirectoryOK(place) /\ Importing(o)
    BY <1>1, <1>5 DEF Shape, Importing
  <1>7. ArchiveOK(o.file) /\ Len(o.file.events) \in Nat /\ a \in 1..Len(o.file.events)
    <2>1. o.op = "import" /\ ArchiveOK(o.file) /\ Len(o.file.events) \in Nat /\ o.at \in 0..Len(o.file.events)
      BY <1>6, ImportIs
    <2>2. ASSUME NEW k \in Nat, NEW m \in 0..k, m < k
          PROVE  m + 1 \in 1..k
      BY <2>2
    <2>3. a \in 1..Len(o.file.events)
      BY <1>2, <1>5, <2>1, <2>2
    <2> QED
      BY <2>1, <2>3
  <1>8. e \in Events
    BY <1>3, <1>7, ElementOfSeq DEF ArchiveOK
  <1>9. n \in Fields(o.op, o.stage, o.file, o.left, o.undisturbed, a)
    BY <1>4, <1>6, OrderMoves DEF Fields
  <1>10. OrderOK(n)
    <2>1. a \in 0..Len(o.file.events)
      BY <1>7
    <2>2. o.op = "import"
      BY <1>6, ImportIs
    <2> QED
      BY <1>5, <1>6, <1>9, <2>1, <2>2, ImportGoesOn
  <1>11. order' = [q \in Users |-> order'[q]] /\ order'[p] = n /\ OthersKept(p) /\ OthersTold(p)
    BY <1>5, GoKeeps
  <1>12. Append(place.events, e) \in Seq(Events)
    BY <1>6, <1>8, AppendProperties DEF DirectoryOK
  <1>13. /\ DirectoryOK(place')
         /\ place'.manifest = place.manifest /\ place'.tasks = place.tasks
         /\ place'.sessions = place.sessions /\ place'.events = Append(place.events, e)
    BY <1>5, <1>6, <1>12 DEF DirectoryOK
  <1>14. /\ archive' = archive /\ restored' = [done |-> FALSE] /\ spent' = spent
         /\ origin' = origin \cup {<<"event", e>>} /\ troubled' = (troubled \/ Stray(p))
    BY <1>1, <1>2, <1>3 DEF RestoreEvent, Write
  <1>15. Wrote(p)
    BY <1>10, <1>11, <1>13, <1>14 DEF Wrote, Moved, Shape, OthersKept
  <1> QED
    BY <1>1, <1>2, <1>3, <1>5, <1>7, <1>8, <1>9, <1>11, <1>13, <1>14, <1>15

LEMMA ImportEnded ==
    ASSUME Shape, NEW p \in Users, EndImport(p)
    PROVE  /\ Moved(p) /\ order[p].stage = "events in" /\ order[p].at = Len(order[p].file.events)
           /\ order'[p] = NoOrder
           /\ place' = place /\ archive' = archive /\ origin' = origin /\ troubled' = troubled /\ spent' = spent
           /\ restored' = [done |-> order[p].undisturbed, of |-> Contents(order[p].file), empty |-> ~troubled]
  <1>1. Go(p, NoOrder, FALSE)
    BY DEF EndImport
  <1>2. order' = [q \in Users |-> order'[q]] /\ order'[p] = NoOrder /\ OthersKept(p)
    BY <1>1, GoKeeps
  <1>3. /\ place' = place /\ archive' = archive /\ origin' = origin /\ troubled' = troubled /\ spent' = spent
        /\ order[p].stage = "events in" /\ order[p].at = Len(order[p].file.events)
        /\ restored' = [done |-> order[p].undisturbed, of |-> Contents(order[p].file), empty |-> ~troubled]
    BY DEF EndImport, At
  <1>4. Moved(p)
    BY <1>2, <1>3, NoOrderOK DEF Moved, Shape, OthersKept
  <1> QED
    BY <1>2, <1>3, <1>4

LEMMA TaskSaved ==
    ASSUME Shape, NEW p \in Users, NEW t \in TaskIds, SaveTask(p, t)
    PROVE  LET v == spent.saves + 1
           IN  /\ Wrote(p) /\ order[p].stage = "save" /\ v \in Nat /\ <<t, v>> \in Events
               /\ order'[p].stage = "event" /\ order'[p].op = "work" /\ order'[p].at = <<t, v>>
               /\ place'.manifest = place.manifest /\ place'.tasks = [place.tasks EXCEPT ![t] = v]
               /\ place'.sessions = place.sessions /\ place'.events = place.events
               /\ origin' = origin \cup {<<t, v>>} /\ troubled' = (troubled \/ Stray(p))
               /\ spent'.saves = v
  <1>1. PICK o : o = order[p]
    OBVIOUS
  <1>2. PICK v : v = spent.saves + 1
    OBVIOUS
  <1>3. PICK n : n = [o EXCEPT !.stage = "event", !.at = <<t, v>>]
    OBVIOUS
  <1>4. /\ Go(p, n, TRUE) /\ place' = [place EXCEPT !.dir = TRUE, !.tasks[t] = v]
        /\ o.stage = "save"
    BY <1>1, <1>2, <1>3 DEF SaveTask, Write, At
  <1>5. OrderOK(o) /\ DirectoryOK(place) /\ spent \in [orders : Nat, saves : Nat, deaths : Nat]
    BY <1>1 DEF Shape
  <1>6. n \in Fields(o.op, "event", o.file, o.left, o.undisturbed, <<t, v>>)
    BY <1>3, <1>5, OrderMoves DEF Fields
  <1>7. v \in Nat
    BY <1>2, <1>5
  <1>8. <<t, v>> \in Events
    BY <1>7 DEF Events
  <1>9. n.op = "work" /\ n.stage = "event" /\ n.at = <<t, v>>
    BY <1>4, <1>5, <1>6 DEF OrderOK, Fields
  <1>10. OrderOK(n)
    BY <1>5, <1>6, <1>8, <1>9 DEF OrderOK, Fields
  <1>11. order' = [q \in Users |-> order'[q]] /\ order'[p] = n /\ OthersKept(p) /\ OthersTold(p)
    BY <1>4, GoKeeps
  <1>12. /\ DirectoryOK(place')
         /\ place'.manifest = place.manifest /\ place'.tasks = [place.tasks EXCEPT ![t] = v]
         /\ place'.sessions = place.sessions /\ place'.events = place.events
    BY <1>4, <1>5, <1>7 DEF DirectoryOK, Saved
  <1>13. /\ archive' = archive /\ restored' = [done |-> FALSE]
         /\ origin' = origin \cup {<<t, v>>} /\ troubled' = (troubled \/ Stray(p))
         /\ spent' = [spent EXCEPT !.saves = v]
    BY <1>2 DEF SaveTask, Write
  <1>14. spent' \in [orders : Nat, saves : Nat, deaths : Nat] /\ spent'.saves = v
    BY <1>5, <1>7, <1>13
  <1>15. Wrote(p)
    BY <1>10, <1>11, <1>12, <1>13, <1>14 DEF Wrote, Moved, Shape, OthersKept
  <1> QED
    BY <1>1, <1>2, <1>4, <1>7, <1>8, <1>9, <1>11, <1>12, <1>13, <1>14, <1>15

LEMMA EventAppended ==
    ASSUME Shape, NEW p \in Users, AppendEvent(p)
    PROVE  LET e == order[p].at
           IN  /\ Wrote(p) /\ order[p].stage = "event" /\ e \in Events
               /\ order'[p].stage \in {"save", "idle"} /\ order'[p].op \in {"work", "none"}
               /\ place'.manifest = place.manifest /\ place'.tasks = place.tasks
               /\ place'.sessions = place.sessions /\ place'.events = Append(place.events, e)
               /\ origin' = origin \cup {<<"event", e>>} /\ troubled' = (troubled \/ Stray(p)) /\ spent' = spent
  <1>1. PICK o : o = order[p]
    OBVIOUS
  <1>2. PICK e : e = o.at
    OBVIOUS
  <1>3. PICK again \in BOOLEAN :
          Write(p, IF again THEN To(p, "save") ELSE NoOrder,
                [place EXCEPT !.dir = TRUE, !.events = Append(place.events, e)], {<<"event", e>>})
    BY <1>1, <1>2 DEF AppendEvent
  <1>4. PICK n : n = IF again THEN [o EXCEPT !.stage = "save"] ELSE NoOrder
    OBVIOUS
  <1>5. /\ Go(p, n, TRUE) /\ place' = [place EXCEPT !.dir = TRUE, !.events = Append(place.events, e)]
        /\ archive' = archive /\ restored' = [done |-> FALSE]
        /\ origin' = origin \cup {<<"event", e>>} /\ troubled' = (troubled \/ Stray(p))
    BY <1>1, <1>3, <1>4 DEF Write, To
  <1>6. OrderOK(o) /\ DirectoryOK(place) /\ o.stage = "event" /\ spent' = spent
    BY <1>1 DEF Shape, AppendEvent, At
  <1>7. o.op = "work" /\ e \in Events
    BY <1>2, <1>6 DEF OrderOK
  <1>8. OrderOK(n) /\ n.stage \in {"save", "idle"} /\ n.op \in {"work", "none"}
    <2>1. CASE ~again
      BY <2>1, <1>4, NoOrderOK
    <2>2. CASE again
      <3>1. n \in Fields(o.op, "save", o.file, o.left, o.undisturbed, o.at)
        BY <2>2, <1>4, <1>6, OrderMoves DEF Fields
      <3> QED
        BY <3>1, <1>6, <1>7 DEF OrderOK, Fields
    <2> QED
      BY <2>1, <2>2
  <1>9. order' = [q \in Users |-> order'[q]] /\ order'[p] = n /\ OthersKept(p) /\ OthersTold(p)
    BY <1>5, GoKeeps
  <1>10. Append(place.events, e) \in Seq(Events)
    BY <1>6, <1>7, AppendProperties DEF DirectoryOK
  <1>11. /\ DirectoryOK(place')
         /\ place'.manifest = place.manifest /\ place'.tasks = place.tasks
         /\ place'.sessions = place.sessions /\ place'.events = Append(place.events, e)
    BY <1>5, <1>6, <1>10 DEF DirectoryOK
  <1>12. Wrote(p)
    BY <1>5, <1>6, <1>8, <1>9, <1>11 DEF Wrote, Moved, Shape, OthersKept
  <1> QED
    BY <1>1, <1>2, <1>5, <1>6, <1>7, <1>8, <1>9, <1>11, <1>12

\* An export copies the tasks, then the sessions, then the events.
LEMMA PartRead ==
    ASSUME Shape, NEW p \in Users, ReadOut(p)
    PROVE  LET o == order[p]  n == order'[p]
           IN  /\ Moved(p) /\ o.op = "export" /\ n.op = "export" /\ n.undisturbed = o.undisturbed
               /\ \/ /\ n.stage = "sessions out"
                     /\ n.file.tasks = place.tasks /\ n.file.events = o.file.events
                  \/ /\ o.stage = "sessions out" /\ n.stage = "events out"
                     /\ n.file.tasks = o.file.tasks /\ n.file.sessions = place.sessions
                     /\ n.file.events = o.file.events
                  \/ /\ o.stage = "events out" /\ n.stage = "archive"
                     /\ n.file.tasks = o.file.tasks /\ n.file.sessions = o.file.sessions
                     /\ n.file.events = place.events
               /\ place' = place /\ archive' = archive /\ origin' = origin
               /\ troubled' = troubled /\ restored' = restored /\ spent' = spent
  <1>1. PICK o : o = order[p]
    OBVIOUS
  <1>2. OrderOK(o) /\ o.stage \in {"tasks out", "sessions out", "events out"} /\ DirectoryOK(place)
    BY <1>1 DEF ReadOut, At, Shape
  <1>3. o.op = "export" /\ DirectoryOK(o.file)
    BY <1>2 DEF OrderOK
  <1>4. ASSUME NEW f, DirectoryOK(f), NEW stage \in {"sessions out", "events out", "archive"},
               NEW n \in Fields(o.op, stage, f, o.left, o.undisturbed, o.at),
               order' = [order EXCEPT ![p] = n]
        PROVE  /\ Moved(p) /\ order'[p] = n /\ n.op = "export" /\ n.undisturbed = o.undisturbed
               /\ n.stage = stage /\ n.file = f
    <2>1. n \in Fields(o.op, stage, f, o.left, o.undisturbed, o.at)
      OBVIOUS
    <2>2. OrderOK(n)
      BY <1>2, <1>3, <1>4, <2>1 DEF OrderOK, Fields
    <2>3. order' = [q \in Users |-> order'[q]] /\ order'[p] = n /\ \A q \in Users \ {p} : order'[q] = order[q]
      <3>1. order = [q \in Users |-> order[q]]
        BY DEF Shape
      <3> QED
        BY <3>1, <1>4
    <2>4. OthersKept(p)
      BY <2>3 DEF OthersKept, Kept, Shape
    <2>5. place' = place /\ archive' = archive /\ troubled' = troubled /\ spent' = spent
      BY DEF ReadOut
    <2>6. Moved(p)
      BY <2>2, <2>3, <2>4, <2>5 DEF Moved, Shape, OthersKept
    <2> QED
      BY <1>3, <2>1, <2>3, <2>6 DEF Fields
  <1>5. ASSUME NEW f, NEW stage, order' = [order EXCEPT ![p].file = f, ![p].stage = stage]
        PROVE  order' = [order EXCEPT ![p] = [[o EXCEPT !.file = f] EXCEPT !.stage = stage]]
    <2>1. order = [q \in Users |-> order[q]]
      BY DEF Shape
    <2> QED
      BY <1>1, <1>5, <2>1
  <1>6. place' = place /\ archive' = archive /\ origin' = origin
        /\ troubled' = troubled /\ restored' = restored /\ spent' = spent
    BY DEF ReadOut
  <1>7. CASE o.stage = "tasks out"
    <2>1. PICK f : f = [o.file EXCEPT !.tasks = place.tasks]
      OBVIOUS
    <2>2. order' = [order EXCEPT ![p].file = f, ![p].stage = "sessions out"]
      BY <1>1, <1>7, <2>1 DEF ReadOut, At
    <2>3. DirectoryOK(f) /\ f.tasks = place.tasks /\ f.events = o.file.events
      BY <1>2, <1>3, <2>1 DEF DirectoryOK
    <2>4. PICK n : n = [[o EXCEPT !.file = f] EXCEPT !.stage = "sessions out"]
      OBVIOUS
    <2>5. order' = [order EXCEPT ![p] = n]
      BY <1>5, <2>2, <2>4
    <2>6. /\ Moved(p) /\ order'[p] = n /\ n.op = "export" /\ n.undisturbed = o.undisturbed
          /\ n.stage = "sessions out" /\ n.file = f
      <3>1. n \in Fields(o.op, "sessions out", f, o.left, o.undisturbed, o.at)
        BY <1>2, <2>4 DEF OrderOK, Fields
      <3> QED
        BY <1>4, <2>3, <2>5, <3>1
    <2> QED
      BY <1>1, <1>3, <1>6, <2>3, <2>6
  <1>8. CASE o.stage = "sessions out"
    <2>1. PICK f : f = [o.file EXCEPT !.sessions = place.sessions]
      OBVIOUS
    <2>2. order' = [order EXCEPT ![p].file = f, ![p].stage = "events out"]
      BY <1>1, <1>8, <2>1 DEF ReadOut, At
    <2>3. DirectoryOK(f) /\ f.tasks = o.file.tasks /\ f.sessions = place.sessions /\ f.events = o.file.events
      BY <1>2, <1>3, <2>1 DEF DirectoryOK
    <2>4. PICK n : n = [[o EXCEPT !.file = f] EXCEPT !.stage = "events out"]
      OBVIOUS
    <2>5. order' = [order EXCEPT ![p] = n]
      BY <1>5, <2>2, <2>4
    <2>6. /\ Moved(p) /\ order'[p] = n /\ n.op = "export" /\ n.undisturbed = o.undisturbed
          /\ n.stage = "events out" /\ n.file = f
      <3>1. n \in Fields(o.op, "events out", f, o.left, o.undisturbed, o.at)
        BY <1>2, <2>4 DEF OrderOK, Fields
      <3> QED
        BY <1>4, <2>3, <2>5, <3>1
    <2> QED
      BY <1>1, <1>3, <1>6, <1>8, <2>3, <2>6
  <1>9. CASE o.stage = "events out"
    <2>1. PICK f : f = [o.file EXCEPT !.events = place.events]
      OBVIOUS
    <2>2. order' = [order EXCEPT ![p].file = f, ![p].stage = "archive"]
      BY <1>1, <1>9, <2>1 DEF ReadOut, At
    <2>3. DirectoryOK(f) /\ f.tasks = o.file.tasks /\ f.sessions = o.file.sessions /\ f.events = place.events
      BY <1>2, <1>3, <2>1 DEF DirectoryOK
    <2>4. PICK n : n = [[o EXCEPT !.file = f] EXCEPT !.stage = "archive"]
      OBVIOUS
    <2>5. order' = [order EXCEPT ![p] = n]
      BY <1>5, <2>2, <2>4
    <2>6. /\ Moved(p) /\ order'[p] = n /\ n.op = "export" /\ n.undisturbed = o.undisturbed
          /\ n.stage = "archive" /\ n.file = f
      <3>1. n \in Fields(o.op, "archive", f, o.left, o.undisturbed, o.at)
        BY <1>2, <2>4 DEF OrderOK, Fields
      <3> QED
        BY <1>4, <2>3, <2>5, <3>1
    <2> QED
      BY <1>1, <1>3, <1>6, <1>9, <2>3, <2>6
  <1> QED
    BY <1>2, <1>7, <1>8, <1>9

-----------------------------------------------------------------------------
(* The inductive invariant.                                                *)

\* Untroubled, neither a workspace nor an archive in the making has an event
\* twice.
EventsOnce ==
    ~troubled =>
        /\ IsInjective(place.events)
        /\ \A p \in Users : order[p].op = "export" => IsInjective(order[p].file.events)

\* Where an event has got to.
Recorded(e) ==
    \/ e \in Range(place.events)
    \/ archive # NoArchive /\ e \in Range(archive.events)
    \/ \E p \in Users : order[p].op \in {"export", "import"} /\ e \in Range(order[p].file.events)

\* An event still to be appended is in no workspace, archive or file.
SavedOnce ==
    /\ \A e \in Events : Recorded(e) => e[2] <= spent.saves
    /\ \A p \in Users : order[p].stage = "event" => order[p].at[2] <= spent.saves /\ ~Recorded(order[p].at)
    /\ \A p, q \in Users : (p # q /\ order[p].stage = "event" /\ order[q].stage = "event")
                              => order[p].at # order[q].at

NoneRemoving == \A p \in Users : order[p].stage # "remove"

\* An untroubled workspace that is deleted to the end leaves nothing behind.
AfterDelete ==
    (~troubled /\ ~place.manifest /\ NoneRemoving) =>
        place.sessions = {} /\ place.events = << >> /\ \A t \in TaskIds : place.tasks[t] = 0

OwnContents ==
    (~troubled /\ place.manifest) =>
        /\ TasksIn(place) \subseteq origin
        /\ \A e \in Range(place.events) : <<"event", e>> \in origin

\* Untroubled, at most one import is past its workspace.json, it is not gone
\* but for a deletion, and what it has to append has not been appended.
OneImport ==
    ~troubled => \A p \in Users : Importing(order[p]) =>
        /\ \A q \in Users \ {p} : ~Importing(order[q])
        /\ place.manifest \/ ~NoneRemoving
        /\ \A i \in DOMAIN order[p].file.events : i > order[p].at =>
             order[p].file.events[i] \notin Range(place.events)

\* What an undisturbed export has read is what there is.
ExportsTrue ==
    \A p \in Users : (order[p].op = "export" /\ order[p].undisturbed) =>
        /\ order[p].stage # "tasks out" => order[p].file.tasks = place.tasks
        /\ order[p].stage \in {"events out", "archive"} => order[p].file.sessions = place.sessions
        /\ order[p].stage = "archive" => order[p].file.events = place.events

\* What an import has got to, where nobody else writes.
Written(d, o) ==
    /\ \A t \in TaskIds : d.tasks[t] = IF t \in o.left THEN 0 ELSE o.file.tasks[t]
    /\ d.sessions = IF o.stage = "tasks in" THEN {} ELSE o.file.sessions
    /\ o.stage = "events in" => o.left = {}
    /\ Len(d.events) = o.at
    /\ \A i \in 1..o.at : d.events[i] = o.file.events[i]

\* What an undisturbed import has written is all there is.
ImportsTrue ==
    ~troubled => \A p \in Users : (Importing(order[p]) /\ order[p].undisturbed) => Written(place, order[p])

RestoredTrue == (restored.done /\ restored.empty) => Contents(place) = restored.of

WorkspaceInv ==
    /\ Shape /\ EventsOnce /\ SavedOnce /\ AfterDelete /\ OwnContents /\ OneImport
    /\ ExportsTrue /\ ImportsTrue /\ RestoredTrue

-----------------------------------------------------------------------------
(* Sequences of events.                                                    *)

LEMMA RangeIs ==
    ASSUME NEW S, NEW s \in Seq(S)
    PROVE  /\ Len(s) \in Nat /\ DOMAIN s = 1..Len(s)
           /\ \A e : e \in Range(s) <=> \E i \in 1..Len(s) : s[i] = e
           /\ Range(s) \subseteq S
  BY LenProperties, ElementOfSeq DEF Range

LEMMA NoEvents == << >> \in Seq(Events) /\ Range(<< >>) = {} /\ IsInjective(<< >>) /\ Len(<< >>) = 0
  <1>1. << >> \in Seq(Events) /\ Len(<< >>) = 0 /\ DOMAIN << >> = {}
    BY EmptySeq
  <1> QED
    BY <1>1 DEF Range, IsInjective

LEMMA OneMore ==
    ASSUME NEW s \in Seq(Events), NEW e \in Events
    PROVE  /\ Len(Append(s, e)) = Len(s) + 1 /\ Len(s) \in Nat
           /\ Append(s, e)[Len(s) + 1] = e
           /\ \A i \in 1..Len(s) : Append(s, e)[i] = s[i]
           /\ Range(Append(s, e)) = Range(s) \cup {e}
           /\ (IsInjective(s) /\ e \notin Range(s)) => IsInjective(Append(s, e))
  <1> DEFINE q == Append(s, e)
  <1>1. /\ q \in Seq(Events) /\ Len(q) = Len(s) + 1 /\ Len(s) \in Nat
        /\ q[Len(s) + 1] = e
        /\ \A i \in 1..Len(s) : q[i] = s[i]
    BY AppendProperties, LenProperties
  <1> HIDE DEF q
  <1>2. DOMAIN q = 1..(Len(s) + 1) /\ DOMAIN s = 1..Len(s)
    BY <1>1, LenProperties
  <1>3. \A i \in DOMAIN q : i \in DOMAIN s \/ i = Len(s) + 1
    BY <1>1, <1>2
  <1>4. Len(s) + 1 \in DOMAIN q /\ \A i \in DOMAIN s : i \in DOMAIN q
    BY <1>1, <1>2
  <1>5. Range(q) = Range(s) \cup {e}
    BY <1>1, <1>2, <1>3, <1>4 DEF Range
  <1>6. ASSUME IsInjective(s), e \notin Range(s)
        PROVE  IsInjective(q)
    <2>1. \A i \in DOMAIN s : s[i] # e
      BY <1>6 DEF Range
    <2> QED
      BY <1>1, <1>2, <1>3, <1>6, <2>1 DEF IsInjective
  <1> QED
    BY <1>1, <1>5, <1>6 DEF q

LEMMA ArchiveWritten ==
    ASSUME Shape, EventsOnce, NEW p \in Users, WriteArchive(p)
    PROVE  /\ Moved(p) /\ order[p].stage = "archive" /\ order[p].op = "export" /\ order'[p] = NoOrder
           /\ place' = place /\ origin' = origin /\ troubled' = troubled /\ spent' = spent
           /\ archive'.events = order[p].file.events
           /\ restored' = [done |-> order[p].undisturbed, of |-> Contents(order[p].file), empty |-> TRUE]
  <1>1. Go(p, NoOrder, FALSE)
    BY DEF WriteArchive
  <1>2. order' = [q \in Users |-> order'[q]] /\ order'[p] = NoOrder /\ OthersKept(p)
    BY <1>1, GoKeeps
  <1>3. OrderOK(order[p]) /\ order[p].stage = "archive"
    BY DEF WriteArchive, At, Shape
  <1>4. order[p].op = "export" /\ DirectoryOK(order[p].file)
    BY <1>3 DEF OrderOK
  <1>5. /\ place' = place /\ origin' = origin /\ troubled' = troubled /\ spent' = spent
        /\ archive' = Archived(order[p].file, ~troubled)
        /\ restored' = [done |-> order[p].undisturbed, of |-> Contents(order[p].file), empty |-> TRUE]
    BY DEF WriteArchive
  <1>6. /\ archive'.tasks = order[p].file.tasks /\ archive'.events = order[p].file.events
        /\ archive'.sound = ~troubled
    BY <1>5 DEF Archived
  <1>7. ~troubled => IsInjective(order[p].file.events)
    BY <1>4 DEF EventsOnce
  <1>8. troubled \in BOOLEAN
    BY DEF Shape
  <1>9. ArchiveOK(archive')
    BY <1>4, <1>6, <1>7, <1>8 DEF ArchiveOK, DirectoryOK
  <1>10. Moved(p)
    BY <1>2, <1>5, <1>9, NoOrderOK DEF Moved, Shape, OthersKept
  <1> QED
    BY <1>2, <1>3, <1>4, <1>5, <1>6, <1>10

-----------------------------------------------------------------------------
(* Steps that leave the workspace as it is, and those that add to it.      *)

Quiet(p) ==
    /\ Moved(p)
    /\ place'.manifest = place.manifest /\ place'.tasks = place.tasks
    /\ place'.sessions = place.sessions /\ place'.events = place.events
    /\ origin' = origin
    /\ (troubled \/ order[p].stage = "remove") => troubled'
    /\ ~Importing(order'[p])

Contributed(p) ==
    /\ Wrote(p) /\ order[p].stage \in {"save", "event", "session", "tasks in", "events in"}
    /\ order'[p].stage # "remove" /\ order'[p].op # "export"
    /\ place'.manifest = place.manifest
    /\ \A t \in TaskIds : place'.tasks[t] = place.tasks[t] \/ <<t, place'.tasks[t]>> \in origin'
    /\ \A e \in Range(place'.events) : e \in Range(place.events) \/ <<"event", e>> \in origin'
    /\ origin \subseteq origin' /\ troubled' = (troubled \/ Stray(p))

Contributing(p) ==
    \/ \E t \in TaskIds : SaveTask(p, t) \/ RestoreTask(p, t)
    \/ RestoreSessions(p) \/ RestoreEvent(p) \/ AppendEvent(p) \/ SaveSession(p)

Starting(p) ==
    \/ StartCreate(p) \/ StartDelete(p) \/ StartExport(p) \/ StartSession(p)
    \/ \E t \in TaskIds : StartWork(p, t)
    \/ \E force \in BOOLEAN : StartImport(p, force)

Resting(p) ==
    Starting(p) \/ MakeDirectories(p) \/ ReadOut(p) \/ WriteArchive(p) \/ EndImport(p) \/ GiveUp(p)

LEMMA StepKinds ==
    WorkspaceNext =>
        \E p \in Users :
            \/ Resting(p) \/ WriteManifest(p) \/ RemoveEntry(p) \/ RemoveDirectory(p) \/ Contributing(p)
  BY DEF WorkspaceNext, Resting, Starting, Contributing

LEMMA RestingIsQuiet ==
    ASSUME Shape, EventsOnce, NEW p \in Users, Resting(p)
    PROVE  Quiet(p)
  <1>1. CASE Starting(p)
    BY <1>1, Starts DEF Starting, Started, Quiet, Importing
  <1>2. CASE MakeDirectories(p)
    <2>1. order'[p].stage = "manifest"
      BY <1>2, DirectoriesMade DEF Fields
    <2> QED
      BY <1>2, <2>1, DirectoriesMade DEF Wrote, Quiet, Importing
  <1>3. CASE ReadOut(p)
    <2>1. order[p].op = "export" /\ ~Importing(order'[p]) /\ OrderOK(order[p])
      BY <1>3, PartRead DEF Importing, Shape
    <2>2. order[p].stage # "remove"
      BY <2>1 DEF OrderOK
    <2> QED
      BY <1>3, <2>1, <2>2, PartRead DEF Quiet
  <1>4. CASE WriteArchive(p)
    BY <1>4, ArchiveWritten, NoOrderOK DEF Quiet, Importing
  <1>5. CASE EndImport(p)
    BY <1>5, ImportEnded, NoOrderOK DEF Quiet, Importing
  <1>6. CASE GiveUp(p)
    BY <1>6, GivenUp, NoOrderOK DEF Quiet, Importing, At
  <1> QED
    BY <1>1, <1>2, <1>3, <1>4, <1>5, <1>6 DEF Resting

LEMMA ContributingAdds ==
    ASSUME Shape, NEW p \in Users, Contributing(p)
    PROVE  Contributed(p)
  <1> DirectoryOK(place) /\ OrderOK(order[p])
    BY DEF Shape
  <1>1. ASSUME NEW t \in TaskIds, SaveTask(p, t)
        PROVE  Contributed(p)
    <2>1. PICK v : v = spent.saves + 1
      OBVIOUS
    <2>2. /\ Wrote(p) /\ order[p].stage = "save"
          /\ order'[p].stage = "event" /\ order'[p].op = "work"
          /\ place'.manifest = place.manifest /\ place'.tasks = [place.tasks EXCEPT ![t] = v]
          /\ place'.events = place.events
          /\ origin' = origin \cup {<<t, v>>} /\ troubled' = (troubled \/ Stray(p))
      BY <1>1, <2>1, TaskSaved
    <2>3. \A u \in TaskIds : place'.tasks[u] = IF u = t THEN v ELSE place.tasks[u]
      BY <2>2 DEF DirectoryOK, Saved
    <2> QED
      BY <2>2, <2>3 DEF Contributed
  <1>2. ASSUME NEW t \in TaskIds, RestoreTask(p, t)
        PROVE  Contributed(p)
    <2>1. PICK v : v = order[p].file.tasks[t]
      OBVIOUS
    <2>2. /\ Wrote(p) /\ order[p].stage = "tasks in"
          /\ order'[p].stage = order[p].stage /\ order'[p].op = order[p].op
          /\ place'.manifest = place.manifest /\ place'.tasks = [place.tasks EXCEPT ![t] = v]
          /\ place'.events = place.events
          /\ origin' = origin \cup {<<t, v>>} /\ troubled' = (troubled \/ Stray(p))
      BY <1>2, <2>1, TaskRestored DEF Fields
    <2>3. \A u \in TaskIds : place'.tasks[u] = IF u = t THEN v ELSE place.tasks[u]
      BY <2>2 DEF DirectoryOK, Saved
    <2>4. order[p].op = "import"
      BY <2>2, ImportIs DEF Importing
    <2> QED
      BY <2>2, <2>3, <2>4 DEF Contributed
  <1>3. CASE RestoreSessions(p)
    <2>1. order[p].stage = "tasks in" /\ order'[p].stage = "events in" /\ order'[p].op = order[p].op
      BY <1>3, SessionsRestored DEF Fields
    <2>2. order[p].op = "import"
      BY <2>1, ImportIs DEF Importing
    <2> QED
      BY <1>3, <2>1, <2>2, SessionsRestored DEF Contributed
  <1>4. CASE RestoreEvent(p)
    <2>1. PICK e : e = order[p].file.events[order[p].at + 1]
      OBVIOUS
    <2>2. /\ Wrote(p) /\ order[p].stage = "events in" /\ e \in Events
          /\ order'[p].stage = order[p].stage /\ order'[p].op = order[p].op
          /\ place'.manifest = place.manifest /\ place'.tasks = place.tasks
          /\ place'.events = Append(place.events, e)
          /\ origin' = origin \cup {<<"event", e>>} /\ troubled' = (troubled \/ Stray(p))
      BY <1>4, <2>1, EventRestored DEF Fields
    <2>3. order[p].op = "import"
      BY <2>2, ImportIs DEF Importing
    <2>4. Range(place'.events) = Range(place.events) \cup {e}
      <3>1. place.events \in Seq(Events) /\ e \in Events /\ place'.events = Append(place.events, e)
        BY <2>2 DEF DirectoryOK
      <3> QED
        BY <3>1, OneMore
    <2> QED
      BY <2>2, <2>3, <2>4 DEF Contributed
  <1>5. CASE AppendEvent(p)
    <2>1. PICK e : e = order[p].at
      OBVIOUS
    <2>2. /\ Wrote(p) /\ order[p].stage = "event" /\ e \in Events
          /\ order'[p].stage \in {"save", "idle"} /\ order'[p].op \in {"work", "none"}
          /\ place'.manifest = place.manifest /\ place'.tasks = place.tasks
          /\ place'.events = Append(place.events, e)
          /\ origin' = origin \cup {<<"event", e>>} /\ troubled' = (troubled \/ Stray(p))
      BY <1>5, <2>1, EventAppended
    <2>3. Range(place'.events) = Range(place.events) \cup {e}
      <3>1. place.events \in Seq(Events) /\ e \in Events /\ place'.events = Append(place.events, e)
        BY <2>2 DEF DirectoryOK
      <3> QED
        BY <3>1, OneMore
    <2> QED
      BY <2>2, <2>3 DEF Contributed
  <1>6. CASE SaveSession(p)
    BY <1>6, SessionSaved, NoOrderOK DEF Contributed
  <1> QED
    BY <1>1, <1>2, <1>3, <1>4, <1>5, <1>6 DEF Contributing

-----------------------------------------------------------------------------
(* What is in the workspace.                                               *)

LEMMA StrayOutside ==
    ASSUME NEW p \in Users, Contributed(p), ~troubled'
    PROVE  place.manifest /\ ~troubled /\ ~Stray(p)
  BY DEF Contributed, Stray

\* Who is not the one who moved is where he was.
LEMMA RemovingKept ==
    ASSUME NEW p \in Users, OthersKept(p), order[p].stage # "remove", NoneRemoving'
    PROVE  NoneRemoving
  BY DEF OthersKept, Kept, NoneRemoving

LEMMA AfterDeleteKept ==
    ASSUME Shape, AfterDelete, NEW p \in Users,
           Quiet(p) \/ WriteManifest(p) \/ RemoveEntry(p) \/ RemoveDirectory(p) \/ Contributed(p)
    PROVE  AfterDelete'
  <1> SUFFICES ASSUME ~troubled', ~place'.manifest, NoneRemoving'
               PROVE  place'.sessions = {} /\ place'.events = << >> /\ \A t \in TaskIds : place'.tasks[t] = 0
    BY DEF AfterDelete
  <1>1. CASE Quiet(p)
    <2>1. NoneRemoving
      BY <1>1, RemovingKept DEF Quiet, Moved
    <2> QED
      BY <1>1, <2>1 DEF Quiet, AfterDelete
  <1>2. CASE WriteManifest(p)
    BY <1>2, ManifestWritten
  <1>3. CASE RemoveEntry(p)
    BY <1>3, EntryRemoved DEF NoneRemoving
  <1>4. CASE RemoveDirectory(p)
    BY <1>4, DirectoryRemoved
  <1>5. CASE Contributed(p)
    BY <1>5, StrayOutside DEF Contributed
  <1> QED
    BY <1>1, <1>2, <1>3, <1>4, <1>5

LEMMA OwnContentsKept ==
    ASSUME Shape, AfterDelete, OwnContents, NEW p \in Users,
           Quiet(p) \/ WriteManifest(p) \/ RemoveEntry(p) \/ RemoveDirectory(p) \/ Contributed(p)
    PROVE  OwnContents'
  <1> SUFFICES ASSUME ~troubled', place'.manifest
               PROVE  /\ \A t \in TaskIds : place'.tasks[t] # 0 => <<t, place'.tasks[t]>> \in origin'
                      /\ \A e \in Range(place'.events) : <<"event", e>> \in origin'
    BY DEF OwnContents, TasksIn
  <1>0. ASSUME ~troubled, place.manifest
        PROVE  /\ \A t \in TaskIds : place.tasks[t] # 0 => <<t, place.tasks[t]>> \in origin
               /\ \A e \in Range(place.events) : <<"event", e>> \in origin
    BY <1>0 DEF OwnContents, TasksIn
  <1>1. CASE Quiet(p)
    BY <1>0, <1>1 DEF Quiet
  <1>2. CASE WriteManifest(p)
    <2>1. /\ ~troubled /\ ~Stray(p) /\ ~place.manifest /\ order[p].stage = "manifest"
          /\ place'.tasks = place.tasks /\ place'.events = place.events
      BY <1>2, ManifestWritten
    <2>2. NoneRemoving
      BY <2>1 DEF NoneRemoving, Stray, At
    <2>3. place.events = << >> /\ \A t \in TaskIds : place.tasks[t] = 0
      BY <2>1, <2>2 DEF AfterDelete
    <2> QED
      BY <2>1, <2>3, NoEvents
  <1>3. CASE RemoveEntry(p)
    <2>1. Range(place'.events) \subseteq Range(place.events)
      BY <1>3, EntryRemoved, NoEvents
    <2> QED
      BY <1>0, <1>3, <2>1, EntryRemoved
  <1>4. CASE RemoveDirectory(p)
    BY <1>4, DirectoryRemoved
  <1>5. CASE Contributed(p)
    <2>1. place.manifest /\ ~troubled
      BY <1>5, StrayOutside
    <2> QED
      BY <1>0, <1>5, <2>1 DEF Contributed
  <1> QED
    BY <1>1, <1>2, <1>3, <1>4, <1>5

-----------------------------------------------------------------------------
(* Where the events are.                                                   *)

\* What the one who did not move holds, he held before.
LEMMA OthersHold ==
    ASSUME NEW p \in Users, OthersKept(p), NEW q \in Users \ {p}, order'[q].op \in {"export", "import"},
           NEW e \in Range(order'[q].file.events)
    PROVE  Recorded(e)
  BY DEF OthersKept, Kept, Recorded

\* An event gets nowhere but from where it was, unless it is appended.
LEMMA RecordedGrows ==
    ASSUME Shape, EventsOnce, NEW p \in Users,
           Resting(p) \/ WriteManifest(p) \/ RemoveEntry(p) \/ RemoveDirectory(p) \/ Contributing(p),
           NEW e, Recorded(e)'
    PROVE  Recorded(e) \/ (AppendEvent(p) /\ e = order[p].at)
  <1> DEFINE Claim == Recorded(e) \/ (AppendEvent(p) /\ e = order[p].at)
  <1>0. ASSUME OthersKept(p),
               e \in Range(place'.events) => Claim,
               archive' = archive,
               order'[p].op \in {"export", "import"} =>
                   order'[p].op = order[p].op /\ order'[p].file = order[p].file
        PROVE  Claim
    <2>1. CASE \E q \in Users : order'[q].op \in {"export", "import"} /\ e \in Range(order'[q].file.events)
      <3>1. PICK q \in Users : order'[q].op \in {"export", "import"} /\ e \in Range(order'[q].file.events)
        BY <2>1
      <3>2. CASE q = p
        BY <1>0, <3>1, <3>2 DEF Recorded
      <3>3. CASE q # p
        BY <1>0, <3>1, <3>3, OthersHold
      <3> QED
        BY <3>2, <3>3
    <2>2. CASE ~\E q \in Users : order'[q].op \in {"export", "import"} /\ e \in Range(order'[q].file.events)
      BY <1>0, <2>2 DEF Recorded
    <2> QED
      BY <2>1, <2>2
  <1>1. CASE Starting(p)
    <2>1. Started(p)
      BY <1>1, Starts DEF Starting
    <2>2. CASE \E q \in Users : order'[q].op \in {"export", "import"} /\ e \in Range(order'[q].file.events)
      <3>1. PICK q \in Users : order'[q].op \in {"export", "import"} /\ e \in Range(order'[q].file.events)
        BY <2>2
      <3>2. CASE q = p /\ order'[p].op = "export"
        <4>1. Range(order'[p].file.events) = {}
          <5>1. order'[p].file = Nowhere
            BY <2>1, <3>2 DEF Started
          <5>2. Nowhere.events = << >>
            BY DEF Nowhere
          <5> QED
            BY <5>1, <5>2, NoEvents
        <4> QED
          BY <3>1, <3>2, <4>1
      <3>3. CASE q = p /\ order'[p].op = "import"
        BY <2>1, <3>1, <3>3 DEF Started, Recorded
      <3>4. CASE q # p
        BY <2>1, <3>1, <3>4, OthersHold DEF Started, Moved
      <3> QED
        BY <3>1, <3>2, <3>3, <3>4
    <2>3. CASE ~\E q \in Users : order'[q].op \in {"export", "import"} /\ e \in Range(order'[q].file.events)
      BY <2>1, <2>3 DEF Recorded, Started
    <2> QED
      BY <2>2, <2>3
  <1>2. CASE MakeDirectories(p)
    <2>1. OthersKept(p) /\ archive' = archive /\ place'.events = place.events
      BY <1>2, DirectoriesMade DEF Wrote, Moved
    <2>2. order'[p].op = order[p].op /\ order'[p].file = order[p].file
      BY <1>2, DirectoriesMade DEF Fields
    <2> QED
      BY <1>0, <2>1, <2>2 DEF Recorded
  <1>3. CASE ReadOut(p)
    <2>1. /\ OthersKept(p) /\ archive' = archive /\ place' = place /\ order[p].op = "export"
          /\ order'[p].file.events = order[p].file.events \/ order'[p].file.events = place.events
      BY <1>3, PartRead DEF Moved
    <2>2. CASE \E q \in Users : order'[q].op \in {"export", "import"} /\ e \in Range(order'[q].file.events)
      <3>1. PICK q \in Users : order'[q].op \in {"export", "import"} /\ e \in Range(order'[q].file.events)
        BY <2>2
      <3>2. CASE q = p
        BY <2>1, <3>1, <3>2 DEF Recorded
      <3>3. CASE q # p
        BY <2>1, <3>1, <3>3, OthersHold
      <3> QED
        BY <3>2, <3>3
    <2>3. CASE ~\E q \in Users : order'[q].op \in {"export", "import"} /\ e \in Range(order'[q].file.events)
      BY <2>1, <2>3 DEF Recorded
    <2> QED
      BY <2>2, <2>3
  <1>4. CASE WriteArchive(p)
    <2>1. /\ OthersKept(p) /\ place' = place /\ order[p].op = "export" /\ order'[p] = NoOrder
          /\ archive'.events = order[p].file.events
      BY <1>4, ArchiveWritten DEF Moved
    <2>2. CASE \E q \in Users : order'[q].op \in {"export", "import"} /\ e \in Range(order'[q].file.events)
      <3>1. PICK q \in Users : order'[q].op \in {"export", "import"} /\ e \in Range(order'[q].file.events)
        BY <2>2
      <3>2. q # p
        BY <2>1, <3>1, NoOrderOK
      <3> QED
        BY <2>1, <3>1, <3>2, OthersHold
    <2>3. CASE ~\E q \in Users : order'[q].op \in {"export", "import"} /\ e \in Range(order'[q].file.events)
      BY <2>1, <2>3 DEF Recorded
    <2> QED
      BY <2>2, <2>3
  <1>5. CASE EndImport(p)
    <2>1. OthersKept(p) /\ archive' = archive /\ place' = place /\ order'[p].op = "none"
      BY <1>5, ImportEnded, NoOrderOK DEF Moved
    <2> QED
      BY <1>0, <2>1 DEF Recorded
  <1>6. CASE GiveUp(p)
    <2>1. OthersKept(p) /\ archive' = archive /\ place' = place /\ order'[p].op = "none"
      BY <1>6, GivenUp, NoOrderOK DEF Moved
    <2> QED
      BY <1>0, <2>1 DEF Recorded
  <1>7. CASE WriteManifest(p)
    <2>1. OthersKept(p) /\ archive' = archive /\ place'.events = place.events
      BY <1>7, ManifestWritten DEF Wrote, Moved
    <2>2. \/ order'[p].op = order[p].op /\ order'[p].file = order[p].file
          \/ order'[p].op = "none"
      BY <1>7, ManifestWritten, NoOrderOK DEF Fields
    <2> QED
      BY <1>0, <2>1, <2>2 DEF Recorded
  <1>8. CASE RemoveEntry(p)
    <2>1. OthersKept(p) /\ archive' = archive /\ order'[p] = order[p] /\ Range(place'.events) \subseteq Range(place.events)
      BY <1>8, EntryRemoved, NoEvents DEF Wrote, Moved
    <2> QED
      BY <1>0, <2>1 DEF Recorded
  <1>9. CASE RemoveDirectory(p)
    <2>1. OthersKept(p) /\ archive' = archive /\ Range(place'.events) = {}
      BY <1>9, DirectoryRemoved, NoEvents DEF Wrote, Moved
    <2>2. \/ order'[p].op = order[p].op /\ order'[p].file = order[p].file
          \/ order'[p].op = "none"
      BY <1>9, DirectoryRemoved, NoOrderOK DEF Fields
    <2> QED
      BY <1>0, <2>1, <2>2
  <1>10. ASSUME NEW t \in TaskIds, SaveTask(p, t)
         PROVE  Claim
    <2>1. OthersKept(p) /\ archive' = archive /\ place'.events = place.events /\ order'[p].op = "work"
      BY <1>10, TaskSaved DEF Wrote, Moved
    <2> QED
      BY <1>0, <2>1 DEF Recorded
  <1>11. ASSUME NEW t \in TaskIds, RestoreTask(p, t)
         PROVE  Claim
    <2>1. OthersKept(p) /\ archive' = archive /\ place'.events = place.events
      BY <1>11, TaskRestored DEF Wrote, Moved
    <2>2. order'[p].op = order[p].op /\ order'[p].file = order[p].file
      BY <1>11, TaskRestored DEF Fields
    <2> QED
      BY <1>0, <2>1, <2>2 DEF Recorded
  <1>12. CASE RestoreSessions(p)
    <2>1. OthersKept(p) /\ archive' = archive /\ place'.events = place.events
      BY <1>12, SessionsRestored DEF Wrote, Moved
    <2>2. order'[p].op = order[p].op /\ order'[p].file = order[p].file
      BY <1>12, SessionsRestored DEF Fields
    <2> QED
      BY <1>0, <2>1, <2>2 DEF Recorded
  <1>13. CASE RestoreEvent(p)
    <2>1. PICK f : f = order[p].file.events
      OBVIOUS
    <2>2. PICK d : d = f[order[p].at + 1]
      OBVIOUS
    <2>3. /\ OthersKept(p) /\ archive' = archive /\ d \in Events /\ place'.events = Append(place.events, d)
          /\ order[p].at + 1 \in 1..Len(f) /\ order[p].stage = "events in"
      BY <1>13, <2>1, <2>2, EventRestored DEF Wrote, Moved
    <2>4. order'[p].op = order[p].op /\ order'[p].file = order[p].file
      BY <1>13, EventRestored DEF Fields
    <2>5. order[p].op = "import" /\ f \in Seq(Events) /\ place.events \in Seq(Events)
      BY <2>1, <2>3, ImportIs DEF Shape, Importing, ArchiveOK, DirectoryOK
    <2>6. Range(place'.events) = Range(place.events) \cup {d}
      <3>1. d \in Events /\ place'.events = Append(place.events, d) /\ place.events \in Seq(Events)
        BY <2>3, <2>5
      <3>2. Range(Append(place.events, d)) = Range(place.events) \cup {d}
        BY <3>1, OneMore
      <3> QED
        BY <3>1, <3>2
    <2>7. d \in Range(f)
      BY <2>2, <2>3, <2>5, RangeIs
    <2>8. e \in Range(place'.events) => Recorded(e)
      BY <2>1, <2>5, <2>6, <2>7 DEF Recorded
    <2> QED
      BY <1>0, <2>3, <2>4, <2>8
  <1>14. CASE AppendEvent(p)
    <2>1. PICK d : d = order[p].at
      OBVIOUS
    <2>2. /\ OthersKept(p) /\ archive' = archive /\ d \in Events /\ place'.events = Append(place.events, d)
          /\ order'[p].op \in {"work", "none"}
      BY <1>14, <2>1, EventAppended DEF Wrote, Moved
    <2>3. place.events \in Seq(Events)
      BY DEF Shape, DirectoryOK
    <2>4. Range(place'.events) = Range(place.events) \cup {d}
      <3>1. d \in Events /\ place'.events = Append(place.events, d)
        BY <2>2
      <3>2. Range(Append(place.events, d)) = Range(place.events) \cup {d}
        BY <2>3, <3>1, OneMore
      <3> QED
        BY <3>1, <3>2
    <2>5. e \in Range(place'.events) => Claim
      BY <1>14, <2>1, <2>4 DEF Recorded
    <2> QED
      BY <1>0, <2>2, <2>5
  <1>15. CASE SaveSession(p)
    <2>1. OthersKept(p) /\ archive' = archive /\ place'.events = place.events /\ order'[p].op = "none"
      BY <1>15, SessionSaved, NoOrderOK DEF Wrote, Moved
    <2> QED
      BY <1>0, <2>1 DEF Recorded
  <1> QED
    BY <1>1, <1>2, <1>3, <1>4, <1>5, <1>6, <1>7, <1>8, <1>9, <1>10, <1>11, <1>12, <1>13, <1>14, <1>15
    DEF Resting, Contributing

Stepping(p) ==
    Resting(p) \/ WriteManifest(p) \/ RemoveEntry(p) \/ RemoveDirectory(p) \/ Contributing(p)

\* Only who saves a task has an event to append afterwards.
LEMMA OnlySavingPends ==
    ASSUME Shape, EventsOnce, NEW p \in Users, Stepping(p), \A t \in TaskIds : ~SaveTask(p, t)
    PROVE  /\ OthersKept(p) /\ order'[p].stage # "event" /\ spent'.saves = spent.saves
           /\ AppendEvent(p) => order[p].stage = "event"
  <1>1. CASE Starting(p)
    <2>1. Started(p)
      BY <1>1, Starts DEF Starting
    <2> QED
      BY <2>1 DEF Started, Moved, AppendEvent, At
  <1>2. CASE MakeDirectories(p)
    BY <1>2, DirectoriesMade DEF Wrote, Moved, Fields, AppendEvent, At
  <1>3. CASE ReadOut(p)
    BY <1>3, PartRead DEF Moved, AppendEvent, At
  <1>4. CASE WriteArchive(p)
    BY <1>4, ArchiveWritten, NoOrderOK DEF Moved, AppendEvent, At
  <1>5. CASE EndImport(p)
    BY <1>5, ImportEnded, NoOrderOK DEF Moved, AppendEvent, At
  <1>6. CASE GiveUp(p)
    BY <1>6, GivenUp, NoOrderOK DEF Moved, AppendEvent, At
  <1>7. CASE WriteManifest(p)
    BY <1>7, ManifestWritten, NoOrderOK DEF Wrote, Moved, Fields, AppendEvent, At
  <1>8. CASE RemoveEntry(p)
    BY <1>8, EntryRemoved DEF Wrote, Moved, AppendEvent, At
  <1>9. CASE RemoveDirectory(p)
    BY <1>9, DirectoryRemoved, NoOrderOK DEF Wrote, Moved, Fields, AppendEvent, At
  <1>10. ASSUME NEW t \in TaskIds, RestoreTask(p, t)
         PROVE  /\ OthersKept(p) /\ order'[p].stage # "event" /\ spent'.saves = spent.saves
                /\ AppendEvent(p) => order[p].stage = "event"
    BY <1>10, TaskRestored DEF Wrote, Moved, Fields, AppendEvent, At
  <1>11. CASE RestoreSessions(p)
    BY <1>11, SessionsRestored DEF Wrote, Moved, Fields, AppendEvent, At
  <1>12. CASE RestoreEvent(p)
    BY <1>12, EventRestored DEF Wrote, Moved, Fields, AppendEvent, At
  <1>13. CASE AppendEvent(p)
    BY <1>13, EventAppended DEF Wrote, Moved
  <1>14. CASE SaveSession(p)
    BY <1>14, SessionSaved, NoOrderOK DEF Wrote, Moved, AppendEvent, At
  <1> QED
    BY <1>1, <1>2, <1>3, <1>4, <1>5, <1>6, <1>7, <1>8, <1>9, <1>10, <1>11, <1>12, <1>13, <1>14
    DEF Stepping, Resting, Contributing

LEMMA PendingIsEvent ==
    ASSUME Shape, NEW p \in Users, order[p].stage = "event"
    PROVE  order[p].at \in Events
  BY DEF Shape, OrderOK

LEMMA SavedOnceKept ==
    ASSUME Shape, EventsOnce, SavedOnce, NEW p \in Users, Stepping(p)
    PROVE  SavedOnce'
  <1>0. ASSUME NEW e, Recorded(e)'
        PROVE  Recorded(e) \/ (AppendEvent(p) /\ e = order[p].at)
    BY <1>0, RecordedGrows DEF Stepping
  <1>1. ASSUME NEW t \in TaskIds, SaveTask(p, t)
        PROVE  SavedOnce'
    <2>1. PICK v : v = spent.saves + 1
      OBVIOUS
    <2>2. /\ OthersKept(p) /\ order[p].stage = "save" /\ v \in Nat /\ spent.saves \in Nat
          /\ order'[p].stage = "event" /\ order'[p].at = <<t, v>> /\ spent'.saves = v /\ spent.saves < v
      <3>1. spent.saves \in Nat
        BY DEF Shape
      <3>2. v \in Nat /\ spent.saves < v
        BY <2>1, <3>1
      <3> QED
        BY <1>1, <2>1, <3>1, <3>2, TaskSaved DEF Wrote, Moved
    <2>3. ~AppendEvent(p)
      BY <2>2 DEF AppendEvent, At
    <2>4. ASSUME NEW e \in Events, Recorded(e)'
          PROVE  Recorded(e) /\ e[2] <= spent.saves /\ e[2] <= v /\ e # <<t, v>>
      <3>1. Recorded(e) /\ e[2] \in Nat
        BY <1>0, <2>3, <2>4 DEF Events
      <3>2. e[2] <= spent.saves
        BY <3>1 DEF SavedOnce
      <3> QED
        BY <2>2, <3>1, <3>2
    <2>5. <<t, v>> \in Events
      BY <2>2 DEF Events
    <2>6. ASSUME NEW q \in Users \ {p}, order'[q].stage = "event"
          PROVE  /\ order'[q].at[2] <= v /\ ~Recorded(order[q].at)' /\ order'[q].at # <<t, v>>
                 /\ order'[q].at = order[q].at /\ order[q].stage = "event"
      <3>1. order'[q].at = order[q].at /\ order[q].stage = "event"
        BY <2>2, <2>6 DEF OthersKept, Kept
      <3>2. PICK d : d = order[q].at
        OBVIOUS
      <3>3. d \in Events /\ d[2] \in Nat /\ d[2] <= spent.saves /\ ~Recorded(d)
        BY <3>1, <3>2, PendingIsEvent DEF SavedOnce, Events
      <3>4. ~Recorded(d)'
        BY <1>0, <2>3, <3>3
      <3>5. ~Recorded(order[q].at)'
        BY <3>1, <3>2, <3>4 DEF Recorded
      <3> QED
        BY <2>2, <3>1, <3>2, <3>3, <3>5
    <2>7. ~Recorded(order[p].at)'
      <3>1. PICK d : d = <<t, v>>
        OBVIOUS
      <3>2. ~Recorded(d)' /\ order'[p].at = d
        BY <2>2, <2>4, <2>5, <3>1
      <3> QED
        BY <3>2 DEF Recorded
    <2>8. order'[p].at[2] <= v
      BY <2>2
    <2>9. \A e \in Events : Recorded(e)' => e[2] <= spent'.saves
      BY <2>2, <2>4
    <2>10. ASSUME NEW q \in Users, order'[q].stage = "event"
           PROVE  order'[q].at[2] <= spent'.saves /\ ~Recorded(order[q].at)'
      BY <2>2, <2>6, <2>7, <2>8, <2>10
    <2>11. ASSUME NEW q \in Users, NEW r \in Users, q # r, order'[q].stage = "event", order'[r].stage = "event"
           PROVE  order'[q].at # order'[r].at
      <3>1. CASE q # p /\ r # p
        BY <2>6, <2>11, <3>1 DEF SavedOnce
      <3>2. CASE q = p \/ r = p
        BY <2>2, <2>6, <2>11, <3>2
      <3> QED
        BY <3>1, <3>2
    <2> QED
      BY <2>9, <2>10, <2>11 DEF SavedOnce
  <1>2. CASE \A t \in TaskIds : ~SaveTask(p, t)
    <2>1. /\ OthersKept(p) /\ order'[p].stage # "event" /\ spent'.saves = spent.saves
          /\ AppendEvent(p) => order[p].stage = "event"
      BY <1>2, OnlySavingPends
    <2>2. \A q \in Users : order'[q].stage = "event" =>
             q # p /\ order'[q].at = order[q].at /\ order[q].stage = "event"
      BY <2>1 DEF OthersKept, Kept
    <2>3. ASSUME NEW e \in Events, Recorded(e)'
          PROVE  e[2] <= spent'.saves
      BY <1>0, <2>1, <2>3 DEF SavedOnce
    <2>4. ASSUME NEW q \in Users, order'[q].stage = "event"
          PROVE  order'[q].at[2] <= spent'.saves /\ ~Recorded(order[q].at)'
      <3>1. PICK d : d = order[q].at
        OBVIOUS
      <3>2. q # p /\ order'[q].at = d /\ order[q].stage = "event" /\ d[2] <= spent.saves /\ ~Recorded(d)
        BY <2>2, <2>4, <3>1 DEF SavedOnce
      <3>3. ~(AppendEvent(p) /\ d = order[p].at)
        BY <2>1, <3>1, <3>2 DEF SavedOnce
      <3>4. ~Recorded(d)'
        BY <1>0, <3>2, <3>3
      <3> QED
        BY <2>1, <3>2, <3>4 DEF Recorded
    <2>5. \A q, r \in Users : (q # r /\ order'[q].stage = "event" /\ order'[r].stage = "event")
                                => order'[q].at # order'[r].at
      BY <2>2 DEF SavedOnce
    <2> QED
      BY <2>3, <2>4, <2>5 DEF SavedOnce
  <1> QED
    BY <1>1, <1>2

-----------------------------------------------------------------------------
(* Each event once.                                                        *)

\* What p is to append is not there, and so each event is there once more.
LEMMA AppendsOnce ==
    ASSUME Shape, EventsOnce, NEW e \in Events, ~troubled, e \notin Range(place.events),
           place'.events = Append(place.events, e)
    PROVE  IsInjective(place'.events)
  <1>1. place.events \in Seq(Events) /\ IsInjective(place.events)
    BY DEF Shape, DirectoryOK, EventsOnce
  <1> QED
    BY <1>1, OneMore

\* The next event of an untroubled import has not been appended.
LEMMA NextIsNew ==
    ASSUME Shape, OneImport, NEW p \in Users, RestoreEvent(p), ~troubled
    PROVE  order[p].file.events[order[p].at + 1] \notin Range(place.events)
  <1>1. PICK f : f = order[p].file.events
    OBVIOUS
  <1>2. PICK a : a = order[p].at
    OBVIOUS
  <1>3. order[p].stage = "events in" /\ a + 1 \in 1..Len(f)
    BY <1>1, <1>2, EventRestored
  <1>4. Importing(order[p]) /\ OrderOK(order[p])
    BY <1>3 DEF Importing, Shape
  <1>5. f \in Seq(Events) /\ a \in 0..Len(f) /\ Len(f) \in Nat
    BY <1>1, <1>2, <1>4, ImportIs DEF ArchiveOK
  <1>6. a + 1 \in DOMAIN f /\ a + 1 > a
    <2>1. DOMAIN f = 1..Len(f)
      BY <1>5, LenProperties
    <2>2. a \in Nat
      BY <1>5
    <2>3. a + 1 > a
      BY <2>2
    <2>4. a + 1 \in DOMAIN f
      BY <1>3, <2>1
    <2> QED
      BY <2>3, <2>4
  <1> QED
    BY <1>1, <1>2, <1>4, <1>6 DEF OneImport

LEMMA EventsOnceKept ==
    ASSUME Shape, EventsOnce, SavedOnce, OneImport, NEW p \in Users, Stepping(p)
    PROVE  EventsOnce'
  <1> SUFFICES ASSUME ~troubled'
               PROVE  /\ IsInjective(place'.events)
                      /\ \A q \in Users : order'[q].op = "export" => IsInjective(order'[q].file.events)
    BY DEF EventsOnce
  <1>1. ASSUME OthersKept(p), ~troubled, order'[p].op # "export"
        PROVE  \A q \in Users : order'[q].op = "export" => IsInjective(order'[q].file.events)
    BY <1>1 DEF OthersKept, Kept, EventsOnce
  <1>2. CASE Resting(p)
    <2>1. Quiet(p) /\ ~troubled
      BY <1>2, RestingIsQuiet DEF Quiet
    <2>2. IsInjective(place'.events)
      BY <2>1 DEF Quiet, EventsOnce
    <2>3. OthersKept(p)
      BY <2>1 DEF Quiet, Moved
    <2>4. order'[p].op = "export" => IsInjective(order'[p].file.events)
      <3>1. CASE Starting(p)
        <4>1. order'[p].op = "export" => order'[p].file = Nowhere
          BY <3>1, Starts DEF Starting, Started
        <4>2. Nowhere.events = << >>
          BY DEF Nowhere
        <4> QED
          BY <4>1, <4>2, NoEvents
      <3>2. CASE MakeDirectories(p)
        <4>1. order[p].stage = "dirs" /\ order'[p].op = order[p].op
          BY <3>2, DirectoriesMade DEF Fields
        <4> QED
          BY <4>1 DEF Shape, OrderOK
      <3>3. CASE ReadOut(p)
        <4>1. /\ order[p].op = "export"
              /\ order'[p].file.events = order[p].file.events \/ order'[p].file.events = place.events
          BY <3>3, PartRead
        <4> QED
          BY <2>1, <4>1 DEF EventsOnce
      <3>4. CASE WriteArchive(p)
        BY <3>4, ArchiveWritten, NoOrderOK
      <3>5. CASE EndImport(p)
        BY <3>5, ImportEnded, NoOrderOK
      <3>6. CASE GiveUp(p)
        BY <3>6, GivenUp, NoOrderOK
      <3> QED
        BY <1>2, <3>1, <3>2, <3>3, <3>4, <3>5, <3>6 DEF Resting
    <2> QED
      BY <2>1, <2>2, <2>3, <2>4 DEF OthersKept, Kept, EventsOnce
  <1>3. CASE WriteManifest(p)
    <2>1. order[p].stage = "manifest" /\ OrderOK(order[p])
      BY <1>3, ManifestWritten DEF Shape
    <2>2. order'[p].op # "export"
      BY <1>3, <2>1, ManifestWritten, NoOrderOK DEF OrderOK, Fields
    <2>3. OthersKept(p) /\ ~troubled /\ place'.events = place.events
      BY <1>3, ManifestWritten DEF Wrote, Moved
    <2> QED
      BY <1>1, <2>2, <2>3 DEF EventsOnce
  <1>4. CASE RemoveEntry(p)
    <2>1. order[p].stage = "remove" /\ order'[p] = order[p] /\ OrderOK(order[p])
      BY <1>4, EntryRemoved DEF Shape
    <2>2. order'[p].op # "export"
      BY <2>1 DEF OrderOK
    <2>3. OthersKept(p) /\ ~troubled /\ (place'.events = place.events \/ place'.events = << >>)
      BY <1>4, EntryRemoved DEF Wrote, Moved
    <2> QED
      BY <1>1, <2>2, <2>3, NoEvents DEF EventsOnce
  <1>5. CASE RemoveDirectory(p)
    <2>1. place'.events = << >> /\ OthersKept(p)
      BY <1>5, DirectoryRemoved DEF Wrote, Moved
    <2>2. order'[p].op # "export"
      <3>1. order[p].stage = "remove" /\ OrderOK(order[p])
        BY <1>5, DirectoryRemoved DEF Shape
      <3> QED
        BY <1>5, <3>1, DirectoryRemoved, NoOrderOK DEF OrderOK, Fields
    <2>3. ASSUME NEW q \in Users \ {p}, order'[q].op = "export"
          PROVE  IsInjective(order'[q].file.events)
      <3>1. order[q].op = "export" /\ order'[q].file = order[q].file /\ order[q] # NoOrder
        BY <2>1, <2>3, NoOrderOK DEF OthersKept, Kept
      <3>2. ~troubled
        BY <1>5, <3>1, DirectoryRemoved
      <3> QED
        BY <3>1, <3>2 DEF EventsOnce
    <2> QED
      BY <2>1, <2>2, <2>3, NoEvents
  <1>6. CASE Contributing(p)
    <2>1. Contributed(p)
      BY <1>6, ContributingAdds
    <2>2. ~troubled /\ OthersKept(p) /\ order'[p].op # "export"
      BY <2>1, StrayOutside DEF Contributed, Wrote, Moved
    <2>3. IsInjective(place'.events)
      <3>1. ASSUME NEW t \in TaskIds, SaveTask(p, t)
            PROVE  place'.events = place.events
        BY <3>1, TaskSaved
      <3>2. ASSUME NEW t \in TaskIds, RestoreTask(p, t)
            PROVE  place'.events = place.events
        BY <3>2, TaskRestored
      <3>3. CASE RestoreSessions(p)
        BY <2>2, <3>3, SessionsRestored DEF EventsOnce
      <3>4. CASE SaveSession(p)
        BY <2>2, <3>4, SessionSaved DEF EventsOnce
      <3>5. CASE RestoreEvent(p)
        <4>1. PICK e : e = order[p].file.events[order[p].at + 1]
          OBVIOUS
        <4>2. e \in Events /\ place'.events = Append(place.events, e)
          BY <3>5, <4>1, EventRestored
        <4>3. e \notin Range(place.events)
          BY <2>2, <3>5, <4>1, NextIsNew
        <4> QED
          BY <2>2, <4>2, <4>3, AppendsOnce
      <3>6. CASE AppendEvent(p)
        <4>1. PICK e : e = order[p].at
          OBVIOUS
        <4>2. e \in Events /\ place'.events = Append(place.events, e) /\ order[p].stage = "event"
          BY <3>6, <4>1, EventAppended
        <4>3. e \notin Range(place.events)
          BY <4>1, <4>2 DEF SavedOnce, Recorded
        <4> QED
          BY <2>2, <4>2, <4>3, AppendsOnce
      <3> QED
        BY <1>6, <2>2, <3>1, <3>2, <3>3, <3>4, <3>5, <3>6 DEF Contributing, EventsOnce
    <2> QED
      BY <1>1, <2>2, <2>3
  <1> QED
    BY <1>2, <1>3, <1>4, <1>5, <1>6 DEF Stepping

\* Who was importing and is not the one who moved still is, with the same
\* file and as far.
LEMMA ImportsKept ==
    ASSUME NEW p \in Users, OthersKept(p), NEW q \in Users \ {p}, Importing(order'[q])
    PROVE  /\ Importing(order[q]) /\ order'[q].file = order[q].file /\ order'[q].at = order[q].at
           /\ order'[q].left = order[q].left /\ order'[q].stage = order[q].stage
           /\ order'[q].undisturbed => order[q].undisturbed
  BY DEF OthersKept, Kept, Importing

\* An import that writes its workspace.json untroubled finds nothing there.
LEMMA BeginsEmpty ==
    ASSUME Shape, AfterDelete, OneImport, NEW p \in Users, WriteManifest(p), ~troubled'
    PROVE  /\ place.sessions = {} /\ place.events = << >> /\ \A t \in TaskIds : place.tasks[t] = 0
           /\ \A q \in Users : ~Importing(order[q])
  <1>1. ~troubled /\ ~Stray(p) /\ ~place.manifest /\ order[p].stage = "manifest"
    BY ManifestWritten
  <1>2. NoneRemoving
    BY <1>1 DEF NoneRemoving, Stray, At
  <1> QED
    BY <1>1, <1>2 DEF AfterDelete, OneImport

LEMMA OneImportKept ==
    ASSUME Shape, EventsOnce, SavedOnce, AfterDelete, OneImport, NEW p \in Users, Stepping(p)
    PROVE  OneImport'
  <1> SUFFICES ASSUME ~troubled', NEW r \in Users, Importing(order'[r])
               PROVE  /\ \A q \in Users \ {r} : ~Importing(order'[q])
                      /\ place'.manifest \/ ~NoneRemoving'
                      /\ \A i \in DOMAIN order'[r].file.events : i > order'[r].at =>
                           order'[r].file.events[i] \notin Range(place'.events)
    BY DEF OneImport
  <1>1. CASE Resting(p)
    <2>1. Quiet(p)
      BY <1>1, RestingIsQuiet
    <2>2. r # p /\ ~troubled /\ OthersKept(p) /\ order[p].stage # "remove"
      BY <2>1 DEF Quiet, Moved
    <2>3. Importing(order[r]) /\ order'[r].file = order[r].file /\ order'[r].at = order[r].at
      BY <2>2, ImportsKept
    <2>4. \A q \in Users \ {r} : ~Importing(order'[q])
      BY <2>1, <2>2, <2>3, ImportsKept DEF OneImport, Quiet
    <2>5. place'.manifest \/ ~NoneRemoving'
      BY <2>1, <2>2, <2>3, RemovingKept DEF OneImport, Quiet
    <2> QED
      BY <2>1, <2>2, <2>3, <2>4, <2>5 DEF OneImport, Quiet
  <1>2. CASE WriteManifest(p)
    <2>1. /\ place.events = << >> /\ \A q \in Users : ~Importing(order[q])
      BY <1>2, BeginsEmpty
    <2>2. OthersKept(p) /\ place'.manifest = TRUE /\ place'.events = place.events
      BY <1>2, ManifestWritten DEF Wrote, Moved
    <2>3. \A q \in Users \ {p} : ~Importing(order'[q])
      BY <2>1, <2>2, ImportsKept
    <2> QED
      BY <2>1, <2>2, <2>3, NoEvents
  <1>3. CASE RemoveEntry(p)
    <2>1. /\ OthersKept(p) /\ order[p].stage = "remove" /\ order'[p] = order[p] /\ ~troubled
          /\ Range(place'.events) \subseteq Range(place.events)
      BY <1>3, EntryRemoved, NoEvents DEF Wrote, Moved
    <2>2. r # p /\ ~NoneRemoving' /\ ~Importing(order'[p])
      BY <2>1 DEF Importing, NoneRemoving
    <2>3. Importing(order[r]) /\ order'[r].file = order[r].file /\ order'[r].at = order[r].at
      BY <2>1, <2>2, ImportsKept
    <2>4. \A q \in Users \ {r} : ~Importing(order'[q])
      BY <2>1, <2>2, <2>3, ImportsKept DEF OneImport
    <2> QED
      BY <2>1, <2>2, <2>3, <2>4 DEF OneImport
  <1>4. CASE RemoveDirectory(p)
    <2>1. OthersKept(p) /\ ~Importing(order'[p])
      BY <1>4, DirectoryRemoved, NoOrderOK DEF Wrote, Moved, Importing, Fields
    <2>2. Importing(order[r]) /\ r # p
      BY <2>1, ImportsKept
    <2>3. order[r].op = "import"
      BY <2>2, ImportIs DEF Shape
    <2> QED
      BY <1>4, <2>2, <2>3, DirectoryRemoved
  <1>5. CASE Contributing(p)
    <2>1. Contributed(p)
      BY <1>5, ContributingAdds
    <2>2. ~troubled /\ ~Stray(p) /\ OthersKept(p) /\ place'.manifest
      BY <2>1, StrayOutside DEF Contributed, Wrote, Moved
    <2>3. \/ ~Importing(order'[p])
          \/ /\ Importing(order[p]) /\ order'[p].file = order[p].file
             /\ order'[p].at = order[p].at /\ place'.events = place.events
          \/ RestoreEvent(p)
      <3>1. ASSUME NEW t \in TaskIds, SaveTask(p, t)
            PROVE  ~Importing(order'[p])
        BY <3>1, TaskSaved DEF Importing
      <3>2. ASSUME NEW t \in TaskIds, RestoreTask(p, t)
            PROVE  /\ Importing(order[p]) /\ order'[p].file = order[p].file
                   /\ order'[p].at = order[p].at /\ place'.events = place.events
        BY <3>2, TaskRestored DEF Importing, Fields
      <3>3. CASE RestoreSessions(p)
        BY <3>3, SessionsRestored DEF Importing, Fields
      <3>4. CASE SaveSession(p)
        BY <3>4, SessionSaved, NoOrderOK DEF Importing
      <3>5. CASE AppendEvent(p)
        BY <3>5, EventAppended DEF Importing
      <3> QED
        BY <1>5, <3>1, <3>2, <3>3, <3>4, <3>5 DEF Contributing
    <2>4. RestoreEvent(p) => Importing(order[p])
      BY EventRestored DEF Importing
    <2>5. Importing(order[r])
      BY <2>2, <2>3, <2>4, ImportsKept
    <2>6. \A q \in Users \ {r} : ~Importing(order'[q])
      BY <2>2, <2>3, <2>4, <2>5, ImportsKept DEF OneImport
    <2>7. PICK f : f = order'[r].file.events
      OBVIOUS
    <2>8. ASSUME NEW i \in DOMAIN f, i > order'[r].at
          PROVE  f[i] \notin Range(place'.events)
      <3>1. CASE RestoreEvent(p)
        <4>1. r = p
          BY <2>2, <2>4, <2>5, <3>1 DEF OneImport
        <4>2. PICK a : a = order[p].at
          OBVIOUS
        <4>3. PICK e : e = order[p].file.events[a + 1]
          OBVIOUS
        <4>4. /\ order'[p].file = order[p].file /\ order'[p].at = a + 1 /\ e \in Events
              /\ place'.events = Append(place.events, e)
              /\ a + 1 \in 1..Len(order[p].file.events)
          BY <3>1, <4>2, <4>3, EventRestored DEF Fields
        <4>5. f = order[p].file.events
          BY <2>7, <4>1, <4>4
        <4>6. /\ order[p].op = "import" /\ ArchiveOK(order[p].file) /\ a \in 0..Len(f) /\ Len(f) \in Nat
          BY <2>4, <3>1, <4>2, <4>5, ImportIs DEF Shape
        <4>7. DOMAIN f = 1..Len(f) /\ place.events \in Seq(Events)
          BY <4>5, <4>6, LenProperties DEF ArchiveOK, Shape, DirectoryOK
        <4>8. IsInjective(f)
          BY <2>2, <4>5, <4>6 DEF Stray, ArchiveOK
        <4>9. i > a /\ i # a + 1 /\ a + 1 \in DOMAIN f
          <5>1. i \in Int /\ a \in Int /\ i > a + 1
            BY <2>8, <4>1, <4>4, <4>6, <4>7
          <5> QED
            BY <4>4, <4>5, <4>7, <5>1
        <4>10. f[i] # e
          BY <4>3, <4>5, <4>8, <4>9 DEF IsInjective
        <4>11. f[i] \notin Range(place.events)
          BY <2>2, <2>4, <3>1, <4>2, <4>5, <4>9 DEF OneImport
        <4>12. Range(Append(place.events, e)) = Range(place.events) \cup {e}
          BY <4>4, <4>7, OneMore
        <4> QED
          BY <4>4, <4>10, <4>11, <4>12
      <3>2. CASE ~RestoreEvent(p)
        <4>1. order'[r].file = order[r].file /\ order'[r].at = order[r].at
          BY <2>2, <2>3, <3>2, ImportsKept
        <4>2. f[i] \notin Range(place.events)
          BY <2>2, <2>5, <2>7, <2>8, <4>1 DEF OneImport
        <4>3. CASE AppendEvent(p)
          <5>1. PICK e : e = order[p].at
            OBVIOUS
          <5>2. order[p].stage = "event" /\ e \in Events /\ place'.events = Append(place.events, e)
            BY <4>3, <5>1, EventAppended
          <5>3. ~Recorded(e)
            BY <5>1, <5>2 DEF SavedOnce
          <5>4. order[r].op = "import"
            BY <2>5, ImportIs DEF Shape
          <5>5. f[i] \in Range(order[r].file.events)
            BY <2>7, <4>1 DEF Range
          <5>6. f[i] # e
            BY <5>3, <5>4, <5>5 DEF Recorded
          <5>7. place.events \in Seq(Events)
            BY DEF Shape, DirectoryOK
          <5>8. Range(Append(place.events, e)) = Range(place.events) \cup {e}
            BY <5>2, <5>7, OneMore
          <5> QED
            BY <4>2, <5>2, <5>6, <5>8
        <4>4. CASE ~AppendEvent(p)
          <5>1. ASSUME NEW t \in TaskIds, SaveTask(p, t)
                PROVE  place'.events = place.events
            BY <5>1, TaskSaved
          <5>2. ASSUME NEW t \in TaskIds, RestoreTask(p, t)
                PROVE  place'.events = place.events
            BY <5>2, TaskRestored
          <5>3. place'.events = place.events
            BY <1>5, <3>2, <4>4, <5>1, <5>2, SessionsRestored, SessionSaved DEF Contributing
          <5> QED
            BY <4>2, <5>3
        <4> QED
          BY <4>3, <4>4
      <3> QED
        BY <3>1, <3>2
    <2> QED
      BY <2>2, <2>6, <2>7, <2>8
  <1> QED
    BY <1>1, <1>2, <1>3, <1>4, <1>5 DEF Stepping

-----------------------------------------------------------------------------
(* What is exported is what is imported.                                   *)

\* A step that writes disturbs all others at work, and is no export's.
LEMMA WritersDisturb ==
    ASSUME Shape, NEW p \in Users,
           MakeDirectories(p) \/ WriteManifest(p) \/ RemoveEntry(p) \/ RemoveDirectory(p) \/ Contributing(p)
    PROVE  /\ Wrote(p) /\ order'[p].op # "export"
           /\ \A q \in Users \ {p} : order'[q] # NoOrder => ~order'[q].undisturbed
  <1>0. OrderOK(order[p])
    BY DEF Shape
  <1>1. Wrote(p) /\ order'[p].op # "export"
    <2>1. CASE MakeDirectories(p)
      <3>1. Wrote(p) /\ order[p].stage = "dirs" /\ order'[p].op = order[p].op
        BY <2>1, DirectoriesMade DEF Fields
      <3> QED
        BY <1>0, <3>1 DEF OrderOK
    <2>2. CASE WriteManifest(p)
      <3>1. Wrote(p) /\ order[p].stage = "manifest" /\ (order'[p].op = order[p].op \/ order'[p] = NoOrder)
        BY <2>2, ManifestWritten DEF Fields
      <3> QED
        BY <1>0, <3>1, NoOrderOK DEF OrderOK
    <2>3. CASE RemoveEntry(p)
      <3>1. Wrote(p) /\ order[p].stage = "remove" /\ order'[p] = order[p]
        BY <2>3, EntryRemoved
      <3> QED
        BY <1>0, <3>1 DEF OrderOK
    <2>4. CASE RemoveDirectory(p)
      <3>1. Wrote(p) /\ order[p].stage = "remove" /\ (order'[p].op = order[p].op \/ order'[p] = NoOrder)
        BY <2>4, DirectoryRemoved DEF Fields
      <3> QED
        BY <1>0, <3>1, NoOrderOK DEF OrderOK
    <2>5. CASE Contributing(p)
      BY <2>5, ContributingAdds DEF Contributed
    <2> QED
      BY <2>1, <2>2, <2>3, <2>4, <2>5
  <1> QED
    BY <1>1 DEF Wrote, OthersTold

LEMMA ExportsTrueKept ==
    ASSUME Shape, EventsOnce, ExportsTrue, NEW p \in Users, Stepping(p)
    PROVE  ExportsTrue'
  <1> SUFFICES ASSUME NEW q \in Users, order'[q].op = "export", order'[q].undisturbed
               PROVE  /\ order'[q].stage # "tasks out" => order'[q].file.tasks = place'.tasks
                      /\ order'[q].stage \in {"events out", "archive"} => order'[q].file.sessions = place'.sessions
                      /\ order'[q].stage = "archive" => order'[q].file.events = place'.events
    BY DEF ExportsTrue
  <1>1. CASE MakeDirectories(p) \/ WriteManifest(p) \/ RemoveEntry(p) \/ RemoveDirectory(p) \/ Contributing(p)
    BY <1>1, WritersDisturb, NoOrderOK
  <1>2. CASE Resting(p) /\ ~MakeDirectories(p)
    <2>1. Quiet(p)
      BY <1>2, RestingIsQuiet
    <2>2. CASE q # p
      <3>1. /\ order[q].op = "export" /\ order[q].undisturbed /\ order'[q].stage = order[q].stage
            /\ order'[q].file = order[q].file
        BY <2>1, <2>2 DEF Quiet, Moved, OthersKept, Kept
      <3> QED
        BY <2>1, <3>1 DEF Quiet, ExportsTrue
    <2>3. CASE q = p
      <3>1. CASE Starting(p)
        BY <2>3, <3>1, Starts DEF Starting, Started
      <3>2. CASE ReadOut(p)
        <4>1. order[p].op = "export" /\ order[p].undisturbed /\ place' = place
          BY <2>3, <3>2, PartRead
        <4>2. \/ /\ order'[p].stage = "sessions out" /\ order'[p].file.tasks = place.tasks
              \/ /\ order[p].stage = "sessions out" /\ order'[p].stage = "events out"
                 /\ order'[p].file.tasks = order[p].file.tasks /\ order'[p].file.sessions = place.sessions
              \/ /\ order[p].stage = "events out" /\ order'[p].stage = "archive"
                 /\ order'[p].file.tasks = order[p].file.tasks /\ order'[p].file.sessions = order[p].file.sessions
                 /\ order'[p].file.events = place.events
          BY <3>2, PartRead
        <4> QED
          BY <2>3, <4>1, <4>2 DEF ExportsTrue
      <3>3. CASE WriteArchive(p) \/ EndImport(p) \/ GiveUp(p)
        BY <2>3, <3>3, ArchiveWritten, ImportEnded, GivenUp, NoOrderOK
      <3> QED
        BY <1>2, <3>1, <3>2, <3>3 DEF Resting
    <2> QED
      BY <2>2, <2>3
  <1> QED
    BY <1>1, <1>2 DEF Stepping

LEMMA ImportsTrueKept ==
    ASSUME Shape, EventsOnce, AfterDelete, OneImport, ImportsTrue, NEW p \in Users, Stepping(p)
    PROVE  ImportsTrue'
  <1> SUFFICES ASSUME ~troubled', NEW q \in Users, Importing(order'[q]), order'[q].undisturbed
               PROVE  Written(place', order'[q])
    BY DEF ImportsTrue
  <1>1. CASE Resting(p)
    <2>1. Quiet(p)
      BY <1>1, RestingIsQuiet
    <2>2. q # p /\ ~troubled /\ OthersKept(p)
      BY <2>1 DEF Quiet, Moved
    <2>3. Importing(order[q]) /\ order[q].undisturbed /\ Written(place, order[q])
      BY <2>2, ImportsKept DEF ImportsTrue
    <2>4. /\ order'[q].file = order[q].file /\ order'[q].at = order[q].at
          /\ order'[q].left = order[q].left /\ order'[q].stage = order[q].stage
      BY <2>2, ImportsKept
    <2>5. place'.tasks = place.tasks /\ place'.sessions = place.sessions /\ place'.events = place.events
      BY <2>1 DEF Quiet
    <2> QED
      BY <2>3, <2>4, <2>5 DEF Written
  <1>2. ASSUME WriteManifest(p) \/ RemoveEntry(p) \/ RemoveDirectory(p) \/ Contributing(p)
        PROVE  q = p
    BY <1>2, WritersDisturb, NoOrderOK DEF Importing
  <1>3. CASE WriteManifest(p)
    <2>1. q = p /\ order[p].stage = "manifest" /\ OrderOK(order[p]) /\ order[p].op = "import"
      BY <1>2, <1>3, ManifestWritten, NoOrderOK DEF Importing, Shape
    <2>2. place.sessions = {} /\ place.events = << >> /\ \A t \in TaskIds : place.tasks[t] = 0
      BY <1>3, BeginsEmpty
    <2>3. /\ order'[p].stage = "tasks in" /\ order'[p].file = order[p].file /\ order'[p].left = order[p].left
          /\ order'[p].at = order[p].at
          /\ place'.tasks = place.tasks /\ place'.sessions = place.sessions /\ place'.events = place.events
      BY <1>3, <2>1, ManifestWritten DEF Fields
    <2>4. order[p].at = 0 /\ order[p].left = {t \in TaskIds : order[p].file.tasks[t] # 0}
      BY <2>1 DEF OrderOK, Importing
    <2>5. PICK n : n = order'[p]
      OBVIOUS
    <2>6. PICK d : d = place'
      OBVIOUS
    <2>7. /\ d.sessions = {} /\ Len(d.events) = 0 /\ \A t \in TaskIds : d.tasks[t] = 0
      BY <2>2, <2>3, <2>6, NoEvents
    <2>8. /\ n.stage = "tasks in" /\ n.at = 0 /\ n.left = {t \in TaskIds : n.file.tasks[t] # 0}
      BY <2>3, <2>4, <2>5
    <2>9. \A t \in TaskIds : d.tasks[t] = IF t \in n.left THEN 0 ELSE n.file.tasks[t]
      BY <2>7, <2>8
    <2>10. Written(d, n)
      <3>1. d.sessions = {} /\ Len(d.events) = n.at /\ n.stage = "tasks in" /\ 1..n.at = {}
        <4>1. 1..0 = {}
          OBVIOUS
        <4>2. n.stage = "tasks in" /\ n.at = 0
          BY <2>8
        <4>3. d.sessions = {} /\ Len(d.events) = 0
          BY <2>7
        <4> QED
          BY <4>1, <4>2, <4>3
      <3> QED
        BY <2>9, <3>1 DEF Written
    <2> QED
      BY <2>1, <2>5, <2>6, <2>10
  <1>4. CASE RemoveEntry(p)
    BY <1>2, <1>4, EntryRemoved DEF Importing
  <1>5. CASE RemoveDirectory(p)
    BY <1>2, <1>5, DirectoryRemoved, NoOrderOK DEF Importing, Fields
  <1>6. CASE Contributing(p)
    <2>1. ~troubled /\ q = p
      BY <1>2, <1>6, ContributingAdds, StrayOutside
    <2>2. ASSUME Importing(order[p]), order'[p].undisturbed = order[p].undisturbed
          PROVE  Written(place, order[p])
      BY <2>1, <2>2 DEF ImportsTrue
    <2>3. ASSUME NEW t \in TaskIds, RestoreTask(p, t)
          PROVE  Written(place', order'[p])
      <3>1. PICK v : v = order[p].file.tasks[t]
        OBVIOUS
      <3>2. /\ order[p].stage = "tasks in" /\ order'[p].stage = "tasks in"
            /\ order'[p].file = order[p].file /\ order'[p].left = order[p].left \ {t}
            /\ order'[p].at = order[p].at /\ order'[p].undisturbed = order[p].undisturbed
            /\ place'.tasks = [place.tasks EXCEPT ![t] = v]
            /\ place'.sessions = place.sessions /\ place'.events = place.events
        BY <2>3, <3>1, TaskRestored DEF Fields
      <3>3. Written(place, order[p])
        BY <2>2, <3>2 DEF Importing
      <3>4. \A u \in TaskIds : place'.tasks[u] = IF u = t THEN v ELSE place.tasks[u]
        BY <3>2 DEF Shape, DirectoryOK, Saved
      <3>5. PICK n : n = order'[p]
        OBVIOUS
      <3>6. \A u \in TaskIds : place'.tasks[u] = IF u \in n.left THEN 0 ELSE n.file.tasks[u]
        <4>1. n.left = order[p].left \ {t} /\ n.file = order[p].file
          BY <3>2, <3>5
        <4>2. \A u \in TaskIds : place.tasks[u] = IF u \in order[p].left THEN 0 ELSE order[p].file.tasks[u]
          BY <3>3 DEF Written
        <4>3. ASSUME NEW u \in TaskIds
              PROVE  place'.tasks[u] = IF u \in n.left THEN 0 ELSE n.file.tasks[u]
          <5>1. CASE u = t
            BY <3>1, <3>4, <4>1, <5>1
          <5>2. CASE u # t
            <6>1. place'.tasks[u] = place.tasks[u] /\ (u \in n.left <=> u \in order[p].left)
              BY <3>4, <4>1, <5>2
            <6> QED
              BY <4>1, <4>2, <6>1
          <5> QED
            BY <5>1, <5>2
        <4> QED
          BY <4>3
      <3>7. Written(place', n)
        <4>1. /\ n.stage = "tasks in" /\ order[p].stage = "tasks in" /\ n.file = order[p].file /\ n.at = order[p].at
              /\ place'.sessions = place.sessions /\ place'.events = place.events
          BY <3>2, <3>5
        <4> QED
          BY <3>3, <3>6, <4>1 DEF Written
      <3> QED
        BY <3>5, <3>7
    <2>4. CASE RestoreSessions(p)
      <3>1. /\ order[p].stage = "tasks in" /\ order'[p].stage = "events in" /\ order[p].left = {}
            /\ order'[p].file = order[p].file /\ order'[p].left = order[p].left
            /\ order'[p].at = order[p].at /\ order'[p].undisturbed = order[p].undisturbed
            /\ place'.tasks = place.tasks
            /\ place'.sessions = place.sessions \cup order[p].file.sessions /\ place'.events = place.events
        BY <2>4, SessionsRestored DEF Fields
      <3>2. Written(place, order[p])
        BY <2>2, <3>1 DEF Importing
      <3>3. place'.sessions = order'[p].file.sessions
        BY <3>1, <3>2 DEF Written
      <3>4. Written(place', order'[p])
        BY <3>1, <3>2, <3>3 DEF Written
      <3> QED
        BY <2>1, <3>4
    <2>5. CASE RestoreEvent(p)
      <3>1. PICK f : f = order[p].file.events
        OBVIOUS
      <3>2. PICK a : a = order[p].at
        OBVIOUS
      <3>3. PICK e : e = f[a + 1]
        OBVIOUS
      <3>4. /\ order[p].stage = "events in" /\ order'[p].stage = "events in"
            /\ order'[p].file = order[p].file /\ order'[p].left = order[p].left
            /\ order'[p].at = a + 1 /\ order'[p].undisturbed = order[p].undisturbed
            /\ place'.tasks = place.tasks /\ place'.sessions = place.sessions
            /\ place'.events = Append(place.events, e) /\ e \in Events
        BY <2>5, <3>1, <3>2, <3>3, EventRestored DEF Fields
      <3>5. Written(place, order[p]) /\ Importing(order[p])
        BY <2>2, <3>4 DEF Importing
      <3>6. a \in 0..Len(f) /\ Len(f) \in Nat
        BY <3>1, <3>2, <3>5, ImportIs DEF Shape
      <3>7. place.events \in Seq(Events)
        BY DEF Shape, DirectoryOK
      <3>8. Len(place.events) = a /\ \A i \in 1..a : place.events[i] = f[i]
        BY <3>1, <3>2, <3>5 DEF Written
      <3>9. PICK s : s = Append(place.events, e)
        OBVIOUS
      <3>10. Len(s) = a + 1 /\ s[a + 1] = e /\ \A i \in 1..a : s[i] = place.events[i]
        BY <3>4, <3>7, <3>8, <3>9, OneMore
      <3>11. \A i \in 1..(a + 1) : s[i] = f[i]
        <4>1. \A i \in 1..(a + 1) : i \in 1..a \/ i = a + 1
          BY <3>6
        <4> QED
          BY <3>3, <3>8, <3>10, <4>1
      <3>12. place'.tasks = place.tasks /\ place'.sessions = place.sessions /\ place'.events = s
        BY <3>4, <3>9
      <3>13. PICK n : n = order'[p]
        OBVIOUS
      <3>14. /\ n.stage = "events in" /\ order[p].stage = "events in" /\ n.file = order[p].file
             /\ n.left = order[p].left /\ n.at = a + 1
        BY <3>4, <3>13
      <3>15. Written(place', n)
        BY <3>1, <3>5, <3>10, <3>11, <3>12, <3>14 DEF Written
      <3> QED
        BY <2>1, <3>13, <3>15
    <2>6. ASSUME NEW t \in TaskIds, SaveTask(p, t)
          PROVE  FALSE
      BY <2>1, <2>6, TaskSaved DEF Importing
    <2>7. CASE AppendEvent(p)
      BY <2>1, <2>7, EventAppended DEF Importing
    <2>8. CASE SaveSession(p)
      BY <2>1, <2>8, SessionSaved, NoOrderOK DEF Importing
    <2> QED
      BY <1>6, <2>1, <2>3, <2>4, <2>5, <2>6, <2>7, <2>8 DEF Contributing
  <1> QED
    BY <1>1, <1>3, <1>4, <1>5, <1>6 DEF Stepping

LEMMA RestoredTrueKept ==
    ASSUME Shape, EventsOnce, ExportsTrue, ImportsTrue, RestoredTrue, NEW p \in Users, Stepping(p)
    PROVE  RestoredTrue'
  <1>1. CASE MakeDirectories(p) \/ WriteManifest(p) \/ RemoveEntry(p) \/ RemoveDirectory(p) \/ Contributing(p)
    <2>1. Wrote(p)
      BY <1>1, WritersDisturb
    <2>2. restored'.done = FALSE
      BY <2>1 DEF Wrote
    <2> QED
      BY <2>2 DEF RestoredTrue
  <1>2. CASE Starting(p)
    <2>1. restored' = [done |-> FALSE]
      BY <1>2, Starts DEF Starting, Started
    <2>2. restored'.done = FALSE
      BY <2>1
    <2> QED
      BY <2>2 DEF RestoredTrue
  <1>3. CASE ReadOut(p)
    BY <1>3, PartRead DEF RestoredTrue, Contents
  <1>4. CASE GiveUp(p)
    BY <1>4, GivenUp DEF RestoredTrue, Contents
  <1>5. CASE WriteArchive(p)
    <2>1. /\ order[p].stage = "archive" /\ order[p].op = "export" /\ place' = place
          /\ restored' = [done |-> order[p].undisturbed, of |-> Contents(order[p].file), empty |-> TRUE]
      BY <1>5, ArchiveWritten
    <2>2. order[p].undisturbed => Contents(place) = Contents(order[p].file)
      BY <2>1 DEF ExportsTrue, Contents
    <2> QED
      BY <2>1, <2>2 DEF RestoredTrue, Contents
  <1>6. CASE EndImport(p)
    <2>1. PICK f : f = order[p].file
      OBVIOUS
    <2>2. /\ order[p].stage = "events in" /\ place' = place /\ order[p].at = Len(f.events)
          /\ restored' = [done |-> order[p].undisturbed, of |-> Contents(f), empty |-> ~troubled]
      BY <1>6, <2>1, ImportEnded
    <2>3. ASSUME order[p].undisturbed, ~troubled
          PROVE  Contents(place) = Contents(f)
      <3>1. Written(place, order[p]) /\ Importing(order[p])
        BY <2>2, <2>3 DEF Importing, ImportsTrue
      <3>2. f.tasks \in Saved /\ f.events \in Seq(Events) /\ place.tasks \in Saved /\ place.events \in Seq(Events)
        BY <2>1, <3>1, ImportIs DEF Shape, DirectoryOK, ArchiveOK
      <3>3. place.tasks = f.tasks
        <4>1. \A t \in TaskIds : place.tasks[t] = f.tasks[t]
          BY <2>1, <2>2, <3>1 DEF Written
        <4> QED
          BY <3>2, <4>1 DEF Saved
      <3>4. place.events = f.events
        <4>1. Len(place.events) = Len(f.events) /\ \A i \in 1..Len(f.events) : place.events[i] = f.events[i]
          BY <2>1, <2>2, <3>1 DEF Written
        <4> QED
          BY <3>2, <4>1, SeqEqual
      <3>5. place.sessions = f.sessions
        BY <2>1, <2>2, <3>1 DEF Written
      <3> QED
        BY <3>3, <3>4, <3>5 DEF Contents
    <2> QED
      BY <2>2, <2>3 DEF RestoredTrue, Contents
  <1> QED
    BY <1>1, <1>2, <1>3, <1>4, <1>5, <1>6 DEF Stepping, Resting

-----------------------------------------------------------------------------
(* The theorem.                                                            *)

LEMMA InvInit == WorkspaceInit => WorkspaceInv
  <1> SUFFICES ASSUME WorkspaceInit
               PROVE  WorkspaceInv
    OBVIOUS
  <1>1. /\ DirectoryOK(place) /\ place.sessions = {} /\ place.events = << >>
        /\ \A t \in TaskIds : place.tasks[t] = 0
    <2>1. place = Nowhere \/ place = NewPlace
      BY DEF WorkspaceInit
    <2>2. Nowhere.sessions = {} /\ Nowhere.events = << >> /\ \A t \in TaskIds : Nowhere.tasks[t] = 0
      BY DEF Nowhere
    <2>3. NewPlace.sessions = {} /\ NewPlace.events = << >> /\ \A t \in TaskIds : NewPlace.tasks[t] = 0
      BY DEF Nowhere, NewPlace
    <2> QED
      BY <2>1, <2>2, <2>3, NowhereOK
  <1>2. archive = NoArchive /\ order = [p \in Users |-> NoOrder] /\ origin = {} /\ ~troubled /\ troubled \in BOOLEAN
        /\ restored = [done |-> FALSE] /\ spent = [orders |-> 0, saves |-> 0, deaths |-> 0]
    BY DEF WorkspaceInit
  <1>3. \A p \in Users : order[p] = NoOrder
    BY <1>2
  <1>4. Shape
    BY <1>1, <1>2, <1>3, NoOrderOK DEF Shape
  <1>5. \A p \in Users : order[p].op = "none" /\ order[p].stage = "idle" /\ ~Importing(order[p])
    BY <1>3, NoOrderOK DEF Importing
  <1>6. \A e : ~Recorded(e)
    BY <1>1, <1>2, <1>5, NoEvents DEF Recorded
  <1>7. EventsOnce /\ SavedOnce /\ OneImport /\ ExportsTrue /\ ImportsTrue /\ RestoredTrue
    BY <1>1, <1>2, <1>5, <1>6, NoEvents DEF EventsOnce, SavedOnce, OneImport, ExportsTrue, ImportsTrue, RestoredTrue
  <1>8. AfterDelete /\ OwnContents
    BY <1>1, NoEvents DEF AfterDelete, OwnContents, TasksIn
  <1> QED
    BY <1>4, <1>7, <1>8 DEF WorkspaceInv

LEMMA InvStep == WorkspaceInv /\ [WorkspaceNext]_workspaceVars => WorkspaceInv'
  <1> SUFFICES ASSUME WorkspaceInv, [WorkspaceNext]_workspaceVars
               PROVE  WorkspaceInv'
    OBVIOUS
  <1> USE DEF WorkspaceInv
  <1>1. CASE WorkspaceNext
    <2>1. PICK p \in Users : Stepping(p)
      BY <1>1, StepKinds DEF Stepping
    <2>2. Quiet(p) \/ WriteManifest(p) \/ RemoveEntry(p) \/ RemoveDirectory(p) \/ Contributed(p)
      BY <2>1, RestingIsQuiet, ContributingAdds DEF Stepping
    <2>3. Shape'
      BY <2>2, ManifestWritten, EntryRemoved, DirectoryRemoved DEF Quiet, Contributed, Wrote, Moved
    <2>4. EventsOnce' /\ SavedOnce' /\ OneImport'
      BY <2>1, EventsOnceKept, SavedOnceKept, OneImportKept
    <2>5. AfterDelete' /\ OwnContents'
      BY <2>2, AfterDeleteKept, OwnContentsKept
    <2>6. ExportsTrue' /\ ImportsTrue' /\ RestoredTrue'
      BY <2>1, ExportsTrueKept, ImportsTrueKept, RestoredTrueKept
    <2> QED
      BY <2>3, <2>4, <2>5, <2>6
  <1>2. CASE UNCHANGED workspaceVars
    <2>1. /\ place' = place /\ archive' = archive /\ order' = order /\ origin' = origin
          /\ troubled' = troubled /\ restored' = restored /\ spent' = spent
      BY <1>2 DEF workspaceVars
    <2>2. Shape'
      BY <2>1 DEF Shape
    <2>3. EventsOnce'
      BY <2>1 DEF EventsOnce
    <2>4. SavedOnce'
      BY <2>1 DEF SavedOnce, Recorded
    <2>5. AfterDelete' /\ OneImport'
      BY <2>1 DEF AfterDelete, OneImport, NoneRemoving
    <2>6. OwnContents'
      BY <2>1 DEF OwnContents, TasksIn
    <2>7. ExportsTrue' /\ ImportsTrue' /\ RestoredTrue'
      BY <2>1 DEF ExportsTrue, ImportsTrue, RestoredTrue, Contents
    <2> QED
      BY <2>2, <2>3, <2>4, <2>5, <2>6, <2>7
  <1> QED
    BY <1>1, <1>2

LEMMA InvImplies == WorkspaceInv => WorkspaceIsItsOwn
  <1> SUFFICES ASSUME WorkspaceInv
               PROVE  WorkspaceIsItsOwn
    OBVIOUS
  <1>1. ASSUME place.manifest, ~troubled, NEW i \in DOMAIN place.events
        PROVE  <<"event", place.events[i]>> \in origin
    <2>1. place.events[i] \in Range(place.events)
      BY DEF Range
    <2> QED
      BY <1>1, <2>1 DEF WorkspaceInv, OwnContents
  <1>2. (place.manifest /\ ~troubled) => TasksIn(place) \subseteq origin /\ IsInjective(place.events)
    BY DEF WorkspaceInv, OwnContents, EventsOnce
  <1>3. (restored.done /\ restored.empty) => Contents(place) = restored.of
    BY DEF WorkspaceInv, RestoredTrue
  <1> QED
    BY <1>1, <1>2, <1>3 DEF WorkspaceIsItsOwn

\* What is in a workspace was written into it since it was made, every event
\* once, and an undisturbed export or import copies it as it is, whoever is
\* at it and dies (WorkspaceManager, WorkspaceStore).
THEOREM WorkspacesOwn == WorkspaceSpec => []WorkspaceIsItsOwn
  BY InvInit, InvStep, InvImplies, PTL DEF WorkspaceSpec
=============================================================================
