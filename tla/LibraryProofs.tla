---------------------------- MODULE LibraryProofs ----------------------------
(***************************************************************************)
(* Proofs about installed packs, for any processes, packs, requests and    *)
(* bounds: the registry against the directories, and the resolver's order; *)
(* about a pack that is sealed, signed and bundled, for any processes,     *)
(* keys and bounds: what verdicts on it are worth; and about the pack      *)
(* directories, for any processes, packs, first files and bounds: what a   *)
(* merge overwrites can be recovered.                                      *)
(***************************************************************************)
EXTENDS PackRegistry, PackSealing, PackWorkflow, SequenceTheorems, TLAPS

-----------------------------------------------------------------------------
(* The shape of the state.                                                 *)

Ids == {s.id : s \in Sources}
Versions == {s.version : s \in Sources} \cup {Latest}
Needs == UNION {ToSet(s.needs) : s \in Sources}
SpecKeys == Slots \cup UNION {ToSet(l) : l \in Specs}
Frames == [key : SpecKeys, pack : Sources, needs : Seq(Needs)]

RestTasks == {AtRest}
InstallTasks == [op : {"install"}, step : {"place", "copy", "copying", "add"}, pack : Sources, force : BOOLEAN]
RemoveTasks == [op : {"uninstall"}, step : {"remove"}, id : Ids, version : Versions, targets : SUBSET Slots]
SaveTasks == [op : {"install", "uninstall"}, step : {"save"}, records : SUBSET Sources]
ResolveTasks == [op : {"resolve"}, step : {"visit", "descend", "resolved"}, specs : Seq(SpecKeys) \ {<< >>},
                 next : SpecKeys, stack : Seq(Frames), seen : SUBSET SpecKeys, ordered : Seq(Sources)]

RegistryTypeOK ==
    /\ disk \in [Slots -> {"absent", "partial", "whole"}]
    /\ registry \in SUBSET Sources
    /\ removed \in SUBSET Slots
    /\ task \in [Installers -> RestTasks \cup InstallTasks \cup RemoveTasks \cup SaveTasks \cup ResolveTasks]

LEMMA SourceShape ==
    ASSUME NEW s \in Sources
    PROVE  Slot(s) \in Slots /\ s.id \in Ids /\ s.version \in Versions /\ s.version # Latest
           /\ s.needs \in Seq(Needs) /\ Slot(s)[1] = s.id /\ Slot(s)[2] = s.version
  <1>1. ToSet(s.needs) \subseteq Needs
    BY DEF Needs
  <1>2. s.needs \in Seq(Needs)
    BY <1>1, SourcesAssumption
  <1> QED
    BY <1>2, SourcesAssumption DEF Slots, Slot, Ids, Versions, Latest

LEMMA RegistryTypeInit == RegistryInit => RegistryTypeOK
  BY DEF RegistryInit, RegistryTypeOK, RestTasks

LEMMA InstallShape ==
    ASSUME RegistryTypeOK, NEW p \in Installers, task[p].op = "install", task[p].step # "save"
    PROVE  task[p] \in InstallTasks
  BY DEF RegistryTypeOK, RestTasks, InstallTasks, RemoveTasks, SaveTasks, ResolveTasks, AtRest

LEMMA RemoveShape ==
    ASSUME RegistryTypeOK, NEW p \in Installers, task[p].op = "uninstall", task[p].step # "save"
    PROVE  task[p] \in RemoveTasks
  BY DEF RegistryTypeOK, RestTasks, InstallTasks, RemoveTasks, SaveTasks, ResolveTasks, AtRest

LEMMA SaveShape ==
    ASSUME RegistryTypeOK, NEW p \in Installers, task[p].step = "save"
    PROVE  task[p] \in SaveTasks
  BY DEF RegistryTypeOK, RestTasks, InstallTasks, RemoveTasks, SaveTasks, ResolveTasks, AtRest

LEMMA ResolveShape ==
    ASSUME RegistryTypeOK, NEW p \in Installers, task[p].op = "resolve"
    PROVE  task[p] \in ResolveTasks
  BY DEF RegistryTypeOK, RestTasks, InstallTasks, RemoveTasks, SaveTasks, ResolveTasks, AtRest

\* A step of one process changes its own task only.
LEMMA TaskStep ==
    ASSUME RegistryTypeOK, NEW p \in Installers,
           NEW t \in RestTasks \cup InstallTasks \cup RemoveTasks \cup SaveTasks \cup ResolveTasks,
           task' = [task EXCEPT ![p] = t]
    PROVE  /\ task' \in [Installers -> RestTasks \cup InstallTasks \cup RemoveTasks \cup SaveTasks \cup ResolveTasks]
           /\ task'[p] = t
           /\ \A q \in Installers \ {p} : task'[q] = task[q]
  BY DEF RegistryTypeOK

-----------------------------------------------------------------------------
(* Records point to whole directories.                                     *)

\* A slot is in order if its directory is whole, or some command removed it.
Sound(s) == s \in removed \/ disk[s] = "whole"

\* What is in the registry is in order, and so is what a command is about to
\* put there: the records it has loaded, and the pack it has copied.
RecordsInv ==
    /\ \A r \in registry : Sound(Slot(r))
    /\ \A p \in Installers :
         /\ task[p].step = "save" => \A r \in task[p].records : Sound(Slot(r))
         /\ InStage(p, "install", "add") => Sound(Slot(task[p].pack))

\* The shape of the state and the invariant, to be kept together.
RegistryInv == RegistryTypeOK /\ RecordsInv

LEMMA RegistryInvInit == RegistryInit => RegistryInv
  <1> SUFFICES ASSUME RegistryInit PROVE RecordsInv
    BY RegistryTypeInit DEF RegistryInv
  <1>1. \A r \in registry : Sound(Slot(r))
    BY SourceShape DEF RegistryInit, Sound
  <1> QED
    BY <1>1 DEF RegistryInit, RecordsInv, AtRest, InStage

\* What stays in order while directories change.
LEMMA SoundStays ==
    ASSUME RegistryTypeOK, removed \subseteq removed',
           \A s \in Slots : disk'[s] = disk[s] \/ disk'[s] = "whole" \/ s \in removed' \/ disk[s] = "absent",
           NEW s \in Slots, Sound(s)
    PROVE  Sound(s)'
  BY DEF Sound, RegistryTypeOK

\* A step that changes one task, and directories as above, keeps what the
\* others are about to record in order.
LEMMA RecordsStay ==
    ASSUME RegistryInv, RegistryTypeOK',
           removed \subseteq removed',
           \A s \in Slots : disk'[s] = disk[s] \/ disk'[s] = "whole" \/ s \in removed' \/ disk[s] = "absent",
           NEW p \in Installers, \A q \in Installers \ {p} : task'[q] = task[q],
           \A r \in registry' : r \in registry \/ Sound(Slot(r)),
           task'[p].step = "save" => \A r \in task'[p].records : Sound(Slot(r))',
           InStage(p, "install", "add")' => Sound(Slot(task[p].pack))' /\ task'[p].pack = task[p].pack
    PROVE  RecordsInv'
  <1>1. \A s \in Slots : Sound(s) => Sound(s)'
    BY SoundStays DEF RegistryInv
  <1>2. \A r \in Sources : Slot(r) \in Slots
    BY SourceShape
  <1>3. \A r \in registry' : Sound(Slot(r))'
    BY <1>1, <1>2 DEF RegistryInv, RecordsInv, RegistryTypeOK
  <1>4. ASSUME NEW q \in Installers
        PROVE  /\ task'[q].step = "save" => \A r \in task'[q].records : Sound(Slot(r))'
               /\ InStage(q, "install", "add")' => Sound(Slot(task[q].pack))' /\ task'[q].pack = task[q].pack
    <2>1. CASE q = p
      BY <2>1
    <2>2. CASE q # p
      <3>1. task'[q] = task[q]
        BY <2>2
      <3>2. task[q].step = "save" => task[q].records \subseteq Sources
        BY SaveShape DEF RegistryInv, SaveTasks
      <3>3. InStage(q, "install", "add") => task[q].pack \in Sources
        BY InstallShape DEF RegistryInv, InstallTasks, InStage
      <3> QED
        BY <1>1, <1>2, <3>1, <3>2, <3>3 DEF RegistryInv, RecordsInv, InStage
    <2> QED
      BY <2>1, <2>2
  <1> QED
    BY <1>3, <1>4 DEF RecordsInv, Slot

-----------------------------------------------------------------------------
(* The resolver's order.                                                   *)

\* A pack is what a key asks for.
Answers(r, k) == r.id = k[1] /\ (k[2] = Latest \/ r.version = k[2])

\* A key that can only be answered by a pack that meets a requirement.
Asks(k, n) == k[1] = n.id /\ k[2] \in n.versions /\ k[2] # Latest

\* Among the first m packs, one meets a requirement.
Met(n, ordered, m) == \E j \in 1..m : ordered[j].id = n.id /\ ordered[j].version \in n.versions

\* How many of its requirements a pack on the stack has been through.
Through(f) == Len(f.pack.needs) - Len(f.needs)

\* The requirement that is being resolved: by the pack above, or by the one
\* to be visited next.
Awaited(t, i, n) ==
    IF i = Len(t.stack) THEN t.step = "visit" /\ Asks(t.next, n) ELSE Asks(t.stack[i + 1].key, n)

\* What is listed comes after its requirements; what was seen is listed; a
\* pack on the stack has had all requirements met that it has been through,
\* but for the last of them, which is awaited.
OrderedWell(t) ==
    \A i \in 1..Len(t.ordered) : \A n \in 1..Len(t.ordered[i].needs) : Met(t.ordered[i].needs[n], t.ordered, i - 1)

SeenListed(t) == \A k \in t.seen : \E j \in 1..Len(t.ordered) : Answers(t.ordered[j], k)

FrameWell(t, i) ==
    LET f == t.stack[i]
    IN  /\ Answers(f.pack, f.key)
        /\ Len(f.needs) <= Len(f.pack.needs)
        /\ \A n \in 1..Len(f.needs) : f.needs[n] = f.pack.needs[Through(f) + n]
        /\ \A n \in 1..Through(f) :
              \/ Met(f.pack.needs[n], t.ordered, Len(t.ordered))
              \/ n = Through(f) /\ Awaited(t, i, f.pack.needs[n])

InOrder(t) == OrderedWell(t) /\ SeenListed(t) /\ \A i \in 1..Len(t.stack) : FrameWell(t, i)

\* What one has been through is met once it is not awaited any more.
LEMMA VisitSeen ==
    ASSUME NEW t \in ResolveTasks, InOrder(t), t.step = "visit", t.next \in t.seen,
           NEW u, u = [t EXCEPT !.step = "descend"]
    PROVE  u \in ResolveTasks /\ InOrder(u)
  <1>1. /\ u \in ResolveTasks /\ u.step = "descend" /\ u.stack = t.stack /\ u.ordered = t.ordered
        /\ u.seen = t.seen /\ u.next = t.next
    BY DEF ResolveTasks
  <1>2. OrderedWell(u) /\ SeenListed(u)
    BY <1>1 DEF InOrder, OrderedWell, SeenListed
  <1>3. ASSUME NEW i \in 1..Len(u.stack) PROVE FrameWell(u, i)
    <2> DEFINE f == t.stack[i]
    <2>1. FrameWell(t, i) /\ f = u.stack[i]
      BY <1>1, <1>3 DEF InOrder
    <2>2. ASSUME NEW n \in 1..Through(f)
          PROVE  \/ Met(f.pack.needs[n], u.ordered, Len(u.ordered))
                 \/ n = Through(f) /\ Awaited(u, i, f.pack.needs[n])
      <3>1. CASE Met(f.pack.needs[n], t.ordered, Len(t.ordered))
        BY <1>1, <3>1
      <3>2. CASE n = Through(f) /\ Awaited(t, i, f.pack.needs[n])
        <4>1. CASE i = Len(t.stack)
          <5>1. PICK j \in 1..Len(t.ordered) : Answers(t.ordered[j], t.next)
            BY DEF InOrder, SeenListed
          <5>2. Asks(t.next, f.pack.needs[n])
            BY <3>2, <4>1 DEF Awaited
          <5>3. Met(f.pack.needs[n], t.ordered, Len(t.ordered))
            BY <5>1, <5>2 DEF Met, Asks, Answers
          <5> QED
            BY <1>1, <5>3
        <4>2. CASE i # Len(t.stack)
          BY <1>1, <3>2, <4>2 DEF Awaited
        <4> QED
          BY <4>1, <4>2
      <3> QED
        BY <2>1, <2>2, <3>1, <3>2 DEF FrameWell
    <2> HIDE DEF f
    <2> QED
      BY <2>1, <2>2 DEF FrameWell
  <1> QED
    BY <1>1, <1>2, <1>3 DEF InOrder

LEMMA VisitNew ==
    ASSUME NEW t \in ResolveTasks, InOrder(t), t.step = "visit",
           NEW r \in Sources, Answers(r, t.next),
           NEW u, u = [t EXCEPT !.step = "descend", !.stack = Append(@, [key |-> t.next, pack |-> r, needs |-> r.needs])]
    PROVE  u \in ResolveTasks /\ InOrder(u)
  <1> DEFINE g == [key |-> t.next, pack |-> r, needs |-> r.needs]
  <1>1. g \in Frames /\ g.key = t.next /\ g.pack = r /\ g.needs = r.needs
    BY SourceShape DEF Frames, ResolveTasks
  <1> HIDE DEF g
  <1>2. t.stack \in Seq(Frames) /\ Append(t.stack, g) \in Seq(Frames)
    BY <1>1 DEF ResolveTasks
  <1>3. /\ u \in ResolveTasks /\ u.step = "descend" /\ u.stack = Append(t.stack, g) /\ u.ordered = t.ordered
        /\ u.seen = t.seen
    BY <1>2 DEF ResolveTasks, g
  <1>4. /\ Len(u.stack) = Len(t.stack) + 1 /\ u.stack[Len(u.stack)] = g
        /\ \A i \in 1..Len(t.stack) : u.stack[i] = t.stack[i]
        /\ Len(t.stack) \in Nat
    BY <1>1, <1>2, <1>3
  <1>5. OrderedWell(u) /\ SeenListed(u)
    BY <1>3 DEF InOrder, OrderedWell, SeenListed
  <1>6. ASSUME NEW i \in 1..Len(u.stack) PROVE FrameWell(u, i)
    <2>1. CASE i = Len(u.stack)
      <3>1. u.stack[i] = g /\ Len(r.needs) \in Nat
        BY <1>4, <2>1, SourceShape
      <3>2. Through(g) = 0
        BY <1>1, <3>1 DEF Through
      <3> QED
        BY <1>1, <3>1, <3>2 DEF FrameWell
    <2>2. CASE i # Len(u.stack)
      <3> DEFINE f == t.stack[i]
      <3>1. i \in 1..Len(t.stack) /\ u.stack[i] = f /\ FrameWell(t, i)
        BY <1>4, <1>6, <2>2 DEF InOrder
      <3>2. \A n : Awaited(t, i, n) => Awaited(u, i, n)
        BY <1>1, <1>4, <3>1, <2>2 DEF Awaited
      <3> QED
        BY <1>3, <3>1, <3>2 DEF FrameWell
    <2> QED
      BY <2>1, <2>2
  <1> QED
    BY <1>3, <1>5, <1>6 DEF InOrder

\* The stack without its top.
LEMMA FrontStack ==
    ASSUME NEW q \in Seq(Frames), q # << >>
    PROVE  /\ Len(q) \in Nat \ {0} /\ Front(q) \in Seq(Frames) /\ Len(Front(q)) = Len(q) - 1
           /\ \A i \in 1..(Len(q) - 1) : Front(q)[i] = q[i]
           /\ Last(q) = q[Len(q)] /\ Last(q) \in Frames
  <1>1. Len(q) \in Nat \ {0} /\ \A i \in 1..Len(q) : q[i] \in Frames
    BY EmptySeq
  <1>2. Front(q) = SubSeq(q, 1, Len(q) - 1) /\ Last(q) = q[Len(q)]
    BY DEF Front, Last
  <1>3. SubSeq(q, 1, Len(q) - 1) \in Seq(Frames)
    BY <1>1, SubSeqProperties
  <1>4. Len(SubSeq(q, 1, Len(q) - 1)) = Len(q) - 1 /\ \A i \in 1..(Len(q) - 1) : SubSeq(q, 1, Len(q) - 1)[i] = q[i]
    <2> DEFINE m == Len(q) - 1
    <2>1. m \in Nat /\ 1 \in Int /\ (\A i \in 1..m : q[i] \in Frames) /\ m - 1 + 1 = m
      BY <1>1
    <2> HIDE DEF m
    <2>2. /\ Len(SubSeq(q, 1, m)) = IF 1 <= m THEN m - 1 + 1 ELSE 0
          /\ \A i \in 1..(m - 1 + 1) : SubSeq(q, 1, m)[i] = q[1 + i - 1]
      BY <2>1, SubSeqProperties
    <2>3. Len(SubSeq(q, 1, m)) = m
      BY <2>1, <2>2
    <2>4. \A i \in 1..m : SubSeq(q, 1, m)[i] = q[i]
      <3> TAKE i \in 1..m
      <3>1. 1 + i - 1 = i
        OBVIOUS
      <3> QED
        BY <2>1, <2>2, <3>1
    <2> QED
      BY <2>3, <2>4 DEF m
  <1> QED
    BY <1>1, <1>2, <1>3, <1>4

LEMMA DescendOne ==
    ASSUME NEW t \in ResolveTasks, InOrder(t), t.step = "descend", t.stack # << >>, Last(t.stack).needs # << >>,
           NEW r \in Sources, r.id = Head(Last(t.stack).needs).id, r.version \in Head(Last(t.stack).needs).versions,
           NEW u, u = [t EXCEPT !.step = "visit", !.next = Slot(r),
                                !.stack = Append(Front(@), [Last(t.stack) EXCEPT !.needs = Tail(@)])]
    PROVE  u \in ResolveTasks /\ InOrder(u)
  <1> DEFINE top == Last(t.stack)
             g == [top EXCEPT !.needs = Tail(@)]
             d == Through(top)
  <1>1. t.stack \in Seq(Frames)
    BY DEF ResolveTasks
  <1>2. top \in Frames /\ top = t.stack[Len(t.stack)] /\ Front(t.stack) \in Seq(Frames)
        /\ Len(Front(t.stack)) = Len(t.stack) - 1 /\ Len(t.stack) \in Nat \ {0}
        /\ \A i \in 1..(Len(t.stack) - 1) : Front(t.stack)[i] = t.stack[i]
    BY <1>1, FrontStack
  <1>3. /\ top.needs \in Seq(Needs) /\ top.needs # << >> /\ top.pack \in Sources /\ top.pack.needs \in Seq(Needs)
        /\ top.key \in SpecKeys
    BY <1>2, SourceShape DEF Frames
  <1>4. /\ g \in Frames /\ g.pack = top.pack /\ g.key = top.key /\ g.needs = Tail(top.needs)
    <2>1. Tail(top.needs) \in Seq(Needs)
      BY <1>3
    <2> HIDE DEF top
    <2> QED
      BY <1>2, <1>3, <2>1 DEF Frames
  <1>5. /\ Len(top.needs) \in Nat \ {0} /\ Len(g.needs) = Len(top.needs) - 1 /\ Head(top.needs) = top.needs[1]
        /\ \A n \in 1..Len(g.needs) : g.needs[n] = top.needs[n + 1]
    BY <1>3, <1>4
  <1>6. FrameWell(t, Len(t.stack))
    BY <1>2 DEF InOrder
  <1> HIDE DEF g, top
  <1>7. /\ Append(Front(t.stack), g) \in Seq(Frames) /\ Len(Append(Front(t.stack), g)) = Len(t.stack)
        /\ Append(Front(t.stack), g)[Len(t.stack)] = g
        /\ \A i \in 1..(Len(t.stack) - 1) : Append(Front(t.stack), g)[i] = t.stack[i]
    BY <1>2, <1>4
  <1>8. Slot(r) \in SpecKeys /\ Slot(r)[1] = r.id /\ Slot(r)[2] = r.version /\ r.version # Latest
    BY SourceShape DEF SpecKeys
  <1>9. /\ u \in ResolveTasks /\ u.step = "visit" /\ u.next = Slot(r) /\ u.stack = Append(Front(t.stack), g)
        /\ u.ordered = t.ordered /\ u.seen = t.seen
    BY <1>7, <1>8 DEF ResolveTasks, g, top
  <1>10. OrderedWell(u) /\ SeenListed(u)
    BY <1>9 DEF InOrder, OrderedWell, SeenListed
  <1>11. ASSUME NEW i \in 1..Len(u.stack) PROVE FrameWell(u, i)
    <2>1. CASE i = Len(t.stack)
      <3>1. u.stack[i] = g
        BY <1>7, <1>9, <2>1
      <3>2. /\ Answers(top.pack, top.key) /\ Len(top.needs) <= Len(top.pack.needs) /\ Len(top.pack.needs) \in Nat
            /\ \A n \in 1..Len(top.needs) : top.needs[n] = top.pack.needs[d + n]
            /\ \A n \in 1..d : Met(top.pack.needs[n], t.ordered, Len(t.ordered))
        BY <1>2, <1>3, <1>6 DEF FrameWell, Awaited
      <3>3. Through(g) = d + 1 /\ d \in Nat /\ Len(g.needs) <= Len(g.pack.needs)
        <4>1. d = Len(top.pack.needs) - Len(top.needs)
          BY DEF Through
        <4>2. Through(g) = Len(top.pack.needs) - (Len(top.needs) - 1)
          BY <1>4, <1>5 DEF Through
        <4>3. Len(g.pack.needs) = Len(top.pack.needs)
          BY <1>4
        <4> HIDE DEF d
        <4> QED
          BY <1>5, <3>2, <4>1, <4>2, <4>3
      <3>4. \A n \in 1..Len(g.needs) : g.needs[n] = g.pack.needs[Through(g) + n]
        <4> SUFFICES ASSUME NEW n \in 1..Len(g.needs) PROVE g.needs[n] = g.pack.needs[Through(g) + n]
          OBVIOUS
        <4>1. g.needs[n] = top.needs[n + 1] /\ n + 1 \in 1..Len(top.needs)
          BY <1>5
        <4> HIDE DEF d
        <4>2. d + (n + 1) = Through(g) + n
          BY <3>3
        <4> QED
          BY <1>4, <3>2, <4>1, <4>2
      <3>5. Awaited(u, i, g.pack.needs[Through(g)])
        <4>1. g.pack.needs[Through(g)] = Head(top.needs)
          BY <1>4, <1>5, <3>2, <3>3
        <4> QED
          BY <1>7, <1>8, <1>9, <2>1, <4>1 DEF Awaited, Asks, top
      <3>6. ASSUME NEW n \in 1..Through(g), n # Through(g)
            PROVE  Met(g.pack.needs[n], u.ordered, Len(u.ordered))
        <4> HIDE DEF d
        <4>1. n \in 1..d
          BY <3>3, <3>6
        <4> QED
          BY <1>4, <1>9, <3>2, <4>1
      <3> QED
        BY <1>4, <3>1, <3>2, <3>3, <3>4, <3>5, <3>6 DEF FrameWell
    <2>2. CASE i # Len(t.stack)
      <3>1. i \in 1..Len(t.stack) /\ u.stack[i] = t.stack[i] /\ FrameWell(t, i) /\ Len(u.stack) = Len(t.stack)
        BY <1>2, <1>7, <1>9, <1>11, <2>2 DEF InOrder
      <3>2. u.stack[i + 1].key = t.stack[i + 1].key
        <4>1. CASE i + 1 = Len(t.stack)
          BY <1>2, <1>4, <1>7, <1>9, <4>1
        <4>2. CASE i + 1 # Len(t.stack)
          <5>1. i + 1 \in 1..(Len(t.stack) - 1)
            BY <1>2, <3>1, <2>2, <4>2
          <5> QED
            BY <1>7, <1>9, <5>1
        <4> QED
          BY <4>1, <4>2
      <3>3. \A n : Awaited(t, i, n) => Awaited(u, i, n)
        BY <3>1, <3>2, <2>2 DEF Awaited
      <3> QED
        BY <1>9, <3>1, <3>3 DEF FrameWell
    <2> QED
      BY <2>1, <2>2
  <1> QED
    BY <1>9, <1>10, <1>11 DEF InOrder

LEMMA LeaveOne ==
    ASSUME NEW t \in ResolveTasks, InOrder(t), t.step = "descend", t.stack # << >>, Last(t.stack).needs = << >>,
           NEW u, u = [t EXCEPT !.stack = Front(@), !.seen = @ \cup {Last(t.stack).key},
                                !.ordered = Append(@, Last(t.stack).pack)]
    PROVE  u \in ResolveTasks /\ InOrder(u)
  <1> DEFINE top == Last(t.stack)
             m == Len(t.ordered)
  <1>1. t.stack \in Seq(Frames) /\ t.ordered \in Seq(Sources) /\ t.seen \subseteq SpecKeys
    BY DEF ResolveTasks
  <1>2. top \in Frames /\ top = t.stack[Len(t.stack)] /\ Front(t.stack) \in Seq(Frames)
        /\ Len(Front(t.stack)) = Len(t.stack) - 1 /\ Len(t.stack) \in Nat \ {0}
        /\ \A i \in 1..(Len(t.stack) - 1) : Front(t.stack)[i] = t.stack[i]
    BY <1>1, FrontStack
  <1>3. top.pack \in Sources /\ top.key \in SpecKeys /\ top.pack.needs \in Seq(Needs)
    BY <1>2, SourceShape DEF Frames
  <1>4. FrameWell(t, Len(t.stack))
    BY <1>2 DEF InOrder
  <1> HIDE DEF top
  <1>5. /\ Append(t.ordered, top.pack) \in Seq(Sources) /\ Len(Append(t.ordered, top.pack)) = m + 1 /\ m \in Nat
        /\ Append(t.ordered, top.pack)[m + 1] = top.pack
        /\ \A i \in 1..m : Append(t.ordered, top.pack)[i] = t.ordered[i]
    BY <1>1, <1>3
  <1>6. /\ u \in ResolveTasks /\ u.step = "descend" /\ u.stack = Front(t.stack) /\ u.next = t.next
        /\ u.ordered = Append(t.ordered, top.pack) /\ u.seen = t.seen \cup {top.key}
    BY <1>1, <1>2, <1>3, <1>5 DEF ResolveTasks, top
  <1>7. \A n, k : k \in 0..m /\ Met(n, t.ordered, k) => Met(n, u.ordered, k) /\ Met(n, u.ordered, m + 1)
    BY <1>5, <1>6 DEF Met
  <1>8. /\ Answers(top.pack, top.key)
        /\ \A n \in 1..Len(top.pack.needs) : Met(top.pack.needs[n], t.ordered, m)
    <2>1. Len(top.needs) = 0
      BY DEF top
    <2> QED
      BY <1>2, <1>3, <1>4, <2>1 DEF FrameWell, Through, Awaited
  <1>9. OrderedWell(u)
    <2> SUFFICES ASSUME NEW i \in 1..(m + 1), NEW n \in 1..Len(u.ordered[i].needs)
                 PROVE  Met(u.ordered[i].needs[n], u.ordered, i - 1)
      BY <1>5, <1>6 DEF OrderedWell
    <2>1. CASE i = m + 1
      <3>1. u.ordered[i] = top.pack /\ i - 1 = m
        BY <1>5, <1>6, <2>1
      <3> QED
        BY <1>5, <1>7, <1>8, <3>1
    <2>2. CASE i # m + 1
      <3>1. i \in 1..m /\ u.ordered[i] = t.ordered[i] /\ i - 1 \in 0..m
        BY <1>5, <1>6, <2>2
      <3>2. Met(t.ordered[i].needs[n], t.ordered, i - 1)
        BY <3>1 DEF InOrder, OrderedWell
      <3> QED
        BY <1>7, <3>1, <3>2
    <2> QED
      BY <2>1, <2>2
  <1>10. SeenListed(u)
    <2> SUFFICES ASSUME NEW k \in u.seen PROVE \E j \in 1..(m + 1) : Answers(u.ordered[j], k)
      BY <1>5, <1>6 DEF SeenListed
    <2>1. CASE k = top.key
      BY <1>5, <1>6, <1>8, <2>1
    <2>2. CASE k \in t.seen
      <3>1. PICK j \in 1..m : Answers(t.ordered[j], k)
        BY <2>2 DEF InOrder, SeenListed
      <3> QED
        BY <1>5, <1>6, <3>1
    <2> QED
      BY <1>6, <2>1, <2>2
  <1>11. ASSUME NEW i \in 1..Len(u.stack) PROVE FrameWell(u, i)
    <2> DEFINE f == t.stack[i]
    <2>1. i \in 1..(Len(t.stack) - 1) /\ u.stack[i] = f /\ FrameWell(t, i) /\ Len(u.ordered) = m + 1
      BY <1>2, <1>5, <1>6, <1>11 DEF InOrder
    <2>2. ASSUME NEW n \in 1..Through(f)
          PROVE  \/ Met(f.pack.needs[n], u.ordered, m + 1)
                 \/ n = Through(f) /\ Awaited(u, i, f.pack.needs[n])
      <3>1. CASE Met(f.pack.needs[n], t.ordered, m)
        BY <1>5, <1>7, <3>1
      <3>2. CASE n = Through(f) /\ Awaited(t, i, f.pack.needs[n])
        <4>1. Asks(t.stack[i + 1].key, f.pack.needs[n])
          BY <1>2, <2>1, <3>2 DEF Awaited
        <4>2. CASE i + 1 = Len(t.stack)
          <5>1. Asks(top.key, f.pack.needs[n])
            BY <1>2, <4>1, <4>2
          <5>2. top.pack.id = f.pack.needs[n].id /\ top.pack.version \in f.pack.needs[n].versions
            BY <1>8, <5>1 DEF Asks, Answers
          <5>3. u.ordered[m + 1] = top.pack /\ m + 1 \in 1..(m + 1)
            BY <1>5, <1>6
          <5> QED
            BY <5>2, <5>3 DEF Met
        <4>3. CASE i + 1 # Len(t.stack)
          <5>1. i + 1 \in 1..(Len(t.stack) - 1)
            BY <1>2, <2>1, <4>3
          <5>2. u.stack[i + 1] = t.stack[i + 1]
            BY <1>2, <1>6, <5>1
          <5>3. i # Len(u.stack)
            BY <1>2, <1>6, <4>3
          <5> QED
            BY <3>2, <4>1, <5>2, <5>3 DEF Awaited
        <4> QED
          BY <4>2, <4>3
      <3> QED
        BY <2>1, <2>2, <3>1, <3>2 DEF FrameWell
    <2>3. /\ Answers(f.pack, f.key)
          /\ Len(f.needs) <= Len(f.pack.needs)
          /\ \A n \in 1..Len(f.needs) : f.needs[n] = f.pack.needs[Through(f) + n]
      BY <2>1 DEF FrameWell
    <2> HIDE DEF f, m
    <2> QED
      BY <2>1, <2>2, <2>3 DEF FrameWell
  <1> QED
    BY <1>6, <1>9, <1>10, <1>11 DEF InOrder

\* Every resolution that is under way is in order.
OrderInv == \A p \in Installers : task[p].op = "resolve" => InOrder(task[p])

LEMMA FoundAnswers ==
    ASSUME RegistryTypeOK, NEW id, NEW version, NEW r \in Found(id, version)
    PROVE  r \in Sources /\ Answers(r, <<id, version>>)
  BY DEF RegistryTypeOK, Found, Matching, Answers

\* What find returns is one record.
LEMMA FoundOne ==
    ASSUME RegistryTypeOK, NEW id, NEW version, NEW r \in Found(id, version), NEW o \in Found(id, version)
    PROVE  r = o
  <1>1. r \in Sources /\ o \in Sources /\ r.id = id /\ o.id = id
    BY DEF RegistryTypeOK, Found, Matching
  <1>2. TextOrder[r.version] <= TextOrder[o.version] /\ TextOrder[o.version] <= TextOrder[r.version]
    BY DEF Found
  <1>3. TextOrder[r.version] = TextOrder[o.version]
    BY <1>1, <1>2, SourcesAssumption
  <1>4. r.version = o.version
    BY <1>1, <1>3, SourcesAssumption
  <1> QED
    BY <1>1, <1>4, SourcesAssumption

LEMMA NextSpecOne ==
    ASSUME NEW t \in ResolveTasks, InOrder(t), t.step = "descend", t.stack = << >>, Len(t.specs) > 1,
           NEW u, u = [t EXCEPT !.step = "visit", !.specs = Tail(@), !.next = t.specs[2]]
    PROVE  u \in ResolveTasks /\ InOrder(u)
  <1>1. t.specs \in Seq(SpecKeys) /\ Len(t.specs) \in Nat
    BY DEF ResolveTasks
  <1>2. Tail(t.specs) \in Seq(SpecKeys) \ {<< >>} /\ t.specs[2] \in SpecKeys
    <2>1. Tail(t.specs) \in Seq(SpecKeys) /\ Len(Tail(t.specs)) # 0 /\ t.specs[2] \in SpecKeys
      BY <1>1
    <2> QED
      BY <2>1, EmptySeq
  <1>3. /\ u \in ResolveTasks /\ u.stack = t.stack /\ u.ordered = t.ordered /\ u.seen = t.seen
    BY <1>2 DEF ResolveTasks
  <1> QED
    BY <1>3 DEF InOrder, OrderedWell, SeenListed

\* What a step of the resolver makes of its task.
LEMMA ResolveStepShape ==
    ASSUME RegistryTypeOK, OrderInv, NEW p \in Installers, ResolveStep(p)
    PROVE  /\ UNCHANGED <<disk, registry, removed>>
           /\ \E u \in RestTasks \cup ResolveTasks :
                 task' = [task EXCEPT ![p] = u] /\ (u.op = "resolve" => InOrder(u))
  <1> DEFINE t == task[p]
             Good(u) == u \in RestTasks \cup ResolveTasks /\ (u.op = "resolve" => InOrder(u))
  <1>1. t \in ResolveTasks /\ InOrder(t)
    BY ResolveShape DEF OrderInv, ResolveStep, Visit, Descend, Leave, NextSpec, Resolved, InStage
  <1>2. UNCHANGED <<disk, registry, removed>>
    BY DEF ResolveStep, Visit, Descend, Leave, NextSpec, Resolved
  <1>3. ASSUME End(p) PROVE \E u : Good(u) /\ task' = [task EXCEPT ![p] = u]
    <2>1. Good(AtRest)
      BY DEF RestTasks, AtRest
    <2> QED
      BY <1>3, <2>1 DEF End, Step
  <1>4. ASSUME Visit(p) PROVE \E u : Good(u) /\ task' = [task EXCEPT ![p] = u]
    <2>1. t.step = "visit"
      BY <1>4 DEF Visit, InStage
    <2>2. CASE t.next \in t.seen
      <3>1. Good([t EXCEPT !.step = "descend"])
        BY <1>1, <2>1, <2>2, VisitSeen
      <3> QED
        BY <1>4, <2>2, <3>1 DEF Visit, GoOn, Step
    <2>3. CASE t.next \notin t.seen /\ ~End(p)
      <3>1. PICK r \in Found(t.next[1], t.next[2]) :
               Step(p, [t EXCEPT !.step = "descend",
                                 !.stack = Append(@, [key |-> t.next, pack |-> r, needs |-> r.needs])])
        BY <1>4, <2>3 DEF Visit
      <3>2. r \in Sources /\ Answers(r, t.next)
        BY FoundAnswers DEF Answers
      <3>3. Good([t EXCEPT !.step = "descend",
                           !.stack = Append(@, [key |-> t.next, pack |-> r, needs |-> r.needs])])
        BY <1>1, <2>1, <3>2, VisitNew
      <3> QED
        BY <3>1, <3>3 DEF Step
    <2> QED
      BY <1>3, <2>2, <2>3
  <1>5. ASSUME Descend(p) PROVE \E u : Good(u) /\ task' = [task EXCEPT ![p] = u]
    <2> DEFINE need == Head(Last(t.stack).needs)
               Next(r) == [t EXCEPT !.step = "visit", !.next = Slot(r),
                                    !.stack = Append(Front(@), [Last(t.stack) EXCEPT !.needs = Tail(@)])]
    <2>1. t.step = "descend" /\ t.stack # << >> /\ Last(t.stack).needs # << >>
      BY <1>5 DEF Descend, InStage
    <2>2. CASE ~End(p)
      <3>1. PICK o \in Found(need.id, Latest) : o.version \in need.versions
        BY <1>5, <2>2 DEF Descend
      <3>2. PICK r \in Found(need.id, Latest) : Step(p, Next(r))
        BY <1>5, <2>2 DEF Descend
      <3>3. r \in Sources /\ r.id = need.id /\ r.version \in need.versions
        BY <3>1, FoundOne, FoundAnswers DEF Answers
      <3>4. Good(Next(r))
        BY <1>1, <2>1, <3>3, DescendOne
      <3> QED
        BY <3>2, <3>4 DEF Step
    <2> QED
      BY <1>3, <2>2
  <1>6. ASSUME Leave(p) PROVE \E u : Good(u) /\ task' = [task EXCEPT ![p] = u]
    <2> DEFINE u == [t EXCEPT !.stack = Front(@), !.seen = @ \cup {Last(t.stack).key},
                              !.ordered = Append(@, Last(t.stack).pack)]
    <2>1. t.step = "descend" /\ t.stack # << >> /\ Last(t.stack).needs = << >> /\ Step(p, u)
      BY <1>6 DEF Leave, InStage
    <2>2. Good(u)
      BY <1>1, <2>1, LeaveOne
    <2> QED
      BY <2>1, <2>2 DEF Step
  <1>7. ASSUME NextSpec(p) PROVE \E u : Good(u) /\ task' = [task EXCEPT ![p] = u]
    <2>1. t.step = "descend" /\ t.stack = << >>
      BY <1>7 DEF NextSpec, InStage
    <2>2. CASE Len(t.specs) > 1
      <3>1. Good([t EXCEPT !.step = "visit", !.specs = Tail(@), !.next = t.specs[2]])
        BY <1>1, <2>1, <2>2, NextSpecOne
      <3> QED
        BY <1>7, <2>2, <3>1 DEF NextSpec, Step
    <2>3. CASE ~(Len(t.specs) > 1)
      <3>1. Good([t EXCEPT !.step = "resolved"])
        BY <1>1, <2>1 DEF ResolveTasks, InOrder, OrderedWell, SeenListed
      <3> QED
        BY <1>7, <2>3, <3>1 DEF NextSpec, GoOn, Step
    <2> QED
      BY <2>2, <2>3
  <1> QED
    BY <1>2, <1>3, <1>4, <1>5, <1>6, <1>7 DEF ResolveStep, Resolved

LEMMA RegistryInvStep == RegistryInv /\ OrderInv /\ [RegistryNext]_registryVars => RegistryInv'
  <1> SUFFICES ASSUME RegistryInv, OrderInv, [RegistryNext]_registryVars PROVE RegistryInv'
    OBVIOUS
  <1> USE DEF RegistryInv
  <1>1. CASE UNCHANGED registryVars
    BY <1>1 DEF registryVars, RegistryTypeOK, RecordsInv, Sound, InStage
  <1>2. ASSUME NEW p \in Installers, NEW s \in Sources, NEW force \in BOOLEAN, Install(p, s, force)
        PROVE  RegistryInv'
    <2>1. [op |-> "install", step |-> "place", pack |-> s, force |-> force] \in InstallTasks
      BY DEF InstallTasks
    <2>2. RegistryTypeOK'
      BY <1>2, <2>1, TaskStep DEF Install, Begin, RegistryTypeOK
    <2> QED
      BY <1>2, <2>1, <2>2, TaskStep, RecordsStay DEF Install, Begin, InStage
  <1>3. ASSUME NEW p \in Installers, NEW s \in Sources, NEW version \in {Latest, s.version}, Uninstall(p, s.id, version)
        PROVE  RegistryInv'
    <2> DEFINE t == [op |-> "uninstall", step |-> "remove", id |-> s.id, version |-> version,
                     targets |-> {Slot(r) : r \in Matching(registry, s.id, version)}]
    <2>1. t \in RemoveTasks
      <3>1. {Slot(r) : r \in Matching(registry, s.id, version)} \subseteq Slots
        BY SourceShape DEF Matching, RegistryTypeOK
      <3>2. s.id \in Ids /\ version \in Versions
        BY DEF Ids, Versions
      <3> QED
        BY <3>1, <3>2 DEF RemoveTasks
    <2>2. task' = [task EXCEPT ![p] = t] /\ UNCHANGED <<disk, registry, removed>>
      BY <1>3 DEF Uninstall, Begin
    <2>3. t.step = "remove" /\ t.op = "uninstall"
      OBVIOUS
    <2> HIDE DEF t
    <2>4. RegistryTypeOK'
      BY <2>1, <2>2, TaskStep DEF RegistryTypeOK
    <2> QED
      BY <2>1, <2>2, <2>3, <2>4, TaskStep, RecordsStay DEF InStage
  <1>4. ASSUME NEW p \in Installers, NEW specs \in Specs, Resolve(p, specs)
        PROVE  RegistryInv'
    <2> DEFINE t == [op |-> "resolve", step |-> "visit", specs |-> specs, next |-> Head(specs),
                     stack |-> << >>, seen |-> {}, ordered |-> << >>]
    <2>1. t \in ResolveTasks
      <3>1. specs \in Seq(ToSet(specs)) /\ specs # << >> /\ ToSet(specs) \subseteq SpecKeys
        BY SourcesAssumption DEF SpecKeys
      <3>2. specs \in Seq(SpecKeys) /\ Head(specs) \in SpecKeys
        BY <3>1
      <3> QED
        BY <3>1, <3>2 DEF ResolveTasks
    <2>2. task' = [task EXCEPT ![p] = t] /\ UNCHANGED <<disk, registry, removed>>
      BY <1>4 DEF Resolve, Begin
    <2>3. t.step = "visit" /\ t.op = "resolve"
      OBVIOUS
    <2> HIDE DEF t
    <2>4. RegistryTypeOK'
      BY <2>1, <2>2, TaskStep DEF RegistryTypeOK
    <2> QED
      BY <2>1, <2>2, <2>3, <2>4, TaskStep, RecordsStay DEF InStage
  <1>5. ASSUME NEW p \in Installers, End(p), UNCHANGED <<disk, registry, removed>>
        PROVE  RegistryInv'
    <2>1. RegistryTypeOK'
      BY <1>5, TaskStep DEF RegistryTypeOK, End, Step, RestTasks
    <2> QED
      BY <1>5, <2>1, TaskStep, RecordsStay DEF InStage, End, Step, RestTasks, AtRest
  <1>6. ASSUME NEW p \in Installers, InstallStep(p)
        PROVE  RegistryInv'
    <2> DEFINE t == task[p]
               s == Slot(t.pack)
    <2>1. ASSUME InStage(p, "install", t.step), t.step # "save"
          PROVE  t \in InstallTasks /\ s \in Slots
      BY <2>1, InstallShape, SourceShape DEF InstallTasks, InStage
    <2>2. ASSUME NEW step \in {"copy", "copying", "add"}, t \in InstallTasks, GoOn(p, step),
                 RegistryTypeOK /\ registry' = registry /\ removed \subseteq removed' /\ removed' \subseteq removed \cup {s},
                 disk' \in [Slots -> {"absent", "partial", "whole"}],
                 \A r \in Slots : disk'[r] = disk[r] \/ disk'[r] = "whole" \/ r \in removed' \/ disk[r] = "absent",
                 step = "add" => Sound(s)'
          PROVE  RegistryInv'
      <3>1. s \in Slots
        BY <2>2, SourceShape DEF InstallTasks
      <3>2. [t EXCEPT !.step = step] \in InstallTasks /\ [t EXCEPT !.step = step].pack = t.pack
            /\ [t EXCEPT !.step = step].step = step
        BY <2>2 DEF InstallTasks
      <3>3. task' = [task EXCEPT ![p] = [t EXCEPT !.step = step]]
        BY <2>2 DEF GoOn, Step
      <3> HIDE DEF t
      <3>4. /\ task' \in [Installers -> RestTasks \cup InstallTasks \cup RemoveTasks \cup SaveTasks \cup ResolveTasks]
            /\ task'[p] = [t EXCEPT !.step = step]
            /\ \A q \in Installers \ {p} : task'[q] = task[q]
        BY <3>2, <3>3, TaskStep
      <3>5. RegistryTypeOK'
        BY <2>2, <3>1, <3>4 DEF RegistryTypeOK
      <3>6. InStage(p, "install", "add")' => Sound(Slot(task[p].pack))' /\ task'[p].pack = task[p].pack
        BY <2>2, <3>2, <3>4 DEF InStage, t, Sound, Slot
      <3>7. task'[p].step # "save"
        BY <3>2, <3>4
      <3> QED
        BY <2>2, <3>4, <3>5, <3>6, <3>7, RecordsStay
    <2>3. CASE InstallRefused(p)
      BY <1>5, <2>3 DEF InstallRefused
    <2>4. CASE RemoveForReinstall(p)
      <3>1. t \in InstallTasks /\ s \in Slots
        BY <2>1, <2>4 DEF RemoveForReinstall, InStage
      <3> QED
        BY <2>2, <2>4, <3>1 DEF RemoveForReinstall, RegistryTypeOK
    <2>5. CASE NothingThere(p)
      <3>1. t \in InstallTasks /\ s \in Slots
        BY <2>1, <2>5 DEF NothingThere, InStage
      <3> QED
        BY <2>2, <2>5, <3>1 DEF NothingThere, RegistryTypeOK
    <2>6. CASE BeginCopy(p)
      <3>1. t \in InstallTasks /\ s \in Slots
        BY <2>1, <2>6 DEF BeginCopy, InStage
      <3>2. CASE disk[s] = "absent"
        BY <2>2, <2>6, <3>1, <3>2 DEF BeginCopy, RegistryTypeOK
      <3>3. CASE disk[s] # "absent"
        BY <1>5, <2>6, <3>3 DEF BeginCopy
      <3> QED
        BY <3>2, <3>3
    <2>7. CASE EndCopy(p)
      <3>1. t \in InstallTasks /\ s \in Slots
        BY <2>1, <2>7 DEF EndCopy, InStage
      <3>2. CASE disk[s] = "partial" /\ disk' = [disk EXCEPT ![s] = "whole"] /\ GoOn(p, "add")
        <4>1. task'[p].pack = t.pack
          BY <3>1, <3>2 DEF RegistryTypeOK, GoOn, Step, InstallTasks
        <4>2. Sound(s)'
          BY <3>1, <3>2, <4>1 DEF RegistryTypeOK, Sound, Slot
        <4> QED
          BY <2>2, <2>7, <3>1, <3>2, <4>2 DEF EndCopy, RegistryTypeOK
      <3>3. CASE s \in removed /\ disk' = disk /\ GoOn(p, "add")
        <4>1. UNCHANGED <<registry, removed>>
          BY <2>7 DEF EndCopy
        <4>2. task'[p].pack = t.pack
          BY <3>1, <3>3 DEF RegistryTypeOK, GoOn, Step, InstallTasks
        <4>3. Sound(s)'
          BY <3>3, <4>1, <4>2 DEF Sound, Slot
        <4> QED
          BY <2>2, <3>1, <3>3, <4>1, <4>3 DEF RegistryTypeOK
      <3>4. CASE disk' = disk /\ End(p)
        BY <1>5, <2>7, <3>4 DEF EndCopy
      <3> QED
        BY <2>7, <3>2, <3>3, <3>4 DEF EndCopy
    <2>8. CASE LoadForAdd(p)
      <3>1. t \in InstallTasks /\ s \in Slots /\ InStage(p, "install", "add")
        BY <2>1, <2>8 DEF LoadForAdd, InStage
      <3>2. CASE End(p)
        BY <1>5, <2>8, <3>2 DEF LoadForAdd
      <3>3. CASE ~End(p)
        <4> DEFINE u == [op |-> "install", step |-> "save",
                         records |-> {r \in registry : Slot(r) # s} \cup {t.pack}]
        <4>1. task' = [task EXCEPT ![p] = u] /\ UNCHANGED <<disk, registry, removed>>
          BY <2>8, <3>3 DEF LoadForAdd, Step
        <4>2. u \in SaveTasks
          BY <3>1 DEF SaveTasks, InstallTasks, RegistryTypeOK
        <4>3. \A r \in u.records : Sound(Slot(r))'
          BY <3>1, <4>1 DEF RecordsInv, Sound, Slot
        <4>4. u.step = "save" /\ u.op = "install"
          OBVIOUS
        <4> HIDE DEF u
        <4>5. RegistryTypeOK' /\ task'[p] = u /\ \A q \in Installers \ {p} : task'[q] = task[q]
          BY <4>1, <4>2, TaskStep DEF RegistryTypeOK
        <4> QED
          BY <4>1, <4>3, <4>4, <4>5, RecordsStay DEF InStage
      <3> QED
        BY <3>2, <3>3
    <2> QED
      BY <1>6, <2>3, <2>4, <2>5, <2>6, <2>7, <2>8 DEF InstallStep
  <1>7. ASSUME NEW p \in Installers, UninstallStep(p)
        PROVE  RegistryInv'
    <2>1. CASE LoadForRemove(p)
      <3> DEFINE u == [op |-> "uninstall", step |-> "save",
                       records |-> registry \ Matching(registry, task[p].id, task[p].version)]
      <3>1. task' = [task EXCEPT ![p] = u] /\ UNCHANGED <<disk, registry, removed>>
        BY <2>1 DEF LoadForRemove, Step
      <3>2. u \in SaveTasks
        BY DEF SaveTasks, RegistryTypeOK
      <3>3. \A r \in u.records : Sound(Slot(r))'
        BY <3>1 DEF RecordsInv, Sound
      <3>4. u.step = "save" /\ u.op = "uninstall"
        OBVIOUS
      <3> HIDE DEF u
      <3>5. RegistryTypeOK' /\ task'[p] = u /\ \A q \in Installers \ {p} : task'[q] = task[q]
        BY <3>1, <3>2, TaskStep DEF RegistryTypeOK
      <3> QED
        BY <3>1, <3>3, <3>4, <3>5, RecordsStay DEF InStage
    <2>2. ASSUME NEW s \in Slots, RemoveTarget(p, s)
          PROVE  RegistryInv'
      <3> DEFINE u == [task[p] EXCEPT !.targets = @ \ {s}]
      <3>1. task[p] \in RemoveTasks
        BY <2>2, RemoveShape DEF RemoveTarget, InStage
      <3>2. u \in RemoveTasks /\ u.step = "remove" /\ u.op = "uninstall"
        BY <3>1 DEF RemoveTasks
      <3>3. task' = [task EXCEPT ![p] = u]
        BY <2>2 DEF RemoveTarget, Step
      <3> HIDE DEF u
      <3>4. RegistryTypeOK' /\ task'[p] = u /\ \A q \in Installers \ {p} : task'[q] = task[q]
        BY <2>2, <3>2, <3>3, TaskStep DEF RegistryTypeOK, RemoveTarget
      <3>5. /\ removed \subseteq removed' /\ registry' = registry
            /\ \A r \in Slots : disk'[r] = disk[r] \/ r \in removed'
        BY <2>2 DEF RemoveTarget, RegistryTypeOK
      <3> QED
        BY <3>2, <3>4, <3>5, RecordsStay DEF InStage
    <2> QED
      BY <1>7, <2>1, <2>2 DEF UninstallStep
  <1>8. ASSUME NEW p \in Installers, SaveRegistry(p)
        PROVE  RegistryInv'
    <2>1. task[p] \in SaveTasks /\ \A r \in task[p].records : Sound(Slot(r))
      BY <1>8, SaveShape DEF SaveRegistry, RecordsInv
    <2>2. task' = [task EXCEPT ![p] = AtRest] /\ registry' = task[p].records /\ UNCHANGED <<disk, removed>>
      BY <1>8 DEF SaveRegistry, End, Step
    <2>3. RegistryTypeOK' /\ task'[p] = AtRest /\ \A q \in Installers \ {p} : task'[q] = task[q]
      BY <2>1, <2>2, TaskStep DEF RegistryTypeOK, SaveTasks, RestTasks
    <2> QED
      BY <2>1, <2>2, <2>3, RecordsStay DEF InStage, AtRest
  <1>9. ASSUME NEW p \in Installers, ResolveStep(p)
        PROVE  RegistryInv'
    <2>1. PICK u \in RestTasks \cup ResolveTasks : task' = [task EXCEPT ![p] = u]
      BY <1>9, ResolveStepShape
    <2>2. UNCHANGED <<disk, registry, removed>>
      BY <1>9, ResolveStepShape
    <2>3. u.step # "save" /\ ~(u.op = "install" /\ u.step = "add")
      BY DEF RestTasks, ResolveTasks, AtRest
    <2>4. RegistryTypeOK' /\ task'[p] = u /\ \A q \in Installers \ {p} : task'[q] = task[q]
      BY <2>1, <2>2, TaskStep DEF RegistryTypeOK
    <2> QED
      BY <2>2, <2>3, <2>4, RecordsStay DEF InStage
  <1>10. ASSUME NEW p \in Installers, DieInstalling(p)
         PROVE  RegistryInv'
    <2>1. task' = [task EXCEPT ![p] = AtRest] /\ registry' = registry
      BY <1>10 DEF DieInstalling
    <2>2. /\ removed \subseteq removed' /\ removed' \subseteq Slots
          /\ disk' \in [Slots -> {"absent", "partial", "whole"}]
          /\ \A r \in Slots : disk'[r] = disk[r] \/ r \in removed'
      <3>1. CASE UNCHANGED <<disk, removed>>
        BY <3>1 DEF RegistryTypeOK
      <3>2. CASE \E s \in Slots : disk' = [disk EXCEPT ![s] = "partial"] /\ removed' = removed \cup {s}
        BY <3>2 DEF RegistryTypeOK
      <3> QED
        BY <1>10, <3>1, <3>2 DEF DieInstalling
    <2>3. RegistryTypeOK' /\ task'[p] = AtRest /\ \A q \in Installers \ {p} : task'[q] = task[q]
      BY <2>1, <2>2, TaskStep DEF RegistryTypeOK, RestTasks
    <2> QED
      BY <2>1, <2>2, <2>3, RecordsStay DEF InStage, AtRest
  <1> QED
    BY <1>1, <1>2, <1>3, <1>4, <1>6, <1>7, <1>8, <1>9, <1>10 DEF RegistryNext

LEMMA OrderInvStep == RegistryInv /\ OrderInv /\ [RegistryNext]_registryVars => OrderInv'
  <1> SUFFICES ASSUME RegistryInv, OrderInv, [RegistryNext]_registryVars PROVE OrderInv'
    OBVIOUS
  <1> USE DEF RegistryInv
  <1>1. CASE UNCHANGED registryVars
    BY <1>1 DEF registryVars, OrderInv
  <1>2. ASSUME NEW p \in Installers, NEW u, task' = [task EXCEPT ![p] = u], u.op = "resolve" => InOrder(u)
        PROVE  OrderInv'
    <2>1. task'[p] = u /\ \A q \in Installers \ {p} : task'[q] = task[q]
      BY <1>2 DEF RegistryTypeOK
    <2> QED
      BY <1>2, <2>1 DEF OrderInv
  <1>3. ASSUME NEW p \in Installers, NEW specs \in Specs, Resolve(p, specs)
        PROVE  OrderInv'
    <2> DEFINE u == [op |-> "resolve", step |-> "visit", specs |-> specs, next |-> Head(specs),
                     stack |-> << >>, seen |-> {}, ordered |-> << >>]
    <2>1. InOrder(u)
      BY DEF InOrder, OrderedWell, SeenListed
    <2> QED
      BY <1>2, <1>3, <2>1 DEF Resolve, Begin
  <1>4. ASSUME NEW p \in Installers, ResolveStep(p)
        PROVE  OrderInv'
    <2>1. PICK u \in RestTasks \cup ResolveTasks :
             task' = [task EXCEPT ![p] = u] /\ (u.op = "resolve" => InOrder(u))
      BY <1>4, ResolveStepShape
    <2> QED
      BY <1>2, <2>1
  <1>5. ASSUME NEW p \in Installers, \A q \in Installers \ {p} : task'[q] = task[q], task'[p].op # "resolve"
        PROVE  OrderInv'
    BY <1>5 DEF OrderInv
  <1>6. ASSUME NEW p \in Installers, NEW s \in Sources,
               \/ \E force \in BOOLEAN : Install(p, s, force)
               \/ \E version \in {Latest, s.version} : Uninstall(p, s.id, version)
        PROVE  OrderInv'
    BY <1>5, <1>6 DEF Install, Uninstall, Begin, RegistryTypeOK
  <1>7. ASSUME NEW p \in Installers, InstallStep(p)
        PROVE  OrderInv'
    <2>1. task[p] \in InstallTasks
      BY <1>7, InstallShape DEF InstallStep, InstallRefused, RemoveForReinstall, NothingThere, BeginCopy, EndCopy,
                                LoadForAdd, InStage
    <2>2. \A step : [task[p] EXCEPT !.step = step].op = "install"
      BY <2>1 DEF InstallTasks
    <2>3. \A step : GoOn(p, step) => OrderInv'
      BY <1>5, <2>2 DEF GoOn, Step, RegistryTypeOK
    <2>4. End(p) => OrderInv'
      BY <1>5 DEF End, Step, AtRest, RegistryTypeOK
    <2>5. LoadForAdd(p) => OrderInv'
      BY <1>5, <2>4 DEF LoadForAdd, Step, RegistryTypeOK
    <2> QED
      BY <1>7, <2>3, <2>4, <2>5 DEF InstallStep, InstallRefused, RemoveForReinstall, NothingThere, BeginCopy, EndCopy
  <1>8. ASSUME NEW p \in Installers, UninstallStep(p)
        PROVE  OrderInv'
    <2>1. LoadForRemove(p) => OrderInv'
      BY <1>5 DEF LoadForRemove, Step, RegistryTypeOK
    <2>2. ASSUME NEW s \in Slots, RemoveTarget(p, s) PROVE OrderInv'
      <3>1. task[p] \in RemoveTasks
        BY <2>2, RemoveShape DEF RemoveTarget, InStage
      <3>2. [task[p] EXCEPT !.targets = @ \ {s}].op = "uninstall"
        BY <3>1 DEF RemoveTasks
      <3> QED
        BY <1>5, <2>2, <3>2 DEF RemoveTarget, Step, RegistryTypeOK
    <2> QED
      BY <1>8, <2>1, <2>2 DEF UninstallStep
  <1>9. ASSUME NEW p \in Installers, SaveRegistry(p) \/ DieInstalling(p)
        PROVE  OrderInv'
    BY <1>5, <1>9 DEF SaveRegistry, DieInstalling, End, Step, AtRest, RegistryTypeOK
  <1> QED
    BY <1>1, <1>3, <1>4, <1>6, <1>7, <1>8, <1>9 DEF RegistryNext

LEMMA LibraryInvariant == RegistrySpec => [](RegistryInv /\ OrderInv)
  <1>1. RegistryInit => OrderInv
    BY DEF RegistryInit, OrderInv, AtRest
  <1> QED
    BY <1>1, RegistryInvInit, RegistryInvStep, OrderInvStep, PTL DEF RegistrySpec

\* A record of the registry points to a whole directory unless some command
\* set out to remove it, however many processes install, remove, save and
\* die at once (PackInstaller.install, InstalledPackRegistry.add).
THEOREM RecordsWhole == RegistrySpec => []RecordsAreWhole
  <1>1. RegistryInv => RecordsAreWhole
    BY DEF RegistryInv, RecordsInv, RecordsAreWhole, Sound
  <1> QED
    BY <1>1, LibraryInvariant, PTL

\* A resolution lists the dependencies of a pack, in versions that meet its
\* requirements, before the pack, whatever is installed and removed while
\* it runs (DependencyResolver.resolve).
THEOREM DependenciesFirst == RegistrySpec => []DependenciesComeFirst
  <1>1. ASSUME RegistryInv, OrderInv PROVE DependenciesComeFirst
    <2> SUFFICES ASSUME NEW p \in Installers, task[p].op = "resolve",
                        NEW i \in DOMAIN task[p].ordered, NEW n \in DOMAIN task[p].ordered[i].needs
                 PROVE  Met(task[p].ordered[i].needs[n], task[p].ordered, i - 1)
      BY DEF DependenciesComeFirst, Met
    <2>1. task[p].ordered \in Seq(Sources)
      BY <1>1, ResolveShape DEF RegistryInv, ResolveTasks
    <2>2. task[p].ordered[i].needs \in Seq(Needs)
      BY <2>1, SourceShape
    <2>3. i \in 1..Len(task[p].ordered) /\ n \in 1..Len(task[p].ordered[i].needs)
      BY <2>1, <2>2
    <2> QED
      BY <1>1, <2>3 DEF OrderInv, InOrder, OrderedWell
  <1> QED
    BY <1>1, LibraryInvariant, PTL

-----------------------------------------------------------------------------
(* What is said of a pack's files (PackSealing).                           *)

Needed == {"claims", "pack", "provenance"}

CopyLists ==
    {<<"claims", "extra", "pack", "provenance">>, <<"extra", "pack", "provenance">>,
     <<"claims", "pack", "provenance">>, <<"pack", "provenance">>, <<"provenance">>, << >>}

IsListing(l) == DOMAIN l \subseteq FileNames /\ l \in [DOMAIN l -> FileForms]

SealedHash(s) == [hash |-> ContentHash(s), merkle |-> HashedFiles(s)]

\* The metadata and the manifest are those of the files.
IsSealed(s) ==
    /\ s.pack \in PackJsons
    /\ s.pack.hash = ContentHash(s) /\ s.pack.merkle = HashedFiles(s)
    /\ s.manifest = SealManifest(s)

PackShape(s) ==
    /\ s = [f \in {"claims", "provenance", "extra", "manifest", "signature", "pack"} |-> s[f]]
    /\ s.claims \in FileTexts /\ s.provenance = 1 /\ s.extra \in {NoFile, 1}
    /\ s.pack \in {Cut} \cup PackJsons

BundleShape(b) ==
    /\ b = [f \in {"files", "manifest", "signature"} |-> b[f]]
    /\ b.files \in [FileNames -> {NoFile} \cup FileForms]

\* The bundle is a copy of the pack, as far as the list has been copied.
Copied(s, b, left) ==
    \A f \in FileNames : b.files[f] = IF f \in ToSet(left) THEN NoFile ELSE s[f]

JobKeys == {"op", "stage", "saw", "key", "left", "undisturbed"}

IsJob(j) == j = [f \in JobKeys |-> j[f]]

SignStages == {"key", "private", "public", "write manifest", "signature"}

ListStages == {"seed", "rebuild", "sign", "final"}

\* What a job has at hand, whatever others do meanwhile.
JobTyped(b, v, j) ==
    /\ IsJob(j)
    /\ (j.op = "seal" /\ j.stage = "metadata") => j.saw \in PackJsons
    /\ (j.op = "seal" /\ j.stage = "root") => j.saw \in FileHashes
    /\ (j.op = "sign" /\ j.stage = "hash") => j.saw.merkle \in FileHashes
    /\ (j.op = "sign" /\ j.stage \in SignStages) => j.saw \in Signed
    /\ (j.op = "sign" /\ j.stage = "private") => j.key \in Sealers
    /\ (j.op = "sign" /\ j.stage \in {"public", "write manifest", "signature"}) => j.key \in v.makers
    /\ j.op = "bundle" =>
         /\ j.stage \in {"copy", "list", "seed", "rebuild", "sign", "final"}
         /\ j.key \in KeyPairs \cup {NoFile} /\ j.saw \in BOOLEAN
         /\ j.stage = "copy" => j.left \in CopyLists
         /\ \A f \in Needed : b.files[f] # NoFile \/ (j.stage = "copy" /\ f \in ToSet(j.left))
         /\ j.stage \in {"seed", "rebuild"} => Needed \subseteq DOMAIN j.left
         /\ j.stage \in ListStages =>
              IsListing(j.left) /\ [key |-> NoFile, listing |-> j.left] \in v.bundles
         /\ j.stage = "sign" => j.key # NoFile

\* What a job took is still so, unless others wrote.
JobSees(s, b, j) ==
    /\ (j.op = "seal" /\ j.stage = "metadata") =>
         s.pack \in PackJsons /\ j.saw = [s.pack EXCEPT !.hash = ContentHash(s)]
    /\ (j.op = "seal" /\ j.stage \in {"manifest", "root"}) => s.pack \in PackJsons /\ s.pack.hash = ContentHash(s)
    /\ (j.op = "seal" /\ j.stage = "root") => s.manifest = SealManifest(s) /\ j.saw = HashedFiles(s)
    /\ (j.op = "sign" /\ j.stage = "hash") => j.saw.merkle = HashedFiles(s)
    /\ (j.op = "sign" /\ j.stage \in SignStages) => j.saw = SealedHash(s)
    /\ (j.op = "bundle" /\ j.saw = TRUE) =>
         /\ j.stage = "copy" => Copied(s, b, j.left)
         /\ j.stage \in {"list"} \cup ListStages => Copied(s, b, << >>)
         /\ j.stage # "final" => b.signature = NoFile
         /\ j.stage \in ListStages => j.left = Listing(b.files, Present(b.files))
         /\ j.stage = "rebuild" => b.manifest = j.left
         /\ j.stage = "final" =>
              b.signature = IF j.key = NoFile THEN NoFile ELSE [key |-> j.key, payload |-> j.left]

JobHolds(s, b, v, j) == JobTyped(b, v, j) /\ (j.undisturbed => JobSees(s, b, j))

\* The files of the key are of one that somebody made.
KeysOK ==
    /\ keyFiles = [private |-> keyFiles.private, public |-> keyFiles.public]
    /\ keyFiles.private \in {NoFile, Cut} \cup vouched.makers
    /\ keyFiles.public \in {NoFile, Cut} \cup vouched.makers

\* The signatures of the pack and the bundle, and the manifest of the bundle.
Backed(s, b, v) ==
    /\ v = [packs |-> v.packs, bundles |-> v.bundles, makers |-> v.makers, crossed |-> v.crossed]
    /\ v.makers \subseteq Sealers /\ v.crossed \in BOOLEAN
    /\ s.signature \notin {NoFile, Cut} =>
         s.signature \in Signatures /\ s.signature.of \in v.packs /\ s.signature.key \in v.makers
    /\ b.manifest \notin {NoFile, Cut, NoFiles} => [key |-> NoFile, listing |-> b.manifest] \in v.bundles
    /\ b.signature \notin {NoFile, Cut} =>
         [key |-> b.signature.key, listing |-> b.signature.payload] \in v.bundles
    /\ \A x \in v.bundles : Needed \subseteq DOMAIN x.listing \/ (x.listing = NoFiles /\ v.crossed)

\* What nobody has touched.
Intacts(s, b, f) ==
    /\ "sealed" \in f => IsSealed(s)
    /\ "signed" \in f => /\ s.signature \in Signatures
                       /\ s.signature.of.hash = s.pack.hash /\ s.signature.of.merkle = s.pack.merkle
    /\ "bundled" \in f =>
         /\ Copied(s, b, << >>) /\ IsListing(b.manifest)
         /\ b.manifest = Listing(b.files, Present(b.files))
         /\ \/ b.signature = NoFile
            \/ \E key \in KeyPairs : b.signature = [key |-> key, payload |-> b.manifest]

SealingInv ==
    /\ PackShape(sealing) /\ BundleShape(bundle)
    /\ labour = [w \in Sealers |-> labour[w]]
    /\ \A w \in Sealers : JobHolds(sealing, bundle, vouched, labour[w])
    /\ Backed(sealing, bundle, vouched)
    /\ Intacts(sealing, bundle, fresh)

-----------------------------------------------------------------------------
LEMMA HashesTyped ==
    ASSUME NEW s, PackShape(s), s.pack \in PackJsons
    PROVE  ContentHash(s) \in ContentHashes /\ HashedFiles(s) \in FileHashes /\ SealedHash(s) \in Signed
  <1>1. ContentHash(s) \in ContentHashes
    BY DEF PackShape, ContentHash, ContentHashes, PackJsons, PackForms
  <1>2. [s.pack EXCEPT !.merkle = NoFile] \in PackForms({NoFile})
    BY DEF PackJsons, PackForms
  <1>3. HashedFiles(s) \in FileHashes
    BY <1>2 DEF PackShape, HashedFiles, FileHashes
  <1> QED
    BY <1>1, <1>3 DEF SealedHash, Signed

\* A hash of a pack without a part of its metadata is the same with another.
LEMMA HashesSame ==
    ASSUME NEW s, NEW x, s.pack \in PackJsons, x.pack \in PackJsons,
           x.claims = s.claims, x.provenance = s.provenance, x.pack.base = s.pack.base
    PROVE  /\ ContentHash(x) = ContentHash(s)
           /\ (x.pack.hash = s.pack.hash /\ x.pack.snapshot = s.pack.snapshot) => HashedFiles(x) = HashedFiles(s)
  <1>1. ContentHash(x) = ContentHash(s)
    BY DEF ContentHash
  <1>2. ASSUME x.pack.hash = s.pack.hash, x.pack.snapshot = s.pack.snapshot
        PROVE  [x.pack EXCEPT !.merkle = NoFile] = [s.pack EXCEPT !.merkle = NoFile]
    <2>1. x.pack = [base |-> x.pack.base, hash |-> x.pack.hash, merkle |-> x.pack.merkle, snapshot |-> x.pack.snapshot]
      BY DEF PackJsons, PackForms
    <2>2. s.pack = [base |-> s.pack.base, hash |-> s.pack.hash, merkle |-> s.pack.merkle, snapshot |-> s.pack.snapshot]
      BY DEF PackJsons, PackForms
    <2> QED
      BY <1>2, <2>1, <2>2
  <1> QED
    BY <1>1, <1>2 DEF HashedFiles

LEMMA NoTaskHolds ==
    ASSUME NEW s, NEW b, NEW v
    PROVE  JobHolds(s, b, v, NoTask)
  <1>1. NoTask.op = "none" /\ IsJob(NoTask)
    BY DEF NoTask, JobKeys, IsJob
  <1> QED
    BY <1>1 DEF JobHolds, JobTyped, JobSees

LEMMA CopyListSteps ==
    ASSUME NEW q \in CopyLists, q # << >>
    PROVE  /\ Tail(q) \in CopyLists /\ Head(q) \in FileNames
           /\ ToSet(q) = {Head(q)} \cup ToSet(Tail(q)) /\ Head(q) \notin ToSet(Tail(q))
  <1>1. ToSet(<<"claims", "extra", "pack", "provenance">>) = {"claims", "extra", "pack", "provenance"}
    BY DEF ToSet
  <1>2. ToSet(<<"extra", "pack", "provenance">>) = {"extra", "pack", "provenance"}
    BY DEF ToSet
  <1>3. ToSet(<<"claims", "pack", "provenance">>) = {"claims", "pack", "provenance"}
    BY DEF ToSet
  <1>4. ToSet(<<"pack", "provenance">>) = {"pack", "provenance"}
    BY DEF ToSet
  <1>5. ToSet(<<"provenance">>) = {"provenance"}
    BY DEF ToSet
  <1>6. ToSet(<< >>) = {}
    BY DEF ToSet
  <1>7. /\ Tail(<<"claims", "extra", "pack", "provenance">>) = <<"extra", "pack", "provenance">>
        /\ Tail(<<"extra", "pack", "provenance">>) = <<"pack", "provenance">>
        /\ Tail(<<"claims", "pack", "provenance">>) = <<"pack", "provenance">>
        /\ Tail(<<"pack", "provenance">>) = <<"provenance">>
        /\ Tail(<<"provenance">>) = << >>
    OBVIOUS
  <1>8. CASE q = <<"claims", "extra", "pack", "provenance">>
    BY <1>8, <1>1, <1>2, <1>7 DEF CopyLists, FileNames
  <1>9. CASE q = <<"extra", "pack", "provenance">>
    BY <1>9, <1>2, <1>4, <1>7 DEF CopyLists, FileNames
  <1>10. CASE q = <<"claims", "pack", "provenance">>
    BY <1>10, <1>3, <1>4, <1>7 DEF CopyLists, FileNames
  <1>11. CASE q = <<"pack", "provenance">>
    BY <1>11, <1>4, <1>5, <1>7 DEF CopyLists, FileNames
  <1>12. CASE q = <<"provenance">>
    BY <1>12, <1>5, <1>6, <1>7 DEF CopyLists, FileNames
  <1> QED
    BY <1>8, <1>9, <1>10, <1>11, <1>12 DEF CopyLists

LEMMA CollectedLists ==
    ASSUME NEW s
    PROVE  /\ Collected(s) \in CopyLists
           /\ ToSet(Collected(s)) = IF s.extra # NoFile THEN FileNames ELSE FileNames \ {"extra"}
           /\ Needed \subseteq ToSet(Collected(s))
  <1>1. ToSet(<<"claims", "extra", "pack", "provenance">>) = {"claims", "extra", "pack", "provenance"}
    BY DEF ToSet
  <1>2. ToSet(<<"claims", "pack", "provenance">>) = {"claims", "pack", "provenance"}
    BY DEF ToSet
  <1> QED
    BY <1>1, <1>2 DEF Collected, CopyLists, FileNames, Needed

LEMMA ListingOfFiles ==
    ASSUME NEW b, BundleShape(b)
    PROVE  LET l == Listing(b.files, Present(b.files))
           IN  /\ DOMAIN l = Present(b.files) /\ IsListing(l)
               /\ Listing(b.files, DOMAIN l) = l
               /\ (\A f \in Needed : b.files[f] # NoFile) => Needed \subseteq DOMAIN l
  BY DEF BundleShape, Listing, Present, IsListing, Needed, FileNames

LEMMA ListingsAreThere ==
    ASSUME NEW l, IsListing(l)
    PROVE  l \notin {NoFile, Cut}
  BY MissingIsNothing DEF IsListing

-----------------------------------------------------------------------------
(* What the step of one process does to the jobs of the others.            *)

Disturb(j) == [j EXCEPT !.undisturbed = FALSE]

LEMMA DisturbedHolds ==
    ASSUME NEW s, NEW b, NEW v, NEW j, JobHolds(s, b, v, j),
           NEW x, NEW c, NEW u, v.bundles \subseteq u.bundles, v.makers \subseteq u.makers,
           j.op = "bundle" => \A f \in Needed : b.files[f] # NoFile => c.files[f] # NoFile
    PROVE  JobHolds(x, c, u, Disturb(j))
  <1>1. JobTyped(b, v, j)
    BY DEF JobHolds
  <1>2. IsJob(j)
    BY <1>1 DEF JobTyped
  <1>3. /\ IsJob(Disturb(j))
        /\ Disturb(j).op = j.op /\ Disturb(j).stage = j.stage /\ Disturb(j).saw = j.saw
        /\ Disturb(j).key = j.key /\ Disturb(j).left = j.left /\ Disturb(j).undisturbed = FALSE
    BY <1>2 DEF Disturb, JobKeys, IsJob
  <1>4. JobTyped(c, u, Disturb(j))
    BY <1>1, <1>3 DEF JobTyped
  <1> QED
    BY <1>3, <1>4 DEF JobHolds

\* A step of a process that writes: the others notice.
LEMMA WritingStep ==
    ASSUME SealingInv, NEW w \in Sealers, NEW j, Advance(w, j, TRUE),
           PackShape(sealing'), BundleShape(bundle'),
           JobHolds(sealing', bundle', vouched', j),
           Backed(sealing', bundle', vouched'), Intacts(sealing', bundle', fresh'),
           vouched.bundles \subseteq vouched'.bundles, vouched.makers \subseteq vouched'.makers,
           \A f \in Needed : bundle.files[f] # NoFile => bundle'.files[f] # NoFile
    PROVE  SealingInv'
  <1>1. labour' = [v \in Sealers |-> IF v = w THEN j
                                     ELSE IF labour[v] # NoTask THEN Disturb(labour[v]) ELSE labour[v]]
    BY DEF Advance, Disturb
  <1>2. ASSUME NEW v \in Sealers PROVE JobHolds(sealing', bundle', vouched', labour'[v])
    <2>1. CASE v = w
      BY <1>1, <2>1
    <2>2. CASE v # w /\ labour[v] # NoTask
      <3>1. labour'[v] = Disturb(labour[v]) /\ JobHolds(sealing, bundle, vouched, labour[v])
        BY <1>1, <2>2 DEF SealingInv
      <3> QED
        BY <3>1, DisturbedHolds
    <2>3. CASE v # w /\ labour[v] = NoTask
      BY <1>1, <2>3, NoTaskHolds
    <2> QED
      BY <2>1, <2>2, <2>3
  <1> QED
    BY <1>1, <1>2 DEF SealingInv

\* A step of a process that writes none of the files.
LEMMA ReadingStep ==
    ASSUME SealingInv, NEW w \in Sealers, NEW j, Advance(w, j, FALSE),
           UNCHANGED <<sealing, bundle, vouched, fresh>>,
           JobHolds(sealing, bundle, vouched, j)
    PROVE  SealingInv'
  <1>1. labour' = [v \in Sealers |-> IF v = w THEN j ELSE labour[v]]
    BY DEF Advance
  <1> QED
    BY <1>1 DEF SealingInv

\* One that writes none of them, but takes note of what it made or signed.
LEMMA NotingStep ==
    ASSUME SealingInv, NEW w \in Sealers, NEW j, Advance(w, j, FALSE),
           UNCHANGED <<sealing, bundle, fresh>>, Backed(sealing, bundle, vouched'),
           vouched.bundles \subseteq vouched'.bundles, vouched.makers \subseteq vouched'.makers,
           JobHolds(sealing, bundle, vouched', j)
    PROVE  SealingInv'
  <1>1. labour' = [v \in Sealers |-> IF v = w THEN j ELSE labour[v]]
    BY DEF Advance
  <1>2. ASSUME NEW v \in Sealers PROVE JobHolds(sealing', bundle', vouched', labour'[v])
    <2>1. CASE v = w
      BY <1>1, <2>1
    <2>2. CASE v # w
      <3>1. labour'[v] = labour[v] /\ JobHolds(sealing, bundle, vouched, labour[v])
        BY <1>1, <2>2 DEF SealingInv
      <3>2. JobTyped(bundle, vouched', labour[v])
        BY <3>1 DEF JobHolds, JobTyped
      <3> QED
        BY <3>1, <3>2 DEF JobHolds
    <2> QED
      BY <2>1, <2>2
  <1> QED
    BY <1>1, <1>2 DEF SealingInv

-----------------------------------------------------------------------------
(* The steps.                                                              *)

\* What a job becomes at its next stage.
SawAt(k, stage, saw) == [k EXCEPT !.stage = stage, !.saw = saw]
StageAt(k, stage) == [k EXCEPT !.stage = stage]
LeftAt(k, stage, left) == [k EXCEPT !.stage = stage, !.left = left]
WithLeft(k, left) == [k EXCEPT !.left = left]

LEMMA SawStage ==
    ASSUME NEW k, IsJob(k), NEW stage, NEW saw,
           NEW j, j = SawAt(k, stage, saw)
    PROVE  /\ IsJob(j) /\ j.op = k.op /\ j.stage = stage /\ j.saw = saw
           /\ j.key = k.key /\ j.left = k.left /\ j.undisturbed = k.undisturbed
  BY DEF JobKeys, IsJob, SawAt

LEMMA NewStage ==
    ASSUME NEW k, IsJob(k), NEW stage
    PROVE  LET j == StageAt(k, stage)
           IN  /\ IsJob(j) /\ j.op = k.op /\ j.stage = stage /\ j.saw = k.saw
               /\ j.key = k.key /\ j.left = k.left /\ j.undisturbed = k.undisturbed
  BY DEF JobKeys, IsJob, StageAt

LEMMA LeftStage ==
    ASSUME NEW k, IsJob(k), NEW stage, NEW left
    PROVE  LET j == LeftAt(k, stage, left)
           IN  /\ IsJob(j) /\ j.op = k.op /\ j.stage = stage /\ j.left = left
               /\ j.key = k.key /\ j.saw = k.saw /\ j.undisturbed = k.undisturbed
  BY DEF JobKeys, IsJob, LeftAt

LEMMA JobNow ==
    ASSUME SealingInv, NEW w \in Sealers
    PROVE  /\ JobTyped(bundle, vouched, labour[w])
           /\ labour[w].undisturbed => JobSees(sealing, bundle, labour[w])
           /\ IsJob(labour[w])
           /\ PackShape(sealing) /\ BundleShape(bundle)
           /\ Backed(sealing, bundle, vouched) /\ Intacts(sealing, bundle, fresh)
  BY DEF SealingInv, JobHolds, JobTyped

Started(op, stage) == [NoTask EXCEPT !.op = op, !.stage = stage]

LEMMA FirstStage ==
    ASSUME NEW s, NEW b, NEW v, NEW j, IsJob(j),
           (j.op = "seal" /\ j.stage = "hash") \/ (j.op = "sign" /\ j.stage = "manifest")
    PROVE  JobHolds(s, b, v, j)
  <1>1. JobTyped(b, v, j)
    BY DEF JobTyped, SignStages
  <1>2. JobSees(s, b, j)
    BY DEF JobSees, SignStages
  <1> QED
    BY <1>1, <1>2 DEF JobHolds

LEMMA BeginStep ==
    ASSUME SealingInv, NEW w \in Sealers, BeginSeal(w) \/ BeginSign(w) \/ BeginBundle(w)
    PROVE  SealingInv'
  <1>1. ASSUME NEW op, NEW stage, (op = "seal" /\ stage = "hash") \/ (op = "sign" /\ stage = "manifest"),
               BeginJob(w, Started(op, stage))
        PROVE  SealingInv'
    <2> DEFINE j == Started(op, stage)
    <2>1. j.op = op /\ j.stage = stage /\ IsJob(j)
      BY DEF NoTask, JobKeys, IsJob, Started
    <2>2. Advance(w, j, FALSE) /\ UNCHANGED <<sealing, bundle, vouched, fresh>>
      BY <1>1 DEF BeginJob
    <2> HIDE DEF j
    <2>3. op \in {"seal", "sign"} /\ (op = "seal" => stage = "hash") /\ (op = "sign" => stage = "manifest")
      BY <1>1
    <2>4. CASE op = "seal"
      BY <2>1, <2>2, <2>3, <2>4, FirstStage, ReadingStep
    <2>5. CASE op = "sign"
      BY <2>1, <2>2, <2>3, <2>5, FirstStage, ReadingStep
    <2> QED
      BY <2>3, <2>4, <2>5
  <1>2. ASSUME NEW key \in KeyPairs \cup {NoFile},
               BeginJob(w, [NoTask EXCEPT !.op = "bundle", !.stage = "copy", !.key = key, !.saw = bundle = NoBundle,
                                          !.left = Collected(sealing)])
        PROVE  SealingInv'
    <2> DEFINE j == [NoTask EXCEPT !.op = "bundle", !.stage = "copy", !.key = key, !.saw = bundle = NoBundle,
                                   !.left = Collected(sealing)]
    <2>1. /\ j.op = "bundle" /\ j.stage = "copy" /\ j.key = key /\ j.saw = (bundle = NoBundle)
          /\ j.left = Collected(sealing) /\ IsJob(j)
      BY DEF NoTask, JobKeys, IsJob
    <2>2. Advance(w, j, FALSE) /\ UNCHANGED <<sealing, bundle, vouched, fresh>>
      BY <1>2 DEF BeginJob
    <2> HIDE DEF j
    <2>3. j.left \in CopyLists /\ \A f \in Needed : f \in ToSet(j.left)
      BY <2>1, CollectedLists
    <2>4. JobTyped(bundle, vouched, j)
      <3>1. j.stage \notin ListStages /\ j.stage \notin {"seed", "rebuild", "sign"} /\ j.saw \in BOOLEAN
        BY <2>1 DEF ListStages
      <3> QED
        BY <2>1, <2>3, <3>1 DEF JobTyped
    <2>5. (j.saw = TRUE) => bundle = NoBundle
      BY <2>1
    <2>6. bundle = NoBundle => Copied(sealing, bundle, j.left) /\ bundle.signature = NoFile
      BY <2>1, CollectedLists, JobNow DEF NoBundle, Copied, PackShape, FileNames
    <2>7. JobSees(sealing, bundle, j)
      <3>1. j.stage \notin ListStages /\ j.stage \notin {"list", "rebuild", "final"}
        BY <2>1 DEF ListStages
      <3> QED
        BY <2>1, <2>5, <2>6, <3>1 DEF JobSees
    <2> QED
      BY <2>2, <2>4, <2>7, ReadingStep DEF JobHolds
  <1>3. CASE BeginSeal(w)
    <2>1. BeginJob(w, Started("seal", "hash"))
      BY <1>3 DEF BeginSeal, Started
    <2> QED
      BY <1>1, <2>1
  <1>4. CASE BeginSign(w)
    <2>1. BeginJob(w, Started("sign", "manifest"))
      BY <1>4 DEF BeginSign, Started
    <2> QED
      BY <1>1, <2>1
  <1>5. CASE BeginBundle(w)
    BY <1>2, <1>5 DEF BeginBundle
  <1> QED
    BY <1>3, <1>4, <1>5

LEMMA TakeHashStep ==
    ASSUME SealingInv, NEW w \in Sealers, TakeHash(w)
    PROVE  SealingInv'
  <1> DEFINE saw == [sealing.pack EXCEPT !.hash = ContentHash(sealing)]
  <1>1. PICK j : j = SawAt(labour[w], "metadata", saw) /\ Advance(w, j, FALSE)
    BY DEF TakeHash, SawAt
  <1>2. /\ labour[w].op = "seal" /\ sealing.pack \in PackJsons
        /\ UNCHANGED <<sealing, bundle, vouched, fresh>>
    BY JobNow DEF TakeHash, Stage, Keeps, PackShape
  <1>3. ContentHash(sealing) \in ContentHashes
    BY <1>2, HashesTyped, JobNow
  <1>4. saw \in PackJsons
    BY <1>2, <1>3 DEF PackJsons, PackForms
  <1>5. PICK x : x = saw
    OBVIOUS
  <1>6. /\ IsJob(j) /\ j.op = "seal" /\ j.stage = "metadata" /\ j.saw = x
    <2> HIDE DEF saw
    <2> QED
      BY <1>1, <1>2, <1>5, JobNow, SawStage
  <1>7. JobHolds(sealing, bundle, vouched, j)
    BY <1>2, <1>4, <1>5, <1>6 DEF JobHolds, JobTyped, JobSees
  <1> QED
    BY <1>1, <1>2, <1>7, ReadingStep

\* Backing and bundles do not depend on the pack's other files.
LEMMA BackedWith ==
    ASSUME SealingInv, NEW x, x.signature = sealing.signature \/ x.signature \in {NoFile, Cut}
    PROVE  Backed(x, bundle, vouched)
  <1>1. Backed(sealing, bundle, vouched)
    BY DEF SealingInv
  <1> QED
    BY <1>1 DEF Backed

LEMMA WriteHashStep ==
    ASSUME SealingInv, NEW w \in Sealers, WriteHash(w)
    PROVE  SealingInv'
  <1> DEFINE p == [labour[w].saw EXCEPT !.snapshot = sealing.claims]
  <1>0. PICK j : j = SawAt(labour[w], "manifest", << >>) /\ Advance(w, j, TRUE)
    BY DEF WriteHash, SawAt
  <1>1. /\ labour[w].op = "seal" /\ labour[w].stage = "metadata" /\ labour[w].saw \in PackJsons
        /\ sealing' = [sealing EXCEPT !.pack = p] /\ fresh' = {}
        /\ UNCHANGED <<bundle, vouched>>
    BY JobNow DEF WriteHash, Stage, Keeps, JobTyped
  <1>2. /\ IsJob(j) /\ j.op = "seal" /\ j.stage = "manifest"
        /\ j.undisturbed = labour[w].undisturbed
    BY <1>0, <1>1, JobNow, SawStage
  <1>3. p \in PackJsons /\ p.hash = labour[w].saw.hash /\ p.base = labour[w].saw.base
    BY <1>1, JobNow DEF PackJsons, PackForms, PackShape
  <1>4. /\ PackShape(sealing') /\ sealing'.pack = p /\ sealing'.signature = sealing.signature
        /\ sealing'.claims = sealing.claims /\ sealing'.provenance = sealing.provenance
    BY <1>1, <1>3, JobNow DEF PackShape
  <1> HIDE DEF p
  <1>5. ASSUME j.undisturbed PROVE p.hash = ContentHash(sealing')
    <2>1. sealing.pack \in PackJsons /\ labour[w].saw = [sealing.pack EXCEPT !.hash = ContentHash(sealing)]
      BY <1>1, <1>2, <1>5, JobNow DEF JobSees
    <2>2. labour[w].saw.hash = ContentHash(sealing) /\ labour[w].saw.base = sealing.pack.base
      BY <2>1 DEF PackJsons, PackForms
    <2> QED
      BY <1>3, <1>4, <2>2 DEF ContentHash
  <1>6. JobHolds(sealing', bundle', vouched', j)
    BY <1>2, <1>3, <1>4, <1>5 DEF JobHolds, JobTyped, JobSees
  <1>7. Backed(sealing', bundle', vouched') /\ Intacts(sealing', bundle', fresh')
    BY <1>1, <1>4, BackedWith DEF Intacts
  <1> QED
    BY <1>0, <1>1, <1>4, <1>6, <1>7, JobNow, WritingStep

LEMMA WriteSealManifestStep ==
    ASSUME SealingInv, NEW w \in Sealers, WriteSealManifest(w)
    PROVE  SealingInv'
  <1>0. PICK j : j = SawAt(labour[w], "root", HashedFiles(sealing)) /\ Advance(w, j, TRUE)
    BY DEF WriteSealManifest, SawAt
  <1>1. /\ labour[w].op = "seal" /\ labour[w].stage = "manifest" /\ sealing.pack \in PackJsons
        /\ sealing' = [sealing EXCEPT !.manifest = SealManifest(sealing)] /\ fresh' = {}
        /\ UNCHANGED <<bundle, vouched>>
    BY JobNow DEF WriteSealManifest, Stage, Keeps, PackShape
  <1>2. /\ IsJob(j) /\ j.op = "seal" /\ j.stage = "root" /\ j.saw = HashedFiles(sealing)
        /\ j.undisturbed = labour[w].undisturbed
    BY <1>0, <1>1, JobNow, SawStage
  <1>3. /\ PackShape(sealing') /\ sealing'.pack = sealing.pack /\ sealing'.signature = sealing.signature
        /\ sealing'.claims = sealing.claims /\ sealing'.provenance = sealing.provenance
        /\ sealing'.manifest = SealManifest(sealing)
    BY <1>1, JobNow DEF PackShape
  <1>4. ContentHash(sealing') = ContentHash(sealing) /\ HashedFiles(sealing') = HashedFiles(sealing)
    BY <1>3 DEF ContentHash, HashedFiles
  <1>5. SealManifest(sealing') = SealManifest(sealing)
    BY <1>4 DEF SealManifest
  <1>6. HashedFiles(sealing) \in FileHashes
    BY <1>1, HashesTyped, JobNow
  <1>7. j.undisturbed => sealing.pack.hash = ContentHash(sealing)
    BY <1>1, <1>2, JobNow DEF JobSees
  <1>8. JobHolds(sealing', bundle', vouched', j)
    BY <1>1, <1>2, <1>3, <1>4, <1>5, <1>6, <1>7 DEF JobHolds, JobTyped, JobSees
  <1>9. Backed(sealing', bundle', vouched') /\ Intacts(sealing', bundle', fresh')
    BY <1>1, <1>3, BackedWith DEF Intacts
  <1> QED
    BY <1>0, <1>1, <1>3, <1>8, <1>9, JobNow, WritingStep

LEMMA WriteRootStep ==
    ASSUME SealingInv, NEW w \in Sealers, WriteRoot(w)
    PROVE  SealingInv'
  <1> DEFINE p == [sealing.pack EXCEPT !.merkle = labour[w].saw]
  <1>1. /\ labour[w].op = "seal" /\ labour[w].stage = "root" /\ sealing.pack \in PackJsons
        /\ labour[w].saw \in FileHashes
        /\ sealing' = [sealing EXCEPT !.pack = p]
        /\ fresh' = IF labour[w].undisturbed THEN {"sealed"} ELSE {}
        /\ Advance(w, NoTask, TRUE) /\ UNCHANGED <<bundle, vouched>>
    BY JobNow DEF WriteRoot, Stage, Keeps, PackShape, JobTyped
  <1>2. /\ p \in PackJsons /\ p.merkle = labour[w].saw /\ p.hash = sealing.pack.hash
        /\ p.base = sealing.pack.base /\ p.snapshot = sealing.pack.snapshot
    BY <1>1 DEF PackJsons, PackForms
  <1>3. /\ PackShape(sealing') /\ sealing'.pack = p /\ sealing'.signature = sealing.signature
        /\ sealing'.claims = sealing.claims /\ sealing'.provenance = sealing.provenance
        /\ sealing'.manifest = sealing.manifest
    BY <1>1, <1>2, JobNow DEF PackShape
  <1> HIDE DEF p
  <1>4. ContentHash(sealing') = ContentHash(sealing) /\ HashedFiles(sealing') = HashedFiles(sealing)
    BY <1>1, <1>2, <1>3, HashesSame
  <1>5. labour[w].undisturbed => IsSealed(sealing')
    <2> SUFFICES ASSUME labour[w].undisturbed PROVE IsSealed(sealing')
      OBVIOUS
    <2>1. /\ sealing.pack.hash = ContentHash(sealing) /\ sealing.manifest = SealManifest(sealing)
          /\ labour[w].saw = HashedFiles(sealing)
      BY <1>1, JobNow DEF JobSees
    <2> QED
      BY <1>2, <1>3, <1>4, <2>1 DEF IsSealed, SealManifest
  <1>6. Backed(sealing', bundle', vouched') /\ Intacts(sealing', bundle', fresh')
    BY <1>1, <1>3, <1>5, BackedWith DEF Intacts
  <1> QED
    BY <1>1, <1>3, <1>6, JobNow, NoTaskHolds, WritingStep

LEMMA TakeManifestStep ==
    ASSUME SealingInv, NEW w \in Sealers, TakeManifest(w)
    PROVE  SealingInv'
  <1>1. PICK saw : saw = [merkle |-> HashedFiles(sealing)]
    OBVIOUS
  <1>2. PICK j : j = SawAt(labour[w], "hash", saw) /\ Advance(w, j, FALSE)
    BY <1>1 DEF TakeManifest, SawAt
  <1>3. /\ labour[w].op = "sign" /\ sealing.pack \in PackJsons
        /\ UNCHANGED <<sealing, bundle, vouched, fresh>>
    BY JobNow DEF TakeManifest, Stage, Keeps, PackShape
  <1>4. /\ IsJob(j) /\ j.op = "sign" /\ j.stage = "hash" /\ j.saw = saw
    BY <1>2, <1>3, JobNow, SawStage
  <1>5. HashedFiles(sealing) \in FileHashes /\ saw.merkle = HashedFiles(sealing)
    BY <1>1, <1>3, HashesTyped, JobNow
  <1>6. JobHolds(sealing, bundle, vouched, j)
    <2>1. j.stage \notin SignStages
      BY <1>4 DEF SignStages
    <2>2. JobTyped(bundle, vouched, j)
      BY <1>4, <1>5, <2>1 DEF JobTyped
    <2>3. JobSees(sealing, bundle, j)
      BY <1>4, <1>5, <2>1 DEF JobSees
    <2> QED
      BY <2>2, <2>3 DEF JobHolds
  <1> QED
    BY <1>2, <1>3, <1>6, ReadingStep

LEMMA TakeSignedHashStep ==
    ASSUME SealingInv, NEW w \in Sealers, TakeSignedHash(w)
    PROVE  SealingInv'
  <1>1. PICK saw : saw = [hash |-> ContentHash(sealing), merkle |-> labour[w].saw.merkle]
    OBVIOUS
  <1>2. PICK j : j = SawAt(labour[w], "key", saw) /\ Advance(w, j, FALSE)
    BY <1>1 DEF TakeSignedHash, SawAt
  <1>3. /\ labour[w].op = "sign" /\ labour[w].stage = "hash" /\ sealing.pack \in PackJsons
        /\ labour[w].saw.merkle \in FileHashes
        /\ UNCHANGED <<sealing, bundle, vouched, fresh>>
    BY JobNow DEF TakeSignedHash, Stage, Keeps, PackShape, JobTyped
  <1>4. /\ IsJob(j) /\ j.op = "sign" /\ j.stage = "key" /\ j.saw = saw
        /\ j.undisturbed = labour[w].undisturbed
    BY <1>2, <1>3, JobNow, SawStage
  <1>5. ContentHash(sealing) \in ContentHashes
    BY <1>3, HashesTyped, JobNow
  <1>6. saw \in Signed
    BY <1>1, <1>3, <1>5 DEF Signed
  <1>7. j.undisturbed => saw = SealedHash(sealing)
    BY <1>1, <1>3, <1>4, JobNow DEF JobSees, SealedHash
  <1>8. JobHolds(sealing, bundle, vouched, j)
    BY <1>4, <1>6, <1>7 DEF JobHolds, JobTyped, JobSees, SignStages
  <1> QED
    BY <1>2, <1>3, <1>8, ReadingStep

\* A job that goes on to a stage with the key it has or loads.
KeyAt(k, stage, key) == [k EXCEPT !.stage = stage, !.key = key]

\* The key is found or made beside the pack.
LEMMA KeyStep ==
    ASSUME SealingInv, KeysOK, NEW w \in Sealers,
           LoadKey(w) \/ MakeKey(w) \/ WritePrivateKey(w) \/ WritePublicKey(w)
    PROVE  SealingInv' /\ KeysOK'
  <1> DEFINE k == labour[w]
  <1>1. PICK stage, key : /\ Advance(w, KeyAt(k, stage, key), FALSE)
                         /\ \/ LoadKey(w) /\ stage = "write manifest" /\ key = keyFiles.private
                            \/ MakeKey(w) /\ stage = "private" /\ key = w
                            \/ WritePrivateKey(w) /\ stage = "public" /\ key = k.key
                            \/ WritePublicKey(w) /\ stage = "write manifest" /\ key = k.key
    <2>1. IsJob(k)
      BY JobNow
    <2>2. ASSUME NEW stage PROVE KeyAt(k, stage, k.key) = [k EXCEPT !.stage = stage]
      BY <2>1 DEF KeyAt, IsJob, JobKeys
    <2>3. CASE LoadKey(w)
      BY <2>3 DEF LoadKey, KeyAt
    <2>4. CASE MakeKey(w)
      BY <2>4 DEF MakeKey, KeyAt
    <2>5. CASE WritePrivateKey(w)
      BY <2>2, <2>5 DEF WritePrivateKey
    <2>6. CASE WritePublicKey(w)
      BY <2>2, <2>6 DEF WritePublicKey
    <2> QED
      BY <2>3, <2>4, <2>5, <2>6
  <1>2. PICK j : j = KeyAt(k, stage, key) /\ Advance(w, j, FALSE)
    BY <1>1
  <1>3. /\ k.op = "sign" /\ k.stage \in SignStages
        /\ UNCHANGED <<sealing, bundle, fresh>>
        /\ WritePrivateKey(w) => k.stage = "private"
        /\ WritePublicKey(w) => k.stage = "public"
        /\ vouched' = IF WritePrivateKey(w) THEN [vouched EXCEPT !.makers = @ \cup {k.key}] ELSE vouched
    BY <1>1 DEF LoadKey, MakeKey, WritePrivateKey, WritePublicKey, Stage, SignStages, Keeps
  <1>4. /\ IsJob(j) /\ j.op = "sign" /\ j.stage = stage /\ j.key = key
        /\ j.saw = k.saw /\ j.undisturbed = k.undisturbed
    <2>1. PICK i : i = labour[w] /\ IsJob(i) /\ j = KeyAt(i, stage, key)
      BY <1>2, JobNow
    <2>2. /\ IsJob(j) /\ j.op = i.op /\ j.stage = stage /\ j.key = key
          /\ j.saw = i.saw /\ j.undisturbed = i.undisturbed
      BY ONLY <2>1 DEF KeyAt, IsJob, JobKeys
    <2> QED
      BY <1>3, <2>1, <2>2
  <1>5. k.saw \in Signed /\ (k.stage = "private" => k.key \in Sealers) /\ (k.stage = "public" => k.key \in vouched.makers)
    BY <1>3, JobNow DEF JobTyped
  <1>6. j.undisturbed => k.saw = SealedHash(sealing)
    BY <1>3, <1>4, JobNow DEF JobSees
  <1>7. Backed(sealing, bundle, vouched)
    BY DEF SealingInv
  <1>8. /\ vouched'.bundles = vouched.bundles /\ vouched'.packs = vouched.packs /\ vouched'.crossed = vouched.crossed
        /\ vouched' = [packs |-> vouched'.packs, bundles |-> vouched'.bundles, makers |-> vouched'.makers,
                       crossed |-> vouched'.crossed]
        /\ vouched'.makers = IF WritePrivateKey(w) THEN vouched.makers \cup {k.key} ELSE vouched.makers
    <2>1. vouched = [packs |-> vouched.packs, bundles |-> vouched.bundles, makers |-> vouched.makers,
                     crossed |-> vouched.crossed]
      BY <1>7 DEF Backed
    <2> QED
      BY <1>3, <2>1
  <1>9. vouched.makers \subseteq vouched'.makers /\ vouched'.makers \subseteq Sealers
    BY <1>3, <1>5, <1>7, <1>8 DEF Backed
  <1>10. Backed(sealing, bundle, vouched')
    BY <1>7, <1>8, <1>9 DEF Backed
  <1>11. /\ stage = "private" => key \in Sealers
         /\ stage \in {"public", "write manifest", "signature"} => key \in vouched'.makers
    BY <1>1, <1>3, <1>5, <1>8, <1>9 DEF LoadKey, KeysOK
  <1>12. JobHolds(sealing, bundle, vouched', j)
    BY <1>1, <1>4, <1>5, <1>6, <1>11 DEF JobHolds, JobTyped, JobSees, SignStages
  <1>13. SealingInv'
    BY <1>2, <1>3, <1>8, <1>9, <1>10, <1>12, NotingStep
  <1>14. KeysOK'
    <2>1. \/ UNCHANGED keyFiles
          \/ keyFiles' = [keyFiles EXCEPT !.private = k.key] /\ k.key \in vouched'.makers
          \/ keyFiles' = [keyFiles EXCEPT !.public = k.key] /\ k.key \in vouched'.makers
      BY <1>1, <1>3, <1>5, <1>8 DEF LoadKey, MakeKey, WritePrivateKey, WritePublicKey, Keeps
    <2> QED
      BY <2>1, <1>9 DEF KeysOK
  <1> QED
    BY <1>13, <1>14

LEMMA WriteSignedManifestStep ==
    ASSUME SealingInv, NEW w \in Sealers, WriteSignedManifest(w)
    PROVE  SealingInv'
  <1>1. PICK j : j = StageAt(labour[w], "signature") /\ Advance(w, j, TRUE)
    BY DEF WriteSignedManifest, StageAt
  <1>2. /\ labour[w].op = "sign" /\ labour[w].stage = "write manifest" /\ labour[w].saw \in Signed
        /\ labour[w].key \in vouched.makers
        /\ sealing' = [sealing EXCEPT !.manifest = [kind |-> "seal", files |-> labour[w].saw.merkle]]
        /\ fresh' = IF labour[w].undisturbed THEN fresh ELSE {}
        /\ UNCHANGED <<bundle, vouched>>
    BY JobNow DEF WriteSignedManifest, Stage, Keeps, JobTyped, SignStages
  <1>3. /\ IsJob(j) /\ j.op = "sign" /\ j.stage = "signature" /\ j.saw = labour[w].saw /\ j.key = labour[w].key
        /\ j.undisturbed = labour[w].undisturbed
    <2>1. IsJob(labour[w]) /\ j = StageAt(labour[w], "signature")
      BY <1>1, JobNow
    <2> QED
      BY <1>2, <2>1, NewStage
  <1>4. /\ PackShape(sealing') /\ sealing'.pack = sealing.pack /\ sealing'.signature = sealing.signature
        /\ sealing'.claims = sealing.claims /\ sealing'.provenance = sealing.provenance
        /\ sealing'.extra = sealing.extra
        /\ sealing'.manifest = [kind |-> "seal", files |-> labour[w].saw.merkle]
    BY <1>2, JobNow DEF PackShape
  <1>5. ContentHash(sealing') = ContentHash(sealing) /\ HashedFiles(sealing') = HashedFiles(sealing)
    BY <1>4 DEF ContentHash, HashedFiles
  <1>6. labour[w].undisturbed => labour[w].saw = SealedHash(sealing) /\ sealing'.manifest = SealManifest(sealing)
    <2> SUFFICES ASSUME labour[w].undisturbed
                 PROVE  labour[w].saw = SealedHash(sealing) /\ sealing'.manifest = SealManifest(sealing)
      OBVIOUS
    <2>1. labour[w].saw = SealedHash(sealing)
      BY <1>2, JobNow DEF JobSees, SignStages
    <2>2. labour[w].saw.merkle = HashedFiles(sealing)
      BY <2>1 DEF SealedHash
    <2> QED
      BY <1>4, <2>1, <2>2 DEF SealManifest
  <1>7. JobHolds(sealing', bundle', vouched', j)
    BY <1>2, <1>3, <1>5, <1>6 DEF JobHolds, JobTyped, JobSees, SealedHash, SignStages
  <1>8. Intacts(sealing', bundle', fresh')
    <2> SUFFICES ASSUME labour[w].undisturbed PROVE Intacts(sealing', bundle, fresh)
      BY <1>2 DEF Intacts
    <2>1. Intacts(sealing, bundle, fresh)
      BY DEF SealingInv
    <2>2. IsSealed(sealing) => IsSealed(sealing')
      BY <1>4, <1>5, <1>6 DEF IsSealed, SealManifest
    <2>3. Copied(sealing, bundle, << >>) => Copied(sealing', bundle, << >>)
      BY <1>4 DEF Copied, FileNames
    <2> QED
      BY <1>4, <2>1, <2>2, <2>3 DEF Intacts
  <1>9. Backed(sealing', bundle', vouched')
    BY <1>2, <1>4, BackedWith
  <1> QED
    BY <1>1, <1>2, <1>4, <1>7, <1>8, <1>9, JobNow, WritingStep

LEMMA WriteSignatureStep ==
    ASSUME SealingInv, NEW w \in Sealers, WriteSignature(w)
    PROVE  SealingInv'
  <1>1. /\ labour[w].op = "sign" /\ labour[w].stage = "signature" /\ labour[w].saw \in Signed
        /\ labour[w].key \in vouched.makers
        /\ sealing' = [sealing EXCEPT !.signature = [of |-> labour[w].saw, key |-> labour[w].key]]
        /\ vouched' = [vouched EXCEPT !.packs = @ \cup {labour[w].saw}]
        /\ fresh' = IF labour[w].undisturbed /\ "sealed" \in fresh THEN fresh \cup {"signed"} ELSE {}
        /\ Advance(w, NoTask, TRUE) /\ UNCHANGED bundle
    BY JobNow DEF WriteSignature, Stage, JobTyped, SignStages
  <1>2. /\ PackShape(sealing') /\ sealing'.pack = sealing.pack /\ sealing'.signature = [of |-> labour[w].saw, key |-> labour[w].key]
        /\ sealing'.claims = sealing.claims /\ sealing'.provenance = sealing.provenance
        /\ sealing'.extra = sealing.extra /\ sealing'.manifest = sealing.manifest
    BY <1>1, JobNow DEF PackShape
  <1>3. Backed(sealing, bundle, vouched)
    BY DEF SealingInv
  <1>4. /\ vouched'.packs = vouched.packs \cup {labour[w].saw} /\ vouched'.bundles = vouched.bundles
        /\ vouched'.makers = vouched.makers /\ vouched'.crossed = vouched.crossed
        /\ vouched' = [packs |-> vouched'.packs, bundles |-> vouched'.bundles, makers |-> vouched'.makers,
                       crossed |-> vouched'.crossed]
    <2>1. vouched = [packs |-> vouched.packs, bundles |-> vouched.bundles, makers |-> vouched.makers,
                     crossed |-> vouched.crossed]
      BY <1>3 DEF Backed
    <2> QED
      BY <1>1, <2>1
  <1>5. /\ sealing'.signature \in Signatures
        /\ sealing'.signature.of = labour[w].saw /\ sealing'.signature.key = labour[w].key
    BY <1>1, <1>2, <1>3 DEF Signatures, Backed
  <1>8. Backed(sealing', bundle', vouched')
    BY <1>1, <1>3, <1>4, <1>5 DEF Backed
  <1>6. ContentHash(sealing') = ContentHash(sealing) /\ HashedFiles(sealing') = HashedFiles(sealing)
    BY <1>2 DEF ContentHash, HashedFiles
  <1>7. Intacts(sealing', bundle', fresh')
    <2> SUFFICES ASSUME labour[w].undisturbed, "sealed" \in fresh
                 PROVE  Intacts(sealing', bundle, fresh \cup {"signed"})
      BY <1>1 DEF Intacts
    <2>1. Intacts(sealing, bundle, fresh) /\ labour[w].saw = SealedHash(sealing)
      BY <1>1, JobNow DEF JobSees, SignStages
    <2>2. IsSealed(sealing)
      BY <2>1 DEF Intacts
    <2>3. IsSealed(sealing')
      BY <1>2, <1>6, <2>2 DEF IsSealed, SealManifest
    <2>4. sealing'.signature.of.hash = sealing'.pack.hash /\ sealing'.signature.of.merkle = sealing'.pack.merkle
      BY <1>2, <1>5, <2>1, <2>2 DEF IsSealed, SealedHash
    <2>5. Copied(sealing, bundle, << >>) => Copied(sealing', bundle, << >>)
      BY <1>2 DEF Copied, FileNames
    <2> QED
      BY <1>1, <1>2, <1>5, <2>1, <2>3, <2>4, <2>5 DEF Intacts
  <1> QED
    BY <1>1, <1>2, <1>4, <1>8, <1>7, JobNow, NoTaskHolds, WritingStep

LEMMA WriteManifestNowStep ==
    ASSUME SealingInv, NEW w \in Sealers, WriteManifestNow(w)
    PROVE  SealingInv'
  <1>1. PICK m : sealing' = [sealing EXCEPT !.manifest = m]
    BY DEF WriteManifestNow
  <1>2. fresh' = {} /\ Advance(w, NoTask, TRUE) /\ UNCHANGED <<bundle, vouched>>
    BY DEF WriteManifestNow
  <1>3. PackShape(sealing') /\ sealing'.signature = sealing.signature
    BY <1>1, JobNow DEF PackShape
  <1>4. Backed(sealing', bundle', vouched') /\ Intacts(sealing', bundle', fresh')
    BY <1>2, <1>3, BackedWith DEF Intacts
  <1> QED
    BY <1>2, <1>3, <1>4, JobNow, NoTaskHolds, WritingStep

\* A step that changes the pack or the bundle and ends what the process did,
\* as far as it keeps the bundle's files.
LEMMA SealerDiesStep ==
    ASSUME SealingInv, NEW w \in Sealers, SealerDies(w)
    PROVE  SealingInv'
  <1>1. fresh' = {} /\ Advance(w, NoTask, TRUE) /\ UNCHANGED vouched
    BY DEF SealerDies
  <1>2. \/ UNCHANGED <<sealing, bundle>>
        \/ sealing' = [sealing EXCEPT !.pack = Cut] /\ UNCHANGED bundle
        \/ sealing' = [sealing EXCEPT !.manifest = Cut] /\ UNCHANGED bundle
        \/ sealing' = [sealing EXCEPT !.signature = Cut] /\ UNCHANGED bundle
        \/ bundle' = [bundle EXCEPT !.manifest = Cut] /\ UNCHANGED sealing
        \/ bundle' = [bundle EXCEPT !.signature = Cut] /\ UNCHANGED sealing
        \/ (\E f : bundle' = [bundle EXCEPT !.files[f] = Cut]) /\ UNCHANGED sealing
    BY DEF SealerDies, CutWriting
  <1>3. PackShape(sealing') /\ sealing'.signature \in {sealing.signature, Cut}
    BY <1>2, JobNow DEF PackShape
  <1>4. /\ BundleShape(bundle') /\ \A f \in Needed : bundle.files[f] # NoFile => bundle'.files[f] # NoFile
        /\ bundle'.manifest \in {bundle.manifest, Cut} /\ bundle'.signature \in {bundle.signature, Cut}
    <2>1. BundleShape(bundle)
      BY JobNow
    <2>2. CASE \E f : bundle' = [bundle EXCEPT !.files[f] = Cut]
      <3>1. PICK f : bundle' = [bundle EXCEPT !.files[f] = Cut]
        BY <2>2
      <3>2. Cut \in FileForms /\ Cut # NoFile
        BY MissingIsNothing DEF FileForms
      <3>3. bundle'.files = [bundle.files EXCEPT ![f] = Cut] /\ bundle' = [g \in {"files", "manifest", "signature"} |-> bundle'[g]]
        BY <2>1, <3>1 DEF BundleShape
      <3>4. bundle'.files \in [FileNames -> {NoFile} \cup FileForms]
        BY <2>1, <3>2, <3>3 DEF BundleShape
      <3>5. \A g \in FileNames : bundle.files[g] # NoFile => bundle'.files[g] # NoFile
        BY <2>1, <3>2, <3>3 DEF BundleShape
      <3>6. bundle'.manifest = bundle.manifest /\ bundle'.signature = bundle.signature
        BY <2>1, <3>1 DEF BundleShape
      <3> QED
        BY <3>3, <3>4, <3>5, <3>6 DEF BundleShape, Needed, FileNames
    <2>3. CASE ~\E f : bundle' = [bundle EXCEPT !.files[f] = Cut]
      BY <1>2, <2>1, <2>3 DEF BundleShape
    <2> QED
      BY <2>2, <2>3
  <1>5. Backed(sealing, bundle, vouched)
    BY DEF SealingInv
  <1>6. Backed(sealing', bundle', vouched')
    BY <1>1, <1>3, <1>4, <1>5 DEF Backed
  <1>7. Intacts(sealing', bundle', fresh')
    BY <1>1 DEF Intacts
  <1> QED
    BY <1>1, <1>3, <1>4, <1>6, <1>7, NoTaskHolds, WritingStep

LEMMA RefusedStep ==
    ASSUME SealingInv, NEW w \in Sealers, Refused(w)
    PROVE  SealingInv'
  <1>1. Advance(w, NoTask, FALSE) /\ UNCHANGED <<sealing, bundle, vouched, fresh>>
    BY DEF Refused
  <1> QED
    BY <1>1, NoTaskHolds, ReadingStep

-----------------------------------------------------------------------------
(* The bundle.                                                             *)

LEMMA FilesTyped ==
    ASSUME NEW s, PackShape(s), NEW f \in FileNames
    PROVE  s[f] \in {NoFile} \cup FileForms
  BY DEF PackShape, FileNames, FileForms, FileTexts

\* What a process that makes a bundle has done.
LEMMA Bundling ==
    ASSUME SealingInv, NEW w \in Sealers, labour[w].op = "bundle"
    PROVE  /\ labour[w].key \in KeyPairs \cup {NoFile} /\ labour[w].saw \in BOOLEAN
           /\ labour[w].stage = "copy" => labour[w].left \in CopyLists
           /\ \A f \in Needed : bundle.files[f] # NoFile
                \/ (labour[w].stage = "copy" /\ f \in ToSet(labour[w].left))
           /\ labour[w].stage \in {"seed", "rebuild"} => Needed \subseteq DOMAIN labour[w].left
           /\ labour[w].stage \in ListStages =>
                /\ IsListing(labour[w].left)
                /\ [key |-> NoFile, listing |-> labour[w].left] \in vouched.bundles
           /\ labour[w].stage = "sign" => labour[w].key # NoFile
           /\ IsJob(labour[w])
  BY JobNow DEF JobTyped

\* While nobody wrote and it began with an empty directory.
Copying(w) ==
    /\ labour[w].stage = "copy" => Copied(sealing, bundle, labour[w].left)
    /\ labour[w].stage \in {"list"} \cup ListStages => Copied(sealing, bundle, << >>)
    /\ labour[w].stage # "final" => bundle.signature = NoFile
    /\ labour[w].stage \in ListStages => labour[w].left = Listing(bundle.files, Present(bundle.files))
    /\ labour[w].stage = "rebuild" => bundle.manifest = labour[w].left
    /\ labour[w].stage = "final" =>
         bundle.signature = IF labour[w].key = NoFile THEN NoFile
                            ELSE [key |-> labour[w].key, payload |-> labour[w].left]

LEMMA BundlingAlone ==
    ASSUME SealingInv, NEW w \in Sealers, labour[w].op = "bundle", labour[w].undisturbed, labour[w].saw = TRUE
    PROVE  Copying(w)
  <1>1. JobSees(sealing, bundle, labour[w])
    BY JobNow
  <1> QED
    BY <1>1 DEF JobSees, Copying

\* What a pack without a bundle is said to be stays.
LEMMA Unbundled ==
    ASSUME SealingInv, NEW b
    PROVE  Intacts(sealing, b, fresh \ {"bundled"})
  <1>1. Intacts(sealing, bundle, fresh)
    BY DEF SealingInv
  <1> QED
    BY <1>1 DEF Intacts

LEMMA CopyIntoStep ==
    ASSUME SealingInv, NEW w \in Sealers, CopyInto(w)
    PROVE  SealingInv'
  <1>1. PICK q : q = labour[w].left
    OBVIOUS
  <1>2. PICK j : j = WithLeft(labour[w], Tail(q)) /\ Advance(w, j, TRUE)
    BY <1>1 DEF CopyInto, WithLeft
  <1>3. /\ labour[w].op = "bundle" /\ labour[w].stage = "copy" /\ q # << >> /\ sealing[Head(q)] # NoFile
        /\ bundle' = [bundle EXCEPT !.files[Head(q)] = sealing[Head(q)]]
        /\ fresh' = fresh \ {"bundled"} /\ UNCHANGED <<sealing, vouched>>
    BY <1>1 DEF CopyInto, Stage, KeepsPack
  <1>4. /\ q \in CopyLists /\ Tail(q) \in CopyLists /\ Head(q) \in FileNames
        /\ ToSet(q) = {Head(q)} \cup ToSet(Tail(q)) /\ Head(q) \notin ToSet(Tail(q))
    BY <1>1, <1>3, Bundling, CopyListSteps
  <1>5. IsJob(j) /\ j.op = "bundle" /\ j.stage = "copy" /\ j.left = Tail(q)
        /\ j.key = labour[w].key /\ j.saw = labour[w].saw /\ j.undisturbed = labour[w].undisturbed
    <2>1. IsJob(labour[w]) /\ j = WithLeft(labour[w], Tail(q))
      BY <1>2, JobNow
    <2>2. PICK k : k = labour[w] /\ IsJob(k) /\ j = WithLeft(k, Tail(q))
      BY <2>1
    <2>3. /\ IsJob(j) /\ j.op = k.op /\ j.stage = k.stage /\ j.left = Tail(q)
          /\ j.key = k.key /\ j.saw = k.saw /\ j.undisturbed = k.undisturbed
      BY ONLY <2>2 DEF WithLeft, IsJob, JobKeys
    <2> QED
      BY <1>3, <2>2, <2>3
  <1>6. PICK f0 \in FileNames : f0 = Head(q)
    BY <1>4
  <1>7. PICK x \in FileForms : x = sealing[f0]
    BY <1>3, <1>6, FilesTyped, JobNow
  <1>8. x # NoFile /\ bundle' = [bundle EXCEPT !.files[f0] = x]
    BY <1>3, <1>6, <1>7
  <1>9. BundleShape(bundle)
    BY JobNow
  <1>10. /\ BundleShape(bundle') /\ bundle'.manifest = bundle.manifest /\ bundle'.signature = bundle.signature
         /\ \A f \in FileNames : bundle'.files[f] = IF f = f0 THEN x ELSE bundle.files[f]
    BY <1>7, <1>8, <1>9 DEF BundleShape
  <1>11. \A f \in FileNames : bundle.files[f] # NoFile => bundle'.files[f] # NoFile
    BY <1>8, <1>10
  <1>12. \A f \in Needed : f \in FileNames
    BY DEF Needed, FileNames
  <1>13. \A f \in Needed : bundle'.files[f] # NoFile \/ f \in ToSet(Tail(q))
    <2> SUFFICES ASSUME NEW f \in Needed, f \notin ToSet(Tail(q)) PROVE bundle'.files[f] # NoFile
      OBVIOUS
    <2>1. bundle.files[f] # NoFile \/ f \in ToSet(q)
      BY <1>1, <1>3, Bundling
    <2> QED
      BY <2>1, <1>4, <1>6, <1>8, <1>10, <1>11, <1>12
  <1>14. JobTyped(bundle', vouched', j)
    <2>1. labour[w].key \in KeyPairs \cup {NoFile} /\ labour[w].saw \in BOOLEAN
      BY <1>3, Bundling
    <2> QED
      BY <1>4, <1>5, <1>13, <2>1 DEF JobTyped, ListStages
  <1>15. j.undisturbed => JobSees(sealing', bundle', j)
    <2> SUFFICES ASSUME j.undisturbed, j.saw = TRUE
                 PROVE  Copied(sealing, bundle', Tail(q)) /\ bundle'.signature = NoFile
      BY <1>3, <1>5 DEF JobSees, ListStages
    <2>1. Copied(sealing, bundle, q) /\ bundle.signature = NoFile
      BY <1>1, <1>3, <1>5, BundlingAlone DEF Copying
    <2>2. \A f \in FileNames : bundle'.files[f] = IF f \in ToSet(Tail(q)) THEN NoFile ELSE sealing[f]
      BY <2>1, <1>4, <1>6, <1>7, <1>10 DEF Copied
    <2> QED
      BY <2>1, <2>2, <1>10 DEF Copied
  <1>16. Backed(sealing, bundle, vouched)
    BY DEF SealingInv
  <1>17. Backed(sealing', bundle', vouched')
    BY <1>3, <1>10, <1>16 DEF Backed
  <1>18. Intacts(sealing', bundle', fresh')
    BY <1>3, Unbundled
  <1>19. JobHolds(sealing', bundle', vouched', j) /\ PackShape(sealing')
    BY <1>3, <1>14, <1>15, JobNow DEF JobHolds
  <1> QED
    BY <1>2, <1>3, <1>10, <1>11, <1>12, <1>17, <1>18, <1>19, WritingStep

LEMMA WriteScaffoldStep ==
    ASSUME SealingInv, NEW w \in Sealers, WriteScaffold(w)
    PROVE  SealingInv'
  <1>1. PICK j : j = StageAt(labour[w], "list") /\ Advance(w, j, TRUE)
    BY DEF WriteScaffold, StageAt
  <1>2. /\ labour[w].op = "bundle" /\ labour[w].stage = "copy" /\ labour[w].left = << >>
        /\ bundle' = [bundle EXCEPT !.manifest = NoFiles]
        /\ fresh' = fresh \ {"bundled"} /\ UNCHANGED <<sealing, vouched>>
    BY DEF WriteScaffold, Stage, KeepsPack
  <1>3. /\ IsJob(j) /\ j.op = "bundle" /\ j.stage = "list"
        /\ j.key = labour[w].key /\ j.saw = labour[w].saw /\ j.undisturbed = labour[w].undisturbed
    BY <1>1, <1>2, JobNow, NewStage
  <1>4. BundleShape(bundle) /\ Backed(sealing, bundle, vouched)
    BY DEF SealingInv
  <1>5. /\ BundleShape(bundle') /\ bundle'.files = bundle.files
        /\ bundle'.manifest = NoFiles /\ bundle'.signature = bundle.signature
    BY <1>2, <1>4 DEF BundleShape
  <1>6. ToSet(<< >>) = {}
    BY DEF ToSet
  <1>7. JobTyped(bundle', vouched', j)
    <2>1. labour[w].key \in KeyPairs \cup {NoFile} /\ labour[w].saw \in BOOLEAN
      BY <1>2, Bundling
    <2>2. \A f \in Needed : bundle.files[f] # NoFile
      BY <1>2, <1>6, Bundling
    <2> QED
      BY <1>3, <1>5, <2>1, <2>2 DEF JobTyped, ListStages
  <1>8. j.undisturbed => JobSees(sealing', bundle', j)
    <2> SUFFICES ASSUME j.undisturbed, j.saw = TRUE
                 PROVE  Copied(sealing, bundle', << >>) /\ bundle'.signature = NoFile
      BY <1>2, <1>3 DEF JobSees, ListStages
    <2>1. Copied(sealing, bundle, << >>) /\ bundle.signature = NoFile
      BY <1>2, <1>3, BundlingAlone DEF Copying
    <2> QED
      BY <2>1, <1>5 DEF Copied
  <1>9. Backed(sealing', bundle', vouched')
    BY <1>2, <1>4, <1>5 DEF Backed
  <1>10. Intacts(sealing', bundle', fresh')
    BY <1>2, Unbundled
  <1>11. JobHolds(sealing', bundle', vouched', j) /\ PackShape(sealing')
    BY <1>2, <1>7, <1>8, JobNow DEF JobHolds
  <1> QED
    BY <1>1, <1>2, <1>5, <1>9, <1>10, <1>11, WritingStep

\* A listing of what is in the bundle joins those vouched for.
WithListing(v, key, l) == [v EXCEPT !.bundles = @ \cup {[key |-> key, listing |-> l]}]

LEMMA Vouching ==
    ASSUME NEW s, NEW b, NEW v, Backed(s, b, v), NEW key, NEW l,
           Needed \subseteq DOMAIN l \/ (l = NoFiles /\ v.crossed)
    PROVE  LET u == WithListing(v, key, l)
           IN  /\ Backed(s, b, u) /\ v.bundles \subseteq u.bundles /\ u.makers = v.makers
               /\ [key |-> key, listing |-> l] \in u.bundles
  <1> DEFINE u == WithListing(v, key, l)
  <1>1. /\ u = [packs |-> u.packs, bundles |-> u.bundles, makers |-> u.makers, crossed |-> u.crossed]
        /\ u.packs = v.packs /\ u.makers = v.makers /\ u.crossed = v.crossed
        /\ u.bundles = v.bundles \cup {[key |-> key, listing |-> l]}
    <2>1. v = [packs |-> v.packs, bundles |-> v.bundles, makers |-> v.makers, crossed |-> v.crossed]
      BY DEF Backed
    <2> QED
      BY ONLY <2>1 DEF WithListing
  <1> HIDE DEF u
  <1>2. Backed(s, b, u) /\ v.bundles \subseteq u.bundles /\ [key |-> key, listing |-> l] \in u.bundles
    BY <1>1 DEF Backed
  <1> QED
    BY <1>1, <1>2 DEF u

LEMMA HashBundleStep ==
    ASSUME SealingInv, NEW w \in Sealers, HashBundle(w)
    PROVE  SealingInv'
  <1>1. PICK l : l = Listing(bundle.files, Present(bundle.files))
    OBVIOUS
  <1>2. PICK j : j = LeftAt(labour[w], "seed", l) /\ Advance(w, j, FALSE)
    BY <1>1 DEF HashBundle, LeftAt
  <1>3. /\ labour[w].op = "bundle" /\ labour[w].stage = "list"
        /\ vouched' = WithListing(vouched, NoFile, l)
        /\ UNCHANGED <<sealing, bundle, fresh>>
    BY <1>1 DEF HashBundle, Stage, KeepsPack, WithListing
  <1>4. /\ IsJob(j) /\ j.op = "bundle" /\ j.stage = "seed" /\ j.left = l
        /\ j.key = labour[w].key /\ j.saw = labour[w].saw /\ j.undisturbed = labour[w].undisturbed
    BY <1>2, <1>3, JobNow, LeftStage
  <1>5. BundleShape(bundle) /\ Backed(sealing, bundle, vouched)
    BY DEF SealingInv
  <1>6. /\ \A f \in Needed : bundle.files[f] # NoFile
        /\ labour[w].key \in KeyPairs \cup {NoFile} /\ labour[w].saw \in BOOLEAN
    BY <1>3, Bundling
  <1>7. IsListing(l) /\ Needed \subseteq DOMAIN l
    BY <1>1, <1>5, <1>6, ListingOfFiles
  <1>8. /\ Backed(sealing, bundle, vouched') /\ vouched.bundles \subseteq vouched'.bundles
        /\ vouched'.makers = vouched.makers /\ [key |-> NoFile, listing |-> l] \in vouched'.bundles
    BY <1>3, <1>5, <1>7, Vouching
  <1>9. JobTyped(bundle, vouched', j)
    BY <1>4, <1>6, <1>7, <1>8 DEF JobTyped, ListStages
  <1>10. j.undisturbed => JobSees(sealing, bundle, j)
    <2> SUFFICES ASSUME j.undisturbed, j.saw = TRUE
                 PROVE  Copied(sealing, bundle, << >>) /\ bundle.signature = NoFile
      BY <1>1, <1>4 DEF JobSees, ListStages
    <2> QED
      BY <1>3, <1>4, BundlingAlone DEF Copying
  <1> QED
    BY <1>2, <1>3, <1>8, <1>9, <1>10, NotingStep DEF JobHolds

LEMMA WriteListingStep ==
    ASSUME SealingInv, NEW w \in Sealers, WriteListing(w)
    PROVE  SealingInv'
  <1>1. PICK l : l = labour[w].left
    OBVIOUS
  <1>2. PICK j : j = StageAt(labour[w], "rebuild") /\ Advance(w, j, TRUE)
    BY DEF WriteListing, StageAt
  <1>3. /\ labour[w].op = "bundle" /\ labour[w].stage = "seed"
        /\ bundle' = [bundle EXCEPT !.manifest = l]
        /\ fresh' = fresh \ {"bundled"} /\ UNCHANGED <<sealing, vouched>>
    BY <1>1 DEF WriteListing, Stage, KeepsPack
  <1>4. /\ IsJob(j) /\ j.op = "bundle" /\ j.stage = "rebuild" /\ j.left = l
        /\ j.key = labour[w].key /\ j.saw = labour[w].saw /\ j.undisturbed = labour[w].undisturbed
    BY <1>1, <1>2, <1>3, JobNow, NewStage
  <1>5. BundleShape(bundle) /\ Backed(sealing, bundle, vouched)
    BY DEF SealingInv
  <1>6. /\ BundleShape(bundle') /\ bundle'.files = bundle.files
        /\ bundle'.manifest = l /\ bundle'.signature = bundle.signature
    BY <1>3, <1>5 DEF BundleShape
  <1>7. /\ \A f \in Needed : bundle.files[f] # NoFile
        /\ IsListing(l) /\ Needed \subseteq DOMAIN l /\ [key |-> NoFile, listing |-> l] \in vouched.bundles
        /\ labour[w].key \in KeyPairs \cup {NoFile} /\ labour[w].saw \in BOOLEAN
    BY <1>1, <1>3, Bundling DEF ListStages
  <1>8. Backed(sealing', bundle', vouched')
    BY <1>3, <1>5, <1>6, <1>7 DEF Backed
  <1>9. JobTyped(bundle', vouched', j)
    BY <1>3, <1>4, <1>6, <1>7 DEF JobTyped, ListStages
  <1>10. j.undisturbed => JobSees(sealing', bundle', j)
    <2> SUFFICES ASSUME j.undisturbed, j.saw = TRUE
                 PROVE  /\ Copied(sealing, bundle', << >>) /\ bundle'.signature = NoFile
                        /\ l = Listing(bundle'.files, Present(bundle'.files))
      BY <1>3, <1>4, <1>6 DEF JobSees, ListStages
    <2>1. /\ Copied(sealing, bundle, << >>) /\ bundle.signature = NoFile
          /\ l = Listing(bundle.files, Present(bundle.files))
      BY <1>1, <1>3, <1>4, BundlingAlone DEF Copying, ListStages
    <2> QED
      BY <2>1, <1>6 DEF Copied
  <1>11. Intacts(sealing', bundle', fresh')
    BY <1>3, Unbundled
  <1>12. JobHolds(sealing', bundle', vouched', j) /\ PackShape(sealing')
    BY <1>3, <1>9, <1>10, JobNow DEF JobHolds
  <1> QED
    BY <1>2, <1>3, <1>6, <1>8, <1>11, <1>12, WritingStep

\* What is there of the files in a manifest: all that is needed, or the
\* manifest is another's that lists none.
LEMMA ListingReadBack ==
    ASSUME NEW s, NEW b, NEW v, BundleShape(b), Backed(s, b, v), b.manifest \notin {NoFile, Cut},
           \A f \in Needed : b.files[f] # NoFile
    PROVE  LET l == Listing(b.files, DOMAIN b.manifest)
           IN  IsListing(l) /\ (Needed \subseteq DOMAIN l \/ (l = NoFiles /\ b.manifest = NoFiles))
  <1> DEFINE l == Listing(b.files, DOMAIN b.manifest)
  <1>1. DOMAIN l = DOMAIN b.manifest \cap Present(b.files) /\ IsListing(l)
    BY DEF BundleShape, Listing, Present, IsListing, FileNames
  <1>2. CASE b.manifest = NoFiles
    <2>1. DOMAIN b.manifest = {}
      BY <1>2 DEF NoFiles
    <2>2. l = NoFiles
      BY <1>1, <2>1 DEF NoFiles, Listing
    <2> QED
      BY <1>1, <1>2, <2>2
  <1>3. CASE b.manifest # NoFiles
    <2>1. PICK x \in v.bundles : x = [key |-> NoFile, listing |-> b.manifest]
      BY <1>3 DEF Backed
    <2>2. Needed \subseteq DOMAIN b.manifest
      BY <1>3, <2>1 DEF Backed
    <2>3. Needed \subseteq Present(b.files)
      BY DEF Present, BundleShape, Needed, FileNames
    <2> QED
      BY <1>1, <2>2, <2>3
  <1> QED
    BY <1>2, <1>3

LEMMA RebuildListingStep ==
    ASSUME SealingInv, NEW w \in Sealers, RebuildListing(w)
    PROVE  SealingInv'
  <1>1. PICK l : l = Listing(bundle.files, DOMAIN bundle.manifest)
    OBVIOUS
  <1>2. PICK stage : stage = IF labour[w].key # NoFile THEN "sign" ELSE "final"
    OBVIOUS
  <1>3. PICK j : j = LeftAt(labour[w], stage, l) /\ Advance(w, j, FALSE)
    BY <1>1, <1>2 DEF RebuildListing, LeftAt
  <1> DEFINE crossed == vouched.crossed \/ bundle.manifest # labour[w].left
             v == [vouched EXCEPT !.crossed = crossed]
  <1>4. /\ labour[w].op = "bundle" /\ labour[w].stage = "rebuild" /\ bundle.manifest \notin {NoFile, Cut}
        /\ vouched' = [vouched EXCEPT !.bundles = @ \cup {[key |-> NoFile, listing |-> l]}, !.crossed = crossed]
        /\ UNCHANGED <<sealing, bundle, fresh>>
    BY <1>1 DEF RebuildListing, Stage, KeepsPack
  <1>5. /\ IsJob(j) /\ j.op = "bundle" /\ j.stage = stage /\ j.left = l
        /\ j.key = labour[w].key /\ j.saw = labour[w].saw /\ j.undisturbed = labour[w].undisturbed
    BY <1>3, <1>4, JobNow, LeftStage
  <1>6. BundleShape(bundle) /\ Backed(sealing, bundle, vouched)
    BY DEF SealingInv
  <1>7. /\ \A f \in Needed : bundle.files[f] # NoFile
        /\ Needed \subseteq DOMAIN labour[w].left
        /\ labour[w].key \in KeyPairs \cup {NoFile} /\ labour[w].saw \in BOOLEAN
    BY <1>4, Bundling
  <1>8. IsListing(l) /\ (Needed \subseteq DOMAIN l \/ (l = NoFiles /\ bundle.manifest = NoFiles))
    BY <1>1, <1>4, <1>6, <1>7, ListingReadBack
  <1>9. bundle.manifest = NoFiles => crossed
    BY <1>7 DEF NoFiles, Needed
  <1>10. /\ v = [packs |-> v.packs, bundles |-> v.bundles, makers |-> v.makers, crossed |-> v.crossed]
         /\ v.packs = vouched.packs /\ v.bundles = vouched.bundles /\ v.makers = vouched.makers
         /\ v.crossed = crossed
         /\ vouched' = WithListing(v, NoFile, l)
    <2>1. vouched = [packs |-> vouched.packs, bundles |-> vouched.bundles, makers |-> vouched.makers,
                     crossed |-> vouched.crossed]
      BY <1>6 DEF Backed
    <2> HIDE DEF crossed
    <2>2. /\ v = [packs |-> v.packs, bundles |-> v.bundles, makers |-> v.makers, crossed |-> v.crossed]
          /\ v.packs = vouched.packs /\ v.bundles = vouched.bundles /\ v.makers = vouched.makers
          /\ v.crossed = crossed
      BY <2>1
    <2>3. vouched' = [packs |-> vouched.packs, bundles |-> vouched.bundles \cup {[key |-> NoFile, listing |-> l]},
                      makers |-> vouched.makers, crossed |-> crossed]
      BY <1>4, <2>1
    <2>4. WithListing(v, NoFile, l) =
            [packs |-> v.packs, bundles |-> v.bundles \cup {[key |-> NoFile, listing |-> l]},
             makers |-> v.makers, crossed |-> v.crossed]
      <3> HIDE DEF v
      <3> QED
        BY <2>2 DEF WithListing
    <2> HIDE DEF v
    <2> QED
      BY <2>2, <2>3, <2>4
  <1>11. crossed \in BOOLEAN /\ (vouched.crossed => crossed)
    BY <1>6 DEF Backed
  <1> HIDE DEF crossed, v
  <1>12. Backed(sealing, bundle, v)
    BY <1>6, <1>10, <1>11 DEF Backed
  <1>13. Needed \subseteq DOMAIN l \/ (l = NoFiles /\ v.crossed)
    BY <1>8, <1>9, <1>10
  <1>14. /\ Backed(sealing, bundle, vouched') /\ vouched.bundles \subseteq vouched'.bundles
         /\ vouched'.makers = vouched.makers /\ [key |-> NoFile, listing |-> l] \in vouched'.bundles
    <2>1. /\ Backed(sealing, bundle, WithListing(v, NoFile, l))
          /\ v.bundles \subseteq WithListing(v, NoFile, l).bundles
          /\ WithListing(v, NoFile, l).makers = v.makers
          /\ [key |-> NoFile, listing |-> l] \in WithListing(v, NoFile, l).bundles
      BY <1>12, <1>13, Vouching
    <2> QED
      BY <1>10, <2>1
  <1>15. JobTyped(bundle, vouched', j)
    BY <1>2, <1>5, <1>7, <1>8, <1>14 DEF JobTyped, ListStages
  <1>16. j.undisturbed => JobSees(sealing, bundle, j)
    <2> SUFFICES ASSUME j.undisturbed, j.saw = TRUE
                 PROVE  /\ Copied(sealing, bundle, << >>) /\ bundle.signature = NoFile
                        /\ l = Listing(bundle.files, Present(bundle.files))
      BY <1>2, <1>5 DEF JobSees, ListStages
    <2>1. /\ Copied(sealing, bundle, << >>) /\ bundle.signature = NoFile
          /\ bundle.manifest = Listing(bundle.files, Present(bundle.files))
      BY <1>4, <1>5, BundlingAlone DEF Copying, ListStages
    <2>2. l = bundle.manifest
      BY <1>1, <1>6, <2>1, ListingOfFiles
    <2> QED
      BY <2>1, <2>2
  <1> QED
    BY <1>3, <1>4, <1>14, <1>15, <1>16, NotingStep DEF JobHolds

LEMMA SignListingStep ==
    ASSUME SealingInv, NEW w \in Sealers, SignListing(w)
    PROVE  SealingInv'
  <1>1. PICK l : l = labour[w].left
    OBVIOUS
  <1>2. PICK key : key = labour[w].key
    OBVIOUS
  <1>3. PICK j : j = StageAt(labour[w], "final") /\ Advance(w, j, TRUE)
    BY DEF SignListing, StageAt
  <1>4. /\ labour[w].op = "bundle" /\ labour[w].stage = "sign"
        /\ bundle' = [bundle EXCEPT !.signature = [key |-> key, payload |-> l]]
        /\ vouched' = WithListing(vouched, key, l)
        /\ fresh' = fresh \ {"bundled"} /\ UNCHANGED sealing
    BY <1>1, <1>2 DEF SignListing, Stage, KeepsPack, Payload, WithListing
  <1>5. /\ IsJob(j) /\ j.op = "bundle" /\ j.stage = "final" /\ j.left = l
        /\ j.key = key /\ j.saw = labour[w].saw /\ j.undisturbed = labour[w].undisturbed
    BY <1>1, <1>2, <1>3, <1>4, JobNow, NewStage
  <1>6. BundleShape(bundle) /\ Backed(sealing, bundle, vouched)
    BY DEF SealingInv
  <1>7. /\ BundleShape(bundle') /\ bundle'.files = bundle.files
        /\ bundle'.manifest = bundle.manifest /\ bundle'.signature = [key |-> key, payload |-> l]
    BY <1>4, <1>6 DEF BundleShape
  <1>8. /\ IsListing(l) /\ [key |-> NoFile, listing |-> l] \in vouched.bundles /\ key # NoFile
        /\ key \in KeyPairs \cup {NoFile} /\ labour[w].saw \in BOOLEAN
    BY <1>1, <1>2, <1>4, Bundling DEF ListStages
  <1>9. Needed \subseteq DOMAIN l \/ (l = NoFiles /\ vouched.crossed)
    <2>1. PICK x \in vouched.bundles : x = [key |-> NoFile, listing |-> l]
      BY <1>8
    <2> QED
      BY <1>6, <2>1 DEF Backed
  <1>10. /\ Backed(sealing, bundle, vouched') /\ vouched.bundles \subseteq vouched'.bundles
         /\ vouched'.makers = vouched.makers
         /\ [key |-> key, listing |-> l] \in vouched'.bundles
    BY <1>4, <1>6, <1>9, Vouching
  <1>11. bundle'.signature.key = key /\ bundle'.signature.payload = l
    BY <1>7
  <1>12. Backed(sealing', bundle', vouched')
    BY <1>4, <1>7, <1>10, <1>11 DEF Backed
  <1>13. JobTyped(bundle', vouched', j)
    <2>1. \A f \in Needed : bundle'.files[f] # NoFile
      BY <1>4, <1>7, Bundling
    <2> QED
      BY <1>5, <1>8, <1>10, <2>1 DEF JobTyped, ListStages
  <1>14. j.undisturbed => JobSees(sealing', bundle', j)
    <2> SUFFICES ASSUME j.undisturbed, j.saw = TRUE
                 PROVE  /\ Copied(sealing, bundle', << >>) /\ bundle'.signature = [key |-> key, payload |-> l]
                        /\ l = Listing(bundle'.files, Present(bundle'.files))
      BY <1>4, <1>5, <1>8 DEF JobSees, ListStages
    <2>1. Copied(sealing, bundle, << >>) /\ l = Listing(bundle.files, Present(bundle.files))
      BY <1>1, <1>4, <1>5, BundlingAlone DEF Copying, ListStages
    <2> QED
      BY <2>1, <1>7 DEF Copied
  <1>15. Intacts(sealing', bundle', fresh')
    BY <1>4, Unbundled
  <1>16. JobHolds(sealing', bundle', vouched', j) /\ PackShape(sealing')
    BY <1>4, <1>13, <1>14, JobNow DEF JobHolds
  <1> QED
    BY <1>3, <1>7, <1>10, <1>12, <1>15, <1>16, WritingStep

LEMMA WriteListingAgainStep ==
    ASSUME SealingInv, NEW w \in Sealers, WriteListingAgain(w)
    PROVE  SealingInv'
  <1>1. PICK l : l = labour[w].left
    OBVIOUS
  <1>2. /\ labour[w].op = "bundle" /\ labour[w].stage = "final"
        /\ bundle' = [bundle EXCEPT !.manifest = l]
        /\ Advance(w, NoTask, TRUE) /\ UNCHANGED <<sealing, vouched>>
    BY <1>1 DEF WriteListingAgain, Stage, KeepsPack
  <1>3. BundleShape(bundle) /\ Backed(sealing, bundle, vouched)
    BY DEF SealingInv
  <1>4. /\ BundleShape(bundle') /\ bundle'.files = bundle.files
        /\ bundle'.manifest = l /\ bundle'.signature = bundle.signature
    BY <1>2, <1>3 DEF BundleShape
  <1>5. /\ IsListing(l) /\ [key |-> NoFile, listing |-> l] \in vouched.bundles
        /\ labour[w].key \in KeyPairs \cup {NoFile} /\ labour[w].saw \in BOOLEAN
    BY <1>1, <1>2, Bundling DEF ListStages
  <1>6. Backed(sealing', bundle', vouched')
    BY <1>2, <1>3, <1>4, <1>5 DEF Backed
  <1>7. Intacts(sealing, bundle', fresh \ {"bundled"})
    BY Unbundled
  <1>8. Intacts(sealing', bundle', fresh')
    <2>1. CASE labour[w].saw = TRUE /\ labour[w].undisturbed
      <3>1. fresh' = fresh \cup {"bundled"}
        BY <2>1 DEF WriteListingAgain
      <3>2. /\ Copied(sealing, bundle, << >>) /\ l = Listing(bundle.files, Present(bundle.files))
            /\ bundle.signature = IF labour[w].key = NoFile THEN NoFile ELSE [key |-> labour[w].key, payload |-> l]
        BY <1>1, <1>2, <2>1, BundlingAlone DEF Copying, ListStages
      <3>3. Copied(sealing, bundle', << >>) /\ l = Listing(bundle'.files, Present(bundle'.files))
        BY <1>4, <3>2 DEF Copied
      <3>4. bundle'.signature = NoFile \/ \E key \in KeyPairs : bundle'.signature = [key |-> key, payload |-> l]
        BY <1>4, <1>5, <3>2
      <3> QED
        BY <1>2, <1>4, <1>5, <1>7, <3>1, <3>3, <3>4 DEF Intacts
    <2>2. CASE ~(labour[w].saw = TRUE /\ labour[w].undisturbed)
      <3>1. fresh' = fresh \ {"bundled"}
        BY <1>5, <2>2 DEF WriteListingAgain
      <3> QED
        BY <1>2, <1>7, <3>1
    <2> QED
      BY <2>1, <2>2
  <1> QED
    BY <1>2, <1>4, <1>6, <1>8, JobNow, NoTaskHolds, WritingStep

-----------------------------------------------------------------------------
(* What no process does: edits of the pack and damage to the bundle.       *)

LEMMA DisturbingStep ==
    ASSUME SealingInv, labour' = Disturbed, UNCHANGED vouched,
           PackShape(sealing'), BundleShape(bundle'),
           Backed(sealing', bundle', vouched'), Intacts(sealing', bundle', fresh'),
           \A w \in Sealers : labour[w].op = "bundle" =>
               \A f \in Needed : bundle.files[f] # NoFile => bundle'.files[f] # NoFile
    PROVE  SealingInv'
  <1>1. labour' = [w \in Sealers |-> IF labour[w] = NoTask THEN NoTask ELSE Disturb(labour[w])]
    BY DEF Disturbed, Disturb
  <1>2. ASSUME NEW w \in Sealers PROVE JobHolds(sealing', bundle', vouched', labour'[w])
    <2>1. CASE labour[w] = NoTask
      BY <1>1, <2>1, NoTaskHolds
    <2>2. CASE labour[w] # NoTask
      <3>1. labour'[w] = Disturb(labour[w]) /\ JobHolds(sealing, bundle, vouched, labour[w])
        BY <1>1, <2>2 DEF SealingInv
      <3> QED
        BY <3>1, DisturbedHolds
    <2> QED
      BY <2>1, <2>2
  <1> QED
    BY <1>1, <1>2 DEF SealingInv

LEMMA EditPackStep ==
    ASSUME SealingInv, EditPack
    PROVE  SealingInv'
  <1>1. labour' = Disturbed /\ fresh' = {} /\ UNCHANGED <<bundle, vouched>>
    BY DEF EditPack
  <1>2. PackShape(sealing) /\ BundleShape(bundle)
    BY DEF SealingInv
  <1>3. PackShape(sealing') /\ sealing'.signature = sealing.signature
    <2>1. CASE sealing' = [sealing EXCEPT !.claims = 3 - @]
      <3>1. 3 - sealing.claims \in FileTexts
        BY <1>2 DEF PackShape, FileTexts
      <3> QED
        BY <1>2, <2>1, <3>1 DEF PackShape
    <2>2. CASE sealing.pack # Cut /\ sealing' = [sealing EXCEPT !.pack.base = 3 - @]
      <3>1. PICK p \in PackJsons : p = sealing.pack
        BY <1>2, <2>2 DEF PackShape
      <3>2. 3 - p.base \in FileTexts
        BY <3>1 DEF PackJsons, PackForms, FileTexts
      <3>3. [p EXCEPT !.base = 3 - @] \in PackJsons
        BY <3>1, <3>2 DEF PackJsons, PackForms
      <3>4. sealing' = [sealing EXCEPT !.pack = [p EXCEPT !.base = 3 - @]]
        BY <2>2, <3>1
      <3> QED
        BY <1>2, <3>3, <3>4 DEF PackShape
    <2>3. CASE sealing' = [sealing EXCEPT !.extra = IF @ = NoFile THEN 1 ELSE NoFile]
      BY <1>2, <2>3 DEF PackShape
    <2> QED
      BY <2>1, <2>2, <2>3 DEF EditPack
  <1>4. Backed(sealing', bundle', vouched') /\ Intacts(sealing', bundle', fresh')
    BY <1>1, <1>3, BackedWith DEF Intacts
  <1> QED
    BY <1>1, <1>2, <1>3, <1>4, DisturbingStep

LEMMA DamageBundleStep ==
    ASSUME SealingInv, DamageBundle
    PROVE  SealingInv'
  <1>1. /\ labour' = Disturbed /\ fresh' = fresh \ {"bundled"} /\ UNCHANGED <<sealing, vouched>>
        /\ \A w \in Sealers : labour[w].op # "bundle"
    BY DEF DamageBundle
  <1>2. PICK f \in Present(bundle.files), x \in {NoFile, Cut} : bundle' = [bundle EXCEPT !.files[f] = x]
    BY DEF DamageBundle
  <1>3. PackShape(sealing) /\ BundleShape(bundle) /\ Backed(sealing, bundle, vouched)
    BY DEF SealingInv
  <1>4. x \in {NoFile} \cup FileForms
    BY <1>2 DEF FileForms
  <1>5. /\ BundleShape(bundle') /\ bundle'.manifest = bundle.manifest /\ bundle'.signature = bundle.signature
    BY <1>2, <1>3, <1>4 DEF BundleShape
  <1>6. Backed(sealing', bundle', vouched')
    BY <1>1, <1>3, <1>5 DEF Backed
  <1>7. Intacts(sealing', bundle', fresh')
    BY <1>1, Unbundled
  <1> QED
    BY <1>1, <1>3, <1>5, <1>6, <1>7, DisturbingStep

\* What is done apart from the key leaves its files as they are, or cut.
LEMMA KeysStay ==
    ASSUME KeysOK, UNCHANGED keyFiles \/ \E f \in {"private", "public"} : keyFiles' = [keyFiles EXCEPT ![f] = Cut],
           vouched'.makers = vouched.makers
    PROVE  KeysOK'
  BY DEF KeysOK

LEMMA OtherStepKeys ==
    ASSUME SealingInv, KeysOK, NEW w \in Sealers, SealingStep(w),
           ~LoadKey(w), ~MakeKey(w), ~WritePrivateKey(w), ~WritePublicKey(w)
    PROVE  KeysOK'
  <1>1. vouched = [packs |-> vouched.packs, bundles |-> vouched.bundles, makers |-> vouched.makers,
                   crossed |-> vouched.crossed]
    BY DEF SealingInv, Backed
  <1>2. CASE SealerDies(w)
    BY <1>2, KeysStay DEF SealerDies, CutWriting
  <1>3. CASE WriteSignature(w)
    <2>1. UNCHANGED keyFiles /\ vouched'.makers = vouched.makers
      BY <1>1, <1>3 DEF WriteSignature
    <2> QED
      BY <2>1, KeysStay
  <1>4. CASE HashBundle(w) \/ RebuildListing(w) \/ SignListing(w)
    <2>1. UNCHANGED keyFiles /\ vouched'.makers = vouched.makers
      BY <1>1, <1>4 DEF HashBundle, RebuildListing, SignListing, KeepsPack
    <2> QED
      BY <2>1, KeysStay
  <1>5. CASE UNCHANGED <<keyFiles, vouched>>
    BY <1>5, KeysStay
  <1>6. SealerDies(w) \/ WriteSignature(w) \/ HashBundle(w) \/ RebuildListing(w) \/ SignListing(w)
        \/ UNCHANGED <<keyFiles, vouched>>
    BY DEF SealingStep, BeginSeal, BeginSign, BeginBundle, BeginJob, TakeHash, WriteHash, WriteSealManifest,
           WriteRoot, TakeManifest, TakeSignedHash, WriteSignedManifest, WriteManifestNow, CopyInto,
           WriteScaffold, WriteListing, WriteListingAgain, Refused, Keeps, KeepsPack
  <1> QED
    BY <1>2, <1>3, <1>4, <1>5, <1>6

LEMMA SealingInductive ==
    ASSUME SealingInv, KeysOK, [SealingNext]_sealingVars
    PROVE  SealingInv' /\ KeysOK'
  <1>1. ASSUME NEW w \in Sealers, SealingStep(w) PROVE SealingInv' /\ KeysOK'
    <2>1. CASE LoadKey(w) \/ MakeKey(w) \/ WritePrivateKey(w) \/ WritePublicKey(w)
      BY <2>1, KeyStep
    <2>2. CASE ~(LoadKey(w) \/ MakeKey(w) \/ WritePrivateKey(w) \/ WritePublicKey(w))
      <3>1. SealingInv'
        BY <1>1, <2>2, BeginStep, TakeHashStep, WriteHashStep, WriteSealManifestStep, WriteRootStep,
           TakeManifestStep, TakeSignedHashStep, WriteSignedManifestStep, WriteSignatureStep,
           WriteManifestNowStep, CopyIntoStep, WriteScaffoldStep, HashBundleStep, WriteListingStep,
           RebuildListingStep, SignListingStep, WriteListingAgainStep, SealerDiesStep, RefusedStep DEF SealingStep
      <3> QED
        BY <1>1, <2>2, <3>1, OtherStepKeys
    <2> QED
      BY <2>1, <2>2
  <1>2. CASE UNCHANGED sealingVars
    BY <1>2 DEF sealingVars, SealingInv, KeysOK
  <1>3. ASSUME EditPack \/ DamageBundle PROVE KeysOK'
    <2>1. UNCHANGED keyFiles /\ vouched'.makers = vouched.makers
      BY <1>3 DEF EditPack, DamageBundle
    <2> QED
      BY <2>1, KeysStay
  <1> QED
    BY <1>1, <1>2, <1>3, EditPackStep, DamageBundleStep DEF SealingNext

LEMMA SealingInitial == SealingInit => SealingInv /\ KeysOK
  <1> SUFFICES ASSUME SealingInit PROVE SealingInv /\ KeysOK
    OBVIOUS
  <1>1. PackShape(sealing)
    BY DEF SealingInit, PackShape, FileTexts, PackJsons, PackForms
  <1>2. BundleShape(bundle)
    BY DEF SealingInit, NoBundle, BundleShape
  <1>3. Backed(sealing, bundle, vouched) /\ Intacts(sealing, bundle, fresh)
    BY DEF SealingInit, NoBundle, Backed, Intacts
  <1>4. labour = [w \in Sealers |-> NoTask]
    BY DEF SealingInit
  <1>5. KeysOK
    BY DEF SealingInit, KeysOK
  <1> QED
    BY <1>1, <1>2, <1>3, <1>4, <1>5, NoTaskHolds DEF SealingInv

-----------------------------------------------------------------------------
(* What the inductive invariant says of verdicts.                          *)

LEMMA SignedPack ==
    ASSUME SealingInv, sealing.pack # Cut, MetadataMatches(sealing), SignatureValid(sealing)
    PROVE  SealedHash(sealing) \in vouched.packs
  <1>1. Backed(sealing, bundle, vouched)
    BY DEF SealingInv
  <1>2. PICK x \in Signed : x = sealing.signature.of /\ x \in vouched.packs
    BY <1>1 DEF SignatureValid, Backed, Signatures
  <1>3. x.hash = sealing.pack.hash /\ x.merkle = sealing.pack.merkle
    BY <1>2 DEF SignatureValid
  <1>4. x = [hash |-> x.hash, merkle |-> x.merkle] /\ x.hash # NoFile /\ x.merkle # NoFile
    BY MissingIsNothing DEF Signed
  <1>5. sealing.pack.merkle \in {NoFile, HashedFiles(sealing)} /\ sealing.pack.hash \in {NoFile, ContentHash(sealing)}
    BY DEF MetadataMatches
  <1>6. x.hash = ContentHash(sealing) /\ x.merkle = HashedFiles(sealing)
    BY <1>3, <1>4, <1>5
  <1>7. x = SealedHash(sealing)
    BY <1>4, <1>6 DEF SealedHash
  <1> QED
    BY <1>2, <1>7

\* What is there of the files that are listed.
Held(b) == Listing(b.files, DOMAIN b.manifest)

LEMMA HeldFiles ==
    ASSUME NEW b, BundleShape(b)
    PROVE  /\ IsListing(Held(b))
           /\ \A key \in KeyPairs : [key |-> key, payload |-> Held(b)] \notin {NoFile, Cut}
  <1>1. PICK held : held = Held(b)
    OBVIOUS
  <1>2. DOMAIN held \subseteq FileNames /\ held \in [DOMAIN held -> FileForms]
    BY <1>1 DEF BundleShape, Held, Listing, Present
  <1>3. ASSUME NEW key \in KeyPairs PROVE [key |-> key, payload |-> held] \notin {NoFile, Cut}
    <2>1. [key |-> key, payload |-> held] \in [key : KeyPairs, payload : [DOMAIN held -> FileForms]]
      BY <1>2
    <2>2. DOMAIN held \in SUBSET FileNames
      BY <1>2
    <2>3. \A m \in {NoFile, Cut} : m \notin [key : KeyPairs, payload : [DOMAIN held -> FileForms]]
      BY <2>2, MissingIsNothing
    <2> QED
      BY <2>1, <2>3
  <1> QED
    BY <1>1, <1>2, <1>3 DEF IsListing

Passes(b, key) == BundleStatus(b, key) \in {"BUNDLE_VALID", "BUNDLE_UNSIGNED"}

LEMMA StatusCases ==
    ASSUME NEW b, NEW key, Passes(b, key)
    PROVE  /\ b.manifest \notin {NoFile, Cut} /\ Held(b) = b.manifest
           /\ BundleStatus(b, key) = "BUNDLE_VALID" =>
                b.signature = [key |-> key, payload |-> Held(b)] /\ key # NoFile
  <1>1. b.manifest \notin {NoFile, Cut} /\ Intact(b)
    BY DEF BundleStatus, Passes
  <1>2. ASSUME BundleStatus(b, key) = "BUNDLE_VALID" PROVE SignatureStatus(b, key) = "VALID"
    BY <1>1, <1>2 DEF BundleStatus
  <1>3. ASSUME SignatureStatus(b, key) = "VALID"
        PROVE  b.signature = [key |-> key, payload |-> Held(b)] /\ key # NoFile
    BY <1>3 DEF SignatureStatus, Payload, Held
  <1> QED
    BY <1>1, <1>2, <1>3 DEF Intact, Held

LEMMA ListedBundle ==
    ASSUME SealingInv, NEW key \in KeyPairs \cup {NoFile},
           BundleStatus(bundle, key) \in {"BUNDLE_VALID", "BUNDLE_UNSIGNED"}
    PROVE  LET by == IF BundleStatus(bundle, key) = "BUNDLE_VALID" THEN {key} ELSE KeyPairs \cup {NoFile}
           IN  \/ /\ \E k \in by : [key |-> k, listing |-> Held(bundle)] \in vouched.bundles
                  /\ Needed \subseteq DOMAIN Held(bundle) \/ (Held(bundle) = NoFiles /\ vouched.crossed)
               \/ BundleStatus(bundle, key) = "BUNDLE_UNSIGNED" /\ bundle.manifest = NoFiles
  <1>1. Backed(sealing, bundle, vouched) /\ BundleShape(bundle)
    BY DEF SealingInv
  <1>2. PICK held : held = Held(bundle)
    OBVIOUS
  <1>3. bundle.manifest \notin {NoFile, Cut} /\ held = bundle.manifest
    <2>1. Passes(bundle, key)
      BY DEF Passes
    <2> QED
      BY <1>2, <2>1, StatusCases
  <1>4. ASSUME NEW k, [key |-> k, listing |-> held] \in vouched.bundles
        PROVE  Needed \subseteq DOMAIN held \/ (held = NoFiles /\ vouched.crossed)
    <2>1. PICK x \in vouched.bundles : x = [key |-> k, listing |-> held]
      BY <1>4
    <2> QED
      BY <1>1, <2>1 DEF Backed
  <1>5. CASE BundleStatus(bundle, key) = "BUNDLE_VALID"
    <2>1. bundle.signature = [key |-> key, payload |-> held] /\ key \in KeyPairs
      <3>1. Passes(bundle, key)
        BY DEF Passes
      <3>2. bundle.signature = [key |-> key, payload |-> held] /\ key # NoFile
        BY <1>2, <1>5, <3>1, StatusCases
      <3> QED
        BY <3>2
    <2>2. bundle.signature \notin {NoFile, Cut}
      BY <1>1, <1>2, <2>1, HeldFiles
    <2>3. bundle.signature.key = key /\ bundle.signature.payload = held
      BY <2>1
    <2>4. [key |-> key, listing |-> held] \in vouched.bundles
      BY <1>1, <2>2, <2>3 DEF Backed
    <2> QED
      BY <1>2, <1>4, <1>5, <2>4
  <1>6. CASE BundleStatus(bundle, key) = "BUNDLE_UNSIGNED"
    <2>1. bundle.manifest # NoFiles => [key |-> NoFile, listing |-> held] \in vouched.bundles
      BY <1>1, <1>3 DEF Backed
    <2>2. (IF BundleStatus(bundle, key) = "BUNDLE_VALID" THEN {key} ELSE KeyPairs \cup {NoFile}) = KeyPairs \cup {NoFile}
      BY <1>6
    <2> QED
      BY <1>2, <1>4, <1>6, <2>1, <2>2
  <1> QED
    BY <1>5, <1>6

LEMMA UntouchedBundle ==
    ASSUME SealingInv, "bundled" \in fresh
    PROVE  /\ \E key \in KeyPairs \cup {NoFile} : BundleStatus(bundle, key) \in {"BUNDLE_VALID", "BUNDLE_UNSIGNED"}
           /\ bundle.files = [f \in DOMAIN bundle.files |-> sealing[f]]
  <1>1. BundleShape(bundle) /\ Intacts(sealing, bundle, fresh)
    BY DEF SealingInv
  <1>2. /\ Copied(sealing, bundle, << >>) /\ IsListing(bundle.manifest)
        /\ bundle.manifest = Listing(bundle.files, Present(bundle.files))
        /\ bundle.signature = NoFile \/ \E key \in KeyPairs : bundle.signature = [key |-> key, payload |-> bundle.manifest]
    BY <1>1 DEF Intacts
  <1>3. Held(bundle) = bundle.manifest /\ Intact(bundle)
    BY <1>1, <1>2, ListingOfFiles DEF Held, Intact
  <1>4. bundle.manifest \notin {NoFile, Cut}
    BY <1>2, ListingsAreThere
  <1>5. bundle.files = [f \in DOMAIN bundle.files |-> sealing[f]]
    <2>1. ToSet(<< >>) = {}
      BY DEF ToSet
    <2>2. \A f \in FileNames : bundle.files[f] = sealing[f]
      BY <1>2, <2>1 DEF Copied
    <2> QED
      BY <1>1, <2>2 DEF BundleShape
  <1>6. CASE bundle.signature = NoFile
    <2>1. SignatureStatus(bundle, NoFile) = "MISSING"
      BY <1>6 DEF SignatureStatus
    <2>2. BundleStatus(bundle, NoFile) = "BUNDLE_UNSIGNED"
      BY <1>3, <1>4, <2>1 DEF BundleStatus
    <2> QED
      BY <1>5, <2>2
  <1>7. CASE \E key \in KeyPairs : bundle.signature = [key |-> key, payload |-> bundle.manifest]
    <2>1. PICK key \in KeyPairs : bundle.signature = [key |-> key, payload |-> Held(bundle)]
      BY <1>3, <1>7
    <2>2. bundle.signature \notin {NoFile, Cut}
      BY <1>1, <2>1, HeldFiles
    <2>3. SignatureStatus(bundle, key) \in {"VALID", "UNTRUSTED"}
      BY <2>1, <2>2 DEF SignatureStatus, Payload, Held
    <2>4. BundleStatus(bundle, key) \in {"BUNDLE_VALID", "BUNDLE_UNSIGNED"}
      BY <1>3, <1>4, <2>3 DEF BundleStatus
    <2> QED
      BY <1>5, <2>4
  <1> QED
    BY <1>2, <1>6, <1>7

LEMMA InvVouches ==
    ASSUME SealingInv, KeysOK
    PROVE  VerdictsAreVouchedFor
  <1>1. (sealing.pack # Cut /\ IntegrityValid(sealing) /\ MetadataMatches(sealing) /\ SignatureValid(sealing)) =>
          [hash |-> ContentHash(sealing), merkle |-> HashedFiles(sealing)] \in vouched.packs
    BY SignedPack DEF SealedHash
  <1>2. ASSUME NEW key \in KeyPairs \cup {NoFile}, BundleStatus(bundle, key) \in {"BUNDLE_VALID", "BUNDLE_UNSIGNED"}
        PROVE  LET held == Listing(bundle.files, DOMAIN bundle.manifest)
                   by == IF BundleStatus(bundle, key) = "BUNDLE_VALID" THEN {key} ELSE KeyPairs \cup {NoFile}
               IN  \/ /\ \E k \in by : [key |-> k, listing |-> held] \in vouched.bundles
                      /\ {"claims", "pack", "provenance"} \subseteq DOMAIN held \/ (held = NoFiles /\ vouched.crossed)
                   \/ BundleStatus(bundle, key) = "BUNDLE_UNSIGNED" /\ bundle.manifest = NoFiles
    BY <1>2, ListedBundle DEF Held, Needed
  <1>3. Intacts(sealing, bundle, fresh)
    BY DEF SealingInv
  <1>4. "sealed" \in fresh => IntegrityValid(sealing) /\ MetadataMatches(sealing)
    BY <1>3 DEF Intacts, IsSealed, IntegrityValid, MetadataMatches
  <1>5. ASSUME "signed" \in fresh, ~SignatureValid(sealing), keyFiles.public \notin {NoFile, Cut}
        PROVE  \E v, w \in vouched.makers : v # w
    <2>1. /\ sealing.signature \in Signatures /\ sealing.signature \notin {NoFile, Cut}
          /\ sealing.signature.of.hash = sealing.pack.hash /\ sealing.signature.of.merkle = sealing.pack.merkle
      BY <1>3, <1>5, MissingIsNothing DEF Intacts
    <2>2. sealing.signature.key \in vouched.makers
      BY <2>1 DEF SealingInv, Backed
    <2>3. keyFiles.public \in vouched.makers
      BY <1>5 DEF KeysOK
    <2>4. keyFiles.public # sealing.signature.key
      BY <1>5, <2>1 DEF SignatureValid
    <2> QED
      BY <2>2, <2>3, <2>4
  <1> QED
    BY <1>1, <1>2, <1>4, <1>5, UntouchedBundle DEF VerdictsAreVouchedFor

\* However seals, signatures, manifests and bundles of one pack overlap, with
\* its edits and with damage to the bundle, and wherever one dies, what is
\* said of the pack or the bundle was vouched for, and what nobody touched
\* since it was made is found so, but for two that bundle or make the signing
\* key at once, as VerdictsAreVouchedFor says (verify_pack_integrity,
\* verify_pack_signature, verify_pack_bundle).
THEOREM VerdictsVouched == SealingSpec => []VerdictsAreVouchedFor
  <1>1. SealingInit => SealingInv /\ KeysOK
    BY SealingInitial
  <1>2. SealingInv /\ KeysOK /\ [SealingNext]_sealingVars => (SealingInv /\ KeysOK)'
    BY SealingInductive
  <1>3. SealingInv /\ KeysOK => VerdictsAreVouchedFor
    BY InvVouches
  <1> QED
    BY <1>1, <1>2, <1>3, PTL DEF SealingSpec

-----------------------------------------------------------------------------
(* Merges: the shape of the state.                                         *)

\* What is left to do is a list, of whatever.
IsTodo(q) == \E S : q \in Seq(S)

WriterOps == {"merge", "certify", "version"}

\* The commands, by what they keep: a list left to do out of T, the
\* metadata of a merge's target out of M.
Jobs(T, M) ==
    [op : {"none"}, step : {"idle"}, todo : T]
    \cup [op : {"certify"}, step : {"check", "act"}, source : PackDirs, out : PackDirs, todo : T]
    \cup [op : {"merge"}, step : {"check"}, source : PackDirs, target : PackDirs, out : PackDirs, todo : T]
    \cup [op : {"merge"}, step : {"read", "act"}, source : PackDirs, target : PackDirs, out : PackDirs,
          meta : M, todo : T]
    \cup [op : {"version"}, step : {"act"}, out : PackDirs, todo : T]
    \cup [op : {"transition"}, step : {"act"}, todo : T]

JobOK(j) ==
    /\ j \in Jobs({j.todo}, {j.meta})
    /\ IsTodo(j.todo)
    /\ j.step # "act" => j.todo = << >>

FilesOK == file = [p \in PackDirs |-> [f \in Files |-> file[p][f]]]

WorkOK == work = [w \in Workers |-> work[w]] /\ \A w \in Workers : JobOK(work[w])

LEMMA NoTodo == IsTodo(<< >>) /\ Len(<< >>) = 0
  BY EmptySeq DEF IsTodo

LEMMA TodoHead ==
    ASSUME NEW q, IsTodo(q), q # << >>
    PROVE  /\ Len(q) \in Nat \ {0} /\ Head(q) = q[1]
           /\ IsTodo(Tail(q)) /\ Len(Tail(q)) = Len(q) - 1
           /\ \A i \in 1..(Len(q) - 1) : Tail(q)[i] = q[i + 1]
  <1>1. PICK S : q \in Seq(S)
    BY DEF IsTodo
  <1> QED
    BY <1>1, HeadTailProperties, EmptySeq DEF IsTodo

LEMMA TodoReplace ==
    ASSUME NEW q, IsTodo(q), q # << >>, NEW z
    PROVE  /\ IsTodo(<<z>> \o Tail(q)) /\ Len(<<z>> \o Tail(q)) = Len(q)
           /\ (<<z>> \o Tail(q))[1] = z
           /\ \A i \in 2..Len(q) : (<<z>> \o Tail(q))[i] = q[i]
  <1>1. PICK S : q \in Seq(S)
    BY DEF IsTodo
  <1>2. <<z>> \o Tail(q) \in Seq(S \cup {z})
    BY <1>1
  <1> QED
    BY <1>1, <1>2 DEF IsTodo

LEMMA TodoConcat ==
    ASSUME NEW p, IsTodo(p), NEW q, IsTodo(q)
    PROVE  /\ IsTodo(p \o q) /\ Len(p) \in Nat /\ Len(q) \in Nat /\ Len(p \o q) = Len(p) + Len(q)
           /\ \A i \in 1..(Len(p) + Len(q)) : (p \o q)[i] = IF i <= Len(p) THEN p[i] ELSE q[i - Len(p)]
  <1>1. PICK S, T : p \in Seq(S) /\ q \in Seq(T)
    BY DEF IsTodo
  <1>2. p \in Seq(S \cup T) /\ q \in Seq(S \cup T)
    BY <1>1
  <1>3. p \o q \in Seq(S \cup T)
    BY <1>2, ConcatProperties
  <1>4. /\ Len(p \o q) = Len(p) + Len(q)
        /\ \A i \in 1..(Len(p) + Len(q)) : (p \o q)[i] = IF i <= Len(p) THEN p[i] ELSE q[i - Len(p)]
    BY <1>2, ConcatProperties
  <1> QED
    BY <1>1, <1>3, <1>4 DEF IsTodo

\* A copied tree begins with its directory.
LEMMA TreeShape ==
    ASSUME NEW p, NEW from, NEW x \in CopyTrees(from, p)
    PROVE  IsTodo(x) /\ Len(x) = 5 /\ x[1] = Make(p) /\ \A i \in 2..5 : x[i].do = "copy" /\ x[i].pack = p
  <1>1. PICK order : x = <<Make(p)>> \o [i \in 1..4 |-> CopyTo(p, order[i], from)]
    BY DEF CopyTrees
  <1> DEFINE y == [i \in 1..4 |-> CopyTo(p, order[i], from)]
             m == <<Make(p)>>
             S == {CopyTo(p, order[i], from) : i \in 1..4} \cup {Make(p)}
  <1>2. /\ y \in [1..4 -> S] /\ m \in Seq(S) /\ Len(m) = 1 /\ m[1] = Make(p)
        /\ \A i \in 1..4 : y[i].do = "copy" /\ y[i].pack = p
    BY DEF CopyTo
  <1> HIDE DEF y, m, S
  <1>3. y \in Seq(S) /\ Len(y) = 4
    <2>1. y \in Seq(S)
      BY <1>2, SeqDef
    <2> QED
      BY <1>2, <2>1, LenProperties
  <1>4. x = m \o y
    BY <1>1 DEF y, m
  <1>5. /\ IsTodo(x) /\ Len(x) = 5 /\ \A i \in 1..5 : x[i] = IF i <= 1 THEN m[i] ELSE y[i - 1]
    <2>1. IsTodo(m) /\ IsTodo(y)
      BY <1>2, <1>3 DEF IsTodo
    <2>2. /\ IsTodo(m \o y) /\ Len(m \o y) = Len(m) + Len(y)
          /\ \A i \in 1..(Len(m) + Len(y)) : (m \o y)[i] = IF i <= Len(m) THEN m[i] ELSE y[i - Len(m)]
      BY <2>1, TodoConcat
    <2> QED
      BY <1>2, <1>3, <1>4, <2>2
  <1> QED
    BY <1>2, <1>5 DEF IsTodo

-----------------------------------------------------------------------------
(* What a merge found in its target.                                       *)

\* A deed that writes the claims of a pack.
Overwrites(n, t) == n.do \in {"write", "copy", "fill"} /\ n.pack = t /\ n.file = "claims"

Before(q, i, do, t) == \E j \in 1..(i - 1) : q[j].do = do /\ q[j].pack = t

\* All that merges found in a pack is in its snapshots.
Saved(t) ==
    \A h \in marks.held : h[1] = t => \E s \in snapshots : s[1] = t /\ h[2] \in Range(s[2])

\* Only a writer of a pack writes its claims.
OwnOut ==
    \A w \in Workers : \A i \in 1..Len(work[w].todo) : \A t \in PackDirs :
        Overwrites(work[w].todo[i], t) => work[w].op \in WriterOps /\ work[w].out = t

\* It does so after a snapshot was taken, or in a directory it will have made.
Careful ==
    \A w \in Workers : \A i \in 1..Len(work[w].todo) : \A t \in PackDirs \ marks.overlapped :
        Overwrites(work[w].todo[i], t) =>
            \/ Saved(t)
            \/ Before(work[w].todo, i, "snapshot", t)
            \/ Before(work[w].todo, i, "make", t)

\* Merges read targets that exist.
TargetsExist ==
    /\ \A w \in Workers : Doing(w, "merge", "read") => work[w].target \in dirs
    /\ \A h \in marks.held : h[1] \in dirs /\ h[1] \in PackDirs

\* The marks are a record of sets.
MarksOK == marks = [overlapped |-> marks.overlapped, held |-> marks.held]

MergeInv == FilesOK /\ WorkOK /\ MarksOK /\ OwnOut /\ Careful /\ TargetsExist /\ TargetRecoverable

\* A job whose list overwrites nothing, or what it has saved or will have made.
Prudent(j) ==
    \A i \in 1..Len(j.todo) : \A t \in PackDirs :
        Overwrites(j.todo[i], t) =>
            /\ j.op \in WriterOps /\ j.out = t
            /\ Before(j.todo, i, "snapshot", t) \/ Before(j.todo, i, "make", t)

\* One process begins, changes or ends its job.
LEMMA NewJob ==
    ASSUME MergeInv, NEW w \in Workers, NEW j, work' = [work EXCEPT ![w] = j],
           JobOK(j), Prudent(j), (j.op = "merge" /\ j.step = "read") => j.target \in dirs,
           UNCHANGED <<dirs, file, snapshots, marks>>
    PROVE  MergeInv'
  <1>1. work'[w] = j /\ \A v \in Workers \ {w} : work'[v] = work[v]
    BY DEF MergeInv, WorkOK
  <1>2. FilesOK' /\ MarksOK' /\ TargetRecoverable'
    BY DEF MergeInv, FilesOK, MarksOK, TargetRecoverable
  <1>3. WorkOK'
    BY <1>1 DEF MergeInv, WorkOK
  <1>4. OwnOut'
    BY <1>1 DEF MergeInv, OwnOut, Prudent
  <1>5. \A t : Saved(t) <=> Saved(t)'
    BY DEF Saved
  <1>6. Careful'
    BY <1>1, <1>5 DEF MergeInv, Careful, Prudent
  <1>7. TargetsExist'
    BY <1>1 DEF MergeInv, TargetsExist, Doing
  <1> QED
    BY <1>2, <1>3, <1>4, <1>6, <1>7 DEF MergeInv

LEMMA RestsPrudent == JobOK(Resting) /\ Prudent(Resting) /\ Resting.op = "none"
  <1>1. IsTodo(<< >>)
    BY EmptySeq DEF IsTodo
  <1>2. Resting.todo = << >> /\ Resting.op = "none" /\ Resting.step = "idle"
    BY DEF Resting
  <1>3. Resting \in Jobs({Resting.todo}, {Resting.meta})
    BY DEF Resting, Jobs
  <1> QED
    BY <1>1, <1>2, <1>3 DEF JobOK, Prudent

LEMMA MetaOnly ==
    ASSUME NEW p, NEW rows
    PROVE  /\ IsTodo(<<WriteTo(p, "meta", rows)>>)
           /\ \A i \in 1..Len(<<WriteTo(p, "meta", rows)>>) : \A t :
                  ~Overwrites(<<WriteTo(p, "meta", rows)>>[i], t)
  <1> DEFINE n == WriteTo(p, "meta", rows)
  <1>1. \A t : ~Overwrites(n, t)
    BY DEF WriteTo, Overwrites
  <1> HIDE DEF n
  <1> DEFINE q == <<n>>
  <1>2. q \in Seq({n}) /\ Len(q) = 1 /\ q[1] = n
    OBVIOUS
  <1> HIDE DEF q
  <1>3. IsTodo(q) /\ \A i \in 1..Len(q) : \A t : ~Overwrites(q[i], t)
    BY <1>1, <1>2 DEF IsTodo
  <1> QED
    BY <1>3 DEF n, q

LEMMA TreeDeeds ==
    ASSUME NEW p, NEW from, NEW x \in CopyTrees(from, p)
    PROVE  \A i \in 1..Len(x) : \A t : Overwrites(x[i], t) => t = p /\ Before(x, i, "make", t)
  <1>1. /\ Len(x) = 5 /\ x[1] = Make(p) /\ \A i \in 2..5 : x[i].do = "copy" /\ x[i].pack = p
    BY TreeShape
  <1> SUFFICES ASSUME NEW i \in 1..5, NEW t, Overwrites(x[i], t)
               PROVE  t = p /\ Before(x, i, "make", t)
    BY <1>1
  <1>2. i # 1
    BY <1>1 DEF Overwrites, Make
  <1>3. t = p /\ 1 \in 1..(i - 1)
    BY <1>1, <1>2 DEF Overwrites
  <1> QED
    BY <1>1, <1>3 DEF Before, Make

LEMMA CertifiedDeeds ==
    ASSUME NEW s, NEW o
    PROVE  /\ IsTodo(CertifiedPack(s, o))
           /\ \A i \in 1..Len(CertifiedPack(s, o)) : \A t :
                 Overwrites(CertifiedPack(s, o)[i], t) => t = o /\ Before(CertifiedPack(s, o), i, "make", t)
  <1> DEFINE a == Make(o)
             b == CopyTo(o, "claims", s)
             c == CopyTo(o, "provenance", s)
             d == WriteTo(o, "meta", <<[id |-> o, version |-> 1, status |-> "certified", from |-> s]>>)
             e == WriteTo(o, "reports", << >>)
             q == <<a, b, c, d, e>>
  <1>1. CertifiedPack(s, o) = q
    BY DEF CertifiedPack
  <1>2. a.do = "make" /\ a.pack = o /\ \A n \in {b, c, d, e} : n.pack = o
    BY DEF Make, CopyTo, WriteTo
  <1> HIDE DEF a, b, c, d, e
  <1>3. /\ q \in Seq({a, b, c, d, e}) /\ Len(q) = 5 /\ q[1] = a
        /\ \A i \in 2..5 : q[i] \in {b, c, d, e}
    OBVIOUS
  <1> HIDE DEF q
  <1>4. ASSUME NEW i \in 1..5, NEW t, Overwrites(q[i], t)
        PROVE  t = o /\ Before(q, i, "make", t)
    <2>1. i # 1
      BY <1>2, <1>3, <1>4 DEF Overwrites
    <2>2. t = o /\ 1 \in 1..(i - 1)
      BY <1>2, <1>3, <1>4, <2>1 DEF Overwrites
    <2> QED
      BY <1>2, <1>3, <2>2 DEF Before
  <1> QED
    BY <1>1, <1>3, <1>4 DEF IsTodo

LEMMA MergedDeeds ==
    ASSUME NEW t, NEW o, NEW claims, NEW provenance, NEW meta, NEW x \in MergedPacks(t, o, claims, provenance, meta)
    PROVE  /\ IsTodo(x)
           /\ \A i \in 1..Len(x) : \A p :
                 Overwrites(x[i], p) =>
                     p = o /\ IF o = t THEN Before(x, i, "snapshot", p) ELSE Before(x, i, "make", p)
  <1> DEFINE a == Snapshot(t)
             b == WriteTo(o, "claims", claims)
             c == WriteTo(o, "provenance", provenance)
             d == WriteTo(o, "meta", <<[meta EXCEPT !.id = IF o = t THEN @ ELSE o, !.version = @ + 1]>>)
  <1> DEFINE l == <<a>>
             r == <<b, c, d>>
  <1>1. PICK tree \in (IF o = t THEN {<< >>} ELSE CopyTrees(t, o)) : x = (l \o tree) \o r
    BY DEF MergedPacks
  <1>2. /\ a.do = "snapshot" /\ a.pack = t /\ b.pack = o /\ c.pack = o /\ d.pack = o
    BY DEF Snapshot, WriteTo
  <1> HIDE DEF a, b, c, d
  <1>3. /\ IsTodo(l) /\ Len(l) = 1 /\ l[1] = a
    <2>1. l \in Seq({a}) /\ Len(l) = 1 /\ l[1] = a
      OBVIOUS
    <2> QED
      BY <2>1 DEF IsTodo
  <1>4. IsTodo(r) /\ Len(r) = 3 /\ \A i \in 1..3 : r[i] \in {b, c, d}
    <2>1. r \in Seq({b, c, d}) /\ Len(r) = 3 /\ \A i \in 1..3 : r[i] \in {b, c, d}
      OBVIOUS
    <2> QED
      BY <2>1 DEF IsTodo
  <1>5. IsTodo(tree) /\ Len(tree) \in Nat /\ (o = t => Len(tree) = 0)
        /\ (o # t => tree[1] = Make(o) /\ Len(tree) = 5 /\ \A i \in 2..5 : tree[i].pack = o)
    BY <1>1, TreeShape, NoTodo
  <1> HIDE DEF l, r
  <1> DEFINE lt == l \o tree
  <1>6. /\ IsTodo(lt) /\ Len(lt) = 1 + Len(tree)
        /\ \A i \in 1..(1 + Len(tree)) : lt[i] = IF i <= 1 THEN l[i] ELSE tree[i - 1]
    <2>1. /\ IsTodo(lt) /\ Len(lt) = Len(l) + Len(tree)
          /\ \A i \in 1..(Len(l) + Len(tree)) : lt[i] = IF i <= Len(l) THEN l[i] ELSE tree[i - Len(l)]
      BY <1>3, <1>5, TodoConcat
    <2> HIDE DEF lt
    <2> QED
      BY <1>3, <1>5, <2>1
  <1> HIDE DEF lt
  <1>7. /\ IsTodo(x) /\ Len(x) = Len(lt) + 3
        /\ \A i \in 1..(Len(lt) + 3) : x[i] = IF i <= Len(lt) THEN lt[i] ELSE r[i - Len(lt)]
    <2>1. x = lt \o r
      BY <1>1 DEF lt
    <2>2. /\ IsTodo(lt \o r) /\ Len(lt \o r) = Len(lt) + Len(r)
          /\ \A i \in 1..(Len(lt) + Len(r)) : (lt \o r)[i] = IF i <= Len(lt) THEN lt[i] ELSE r[i - Len(lt)]
      BY <1>4, <1>6, TodoConcat
    <2> QED
      BY <1>4, <2>1, <2>2
  <1>8. Len(x) \in Nat /\ x[1] = a
    BY <1>3, <1>5, <1>6, <1>7
  <1>9. CASE o = t
    <2>1. Len(lt) = 1 /\ Len(x) = 4 /\ \A i \in 2..4 : x[i] = r[i - 1] /\ i - 1 \in 1..3
      BY <1>5, <1>6, <1>7, <1>9
    <2>2. \A i \in 2..4 : x[i].pack = o
      BY <1>2, <1>4, <2>1
    <2>3. ASSUME NEW i \in 1..4, NEW p, Overwrites(x[i], p)
          PROVE  p = o /\ Before(x, i, "snapshot", p)
      <3>1. i # 1
        BY <1>2, <1>8, <2>3 DEF Overwrites
      <3>2. p = o /\ 1 \in 1..(i - 1)
        BY <2>2, <2>3, <3>1 DEF Overwrites
      <3> QED
        BY <1>2, <1>8, <1>9, <3>2 DEF Before
    <2> QED
      BY <1>7, <1>9, <2>1, <2>3
  <1>10. CASE o # t
    <2>1. Len(lt) = 6 /\ Len(x) = 9 /\ x[2] = Make(o)
      <3>1. Len(tree) = 5 /\ tree[1] = Make(o)
        BY <1>5, <1>10
      <3>2. Len(lt) = 6 /\ lt[2] = Make(o)
        BY <1>6, <3>1
      <3> QED
        BY <1>7, <3>2
    <2>2. \A i \in 3..6 : x[i] = tree[i - 1] /\ i - 1 \in 2..5
      <3>1. \A i \in 3..6 : x[i] = lt[i]
        BY <1>7, <2>1
      <3>2. ASSUME NEW i \in 3..6 PROVE lt[i] = tree[i - 1] /\ i - 1 \in 2..5
        <4>1. Len(tree) = 5
          BY <1>5, <1>10
        <4>2. i \in 1..6 /\ ~(i <= 1) /\ i - 1 \in 2..5
          OBVIOUS
        <4> QED
          BY <1>6, <4>1, <4>2
      <3> QED
        BY <3>1, <3>2
    <2>3. \A i \in 7..9 : x[i] = r[i - 6] /\ i - 6 \in 1..3
      BY <1>7, <2>1
    <2>4. \A i \in 3..9 : x[i].pack = o
      <3>1. \A i \in 7..9 : x[i].pack = o
        BY <1>2, <1>4, <2>3
      <3> QED
        BY <1>5, <1>10, <2>2, <3>1
    <2>5. ASSUME NEW i \in 1..9, NEW p, Overwrites(x[i], p)
          PROVE  p = o /\ Before(x, i, "make", p)
      <3>1. i # 1 /\ i # 2
        BY <1>2, <1>8, <2>1, <2>5 DEF Overwrites, Make
      <3>2. p = o /\ 2 \in 1..(i - 1)
        BY <2>4, <2>5, <3>1 DEF Overwrites
      <3> QED
        BY <2>1, <3>2 DEF Before, Make
    <2> QED
      BY <1>7, <1>10, <2>1, <2>5
  <1> QED
    BY <1>9, <1>10

-----------------------------------------------------------------------------
(* The steps.                                                              *)

\* The deed at the head of a list is done.
LEMMA PopJob ==
    ASSUME MergeInv, NEW w \in Workers, work[w].todo # << >>, work[w].step = "act",
           work' = [work EXCEPT ![w].todo = Tail(@)],
           marks' = marks, dirs \subseteq dirs', snapshots \subseteq snapshots',
           NEW n, n = Next1(w),
           (n.do = "snapshot" /\ n.pack \notin marks.overlapped) => Saved(n.pack)',
           n.do = "make" => \A h \in marks.held : h[1] # n.pack
    PROVE  WorkOK' /\ OwnOut' /\ Careful' /\ TargetsExist'
  <1> DEFINE j == work[w]
             k == [j EXCEPT !.todo = Tail(@)]
             q == j.todo
  <1>1. JobOK(j)
    BY DEF MergeInv, WorkOK
  <1>2. /\ IsTodo(q) /\ Len(q) \in Nat \ {0} /\ Head(q) = q[1]
        /\ IsTodo(Tail(q)) /\ Len(Tail(q)) = Len(q) - 1
        /\ \A i \in 1..(Len(q) - 1) : Tail(q)[i] = q[i + 1]
    BY <1>1, TodoHead DEF JobOK
  <1>3. /\ k.todo = Tail(q) /\ k.op = j.op /\ k.step = "act" /\ (k.op \in WriterOps => k.out = j.out)
        /\ k \in Jobs({k.todo}, {k.meta})
    BY <1>1 DEF JobOK, Jobs, WriterOps
  <1>4. /\ work'[w] = k /\ \A v \in Workers \ {w} : work'[v] = work[v]
    BY DEF MergeInv, WorkOK
  <1> HIDE DEF k
  <1>5. WorkOK'
    <2>1. JobOK(k)
      BY <1>2, <1>3 DEF JobOK
    <2>2. work' = [v \in Workers |-> work'[v]]
      BY DEF MergeInv, WorkOK
    <2> QED
      BY <1>4, <2>1, <2>2 DEF MergeInv, WorkOK
  <1>6. \A t : Saved(t) => Saved(t)'
    BY DEF Saved
  <1>7. work'[w].todo = Tail(q) /\ \A i \in 1..Len(Tail(q)) : i + 1 \in 1..Len(q) /\ i \in 1..(Len(q) - 1)
    BY <1>2, <1>3, <1>4
  <1>8. OwnOut'
    <2> SUFFICES ASSUME NEW v \in Workers, NEW i \in 1..Len(work'[v].todo), NEW t \in PackDirs,
                        Overwrites(work'[v].todo[i], t)
                 PROVE  work'[v].op \in WriterOps /\ work'[v].out = t
      BY DEF OwnOut
    <2>1. CASE v # w
      BY <1>4, <2>1 DEF MergeInv, OwnOut
    <2>2. CASE v = w
      <3>1. Overwrites(q[i + 1], t) /\ i + 1 \in 1..Len(q)
        BY <1>2, <1>7, <2>2
      <3> QED
        BY <1>3, <1>4, <2>2, <3>1 DEF MergeInv, OwnOut
    <2> QED
      BY <2>1, <2>2
  <1>9. Careful'
    <2> SUFFICES ASSUME NEW v \in Workers, NEW i \in 1..Len(work'[v].todo), NEW t \in PackDirs \ marks.overlapped,
                        Overwrites(work'[v].todo[i], t)
                 PROVE  \/ Saved(t)'
                        \/ Before(work'[v].todo, i, "snapshot", t)
                        \/ Before(work'[v].todo, i, "make", t)
      BY DEF Careful
    <2>1. CASE v # w
      BY <1>4, <1>6, <2>1 DEF MergeInv, Careful
    <2>2. CASE v = w
      <3>0. Overwrites(q[i + 1], t) /\ i + 1 \in 1..Len(q) /\ i \in 1..(Len(q) - 1) /\ work'[v].todo = Tail(q)
        BY <1>2, <1>7, <2>2
      <3>1. \/ Saved(t)
            \/ Before(q, i + 1, "snapshot", t)
            \/ Before(q, i + 1, "make", t)
        BY <3>0 DEF MergeInv, Careful
      <3>2. ASSUME NEW do, Before(q, i + 1, do, t)
            PROVE  Before(Tail(q), i, do, t) \/ (n.do = do /\ n.pack = t)
        <4>1. PICK m \in 1..i : q[m].do = do /\ q[m].pack = t
          BY <3>0, <3>2 DEF Before
        <4>2. CASE m = 1
          BY <1>2, <4>1, <4>2 DEF Next1
        <4>3. CASE m # 1
          <5>1. m - 1 \in 1..(i - 1) /\ m - 1 \in 1..(Len(q) - 1) /\ (m - 1) + 1 = m
            BY <1>2, <3>0, <4>3
          <5>2. Tail(q)[m - 1] = q[m]
            BY <1>2, <5>1
          <5> QED
            BY <4>1, <5>1, <5>2 DEF Before
        <4> QED
          BY <4>2, <4>3
      <3>3. (n.do = "make" /\ n.pack = t) => Saved(t)'
        BY DEF Saved
      <3> QED
        <4>1. CASE Saved(t)
          BY <1>6, <4>1
        <4>2. CASE Before(q, i + 1, "snapshot", t)
          <5>1. Before(Tail(q), i, "snapshot", t) \/ (n.do = "snapshot" /\ n.pack = t)
            BY <3>2, <4>2
          <5> QED
            BY <3>0, <5>1
        <4>3. CASE Before(q, i + 1, "make", t)
          <5>1. Before(Tail(q), i, "make", t) \/ (n.do = "make" /\ n.pack = t)
            BY <3>2, <4>3
          <5> QED
            BY <3>0, <3>3, <5>1
        <4> QED
          BY <3>1, <4>1, <4>2, <4>3
    <2> QED
      BY <2>1, <2>2
  <1>10. TargetsExist'
    BY <1>3, <1>4 DEF MergeInv, TargetsExist, Doing
  <1> QED
    BY <1>5, <1>8, <1>9, <1>10

\* A deed that writes a file is begun, and stays to be done.
LEMMA SwapJob ==
    ASSUME MergeInv, NEW w \in Workers, work[w].todo # << >>, work[w].step = "act",
           NEW z, z.do = "fill", z.pack = Next1(w).pack, z.file = Next1(w).file, Next1(w).do \in {"write", "copy"},
           work' = [work EXCEPT ![w].todo = <<z>> \o Tail(@)],
           UNCHANGED <<marks, dirs, snapshots>>
    PROVE  WorkOK' /\ OwnOut' /\ Careful' /\ TargetsExist'
  <1> DEFINE j == work[w]
             k == [j EXCEPT !.todo = <<z>> \o Tail(@)]
             q == j.todo
             r == <<z>> \o Tail(q)
  <1>1. JobOK(j)
    BY DEF MergeInv, WorkOK
  <1>2. /\ IsTodo(q) /\ Len(q) \in Nat \ {0} /\ Next1(w) = q[1]
        /\ IsTodo(r) /\ Len(r) = Len(q) /\ r[1] = z
        /\ \A i \in 2..Len(q) : r[i] = q[i]
    BY <1>1, TodoHead, TodoReplace DEF JobOK, Next1
  <1> HIDE DEF r
  <1>3. /\ k.todo = r /\ k.op = j.op /\ k.step = "act" /\ (k.op \in WriterOps => k.out = j.out)
        /\ k \in Jobs({k.todo}, {k.meta})
    BY <1>1 DEF JobOK, Jobs, WriterOps, r
  <1>4. /\ work'[w] = k /\ \A v \in Workers \ {w} : work'[v] = work[v]
    BY DEF MergeInv, WorkOK
  <1> HIDE DEF k
  <1>5. WorkOK'
    <2>1. JobOK(k)
      BY <1>2, <1>3 DEF JobOK
    <2>2. work' = [v \in Workers |-> work'[v]]
      BY DEF MergeInv, WorkOK
    <2> QED
      BY <1>4, <2>1, <2>2 DEF MergeInv, WorkOK
  <1>6. \A t : Saved(t) => Saved(t)'
    BY DEF Saved
  <1>7. \A i \in 1..Len(r) : \A t : Overwrites(r[i], t) => Overwrites(q[i], t)
    BY <1>2 DEF Overwrites
  <1>8. ASSUME NEW i \in 1..Len(r), NEW do \in {"snapshot", "make"}, NEW t, Before(q, i, do, t)
        PROVE  Before(r, i, do, t)
    <2>1. PICK m \in 1..(i - 1) : q[m].do = do /\ q[m].pack = t
      BY <1>8 DEF Before
    <2>2. m \in 2..Len(q)
      BY <1>2, <2>1
    <2> QED
      BY <1>2, <2>1, <2>2 DEF Before
  <1>9. OwnOut'
    <2> SUFFICES ASSUME NEW v \in Workers, NEW i \in 1..Len(work'[v].todo), NEW t \in PackDirs,
                        Overwrites(work'[v].todo[i], t)
                 PROVE  work'[v].op \in WriterOps /\ work'[v].out = t
      BY DEF OwnOut
    <2>1. CASE v # w
      BY <1>4, <2>1 DEF MergeInv, OwnOut
    <2>2. CASE v = w
      <3>1. Overwrites(q[i], t) /\ i \in 1..Len(q)
        BY <1>2, <1>3, <1>4, <1>7, <2>2
      <3> QED
        BY <1>3, <1>4, <2>2, <3>1 DEF MergeInv, OwnOut
    <2> QED
      BY <2>1, <2>2
  <1>10. Careful'
    <2> SUFFICES ASSUME NEW v \in Workers, NEW i \in 1..Len(work'[v].todo), NEW t \in PackDirs \ marks.overlapped,
                        Overwrites(work'[v].todo[i], t)
                 PROVE  \/ Saved(t)'
                        \/ Before(work'[v].todo, i, "snapshot", t)
                        \/ Before(work'[v].todo, i, "make", t)
      BY DEF Careful
    <2>1. CASE v # w
      BY <1>4, <1>6, <2>1 DEF MergeInv, Careful
    <2>2. CASE v = w
      BY <1>2, <1>3, <1>4, <1>6, <1>7, <1>8, <2>2 DEF MergeInv, Careful
    <2> QED
      BY <2>1, <2>2
  <1>11. TargetsExist'
    BY <1>3, <1>4 DEF MergeInv, TargetsExist, Doing
  <1> QED
    BY <1>5, <1>9, <1>10, <1>11

\* What was found stays while only files change whose claims are saved.
LEMMA FoundStays ==
    ASSUME MergeInv, marks'.held = marks.held, marks'.overlapped = marks.overlapped, snapshots \subseteq snapshots',
           \A p \in PackDirs : file'[p].claims = file[p].claims \/ Saved(p) \/ p \in marks.overlapped
    PROVE  TargetRecoverable'
  BY DEF MergeInv, TargetRecoverable, TargetsExist, Saved

\* One file is written by a process at the head of its list.
LEMMA FileWritten ==
    ASSUME MergeInv, marks'.held = marks.held, marks'.overlapped = marks.overlapped, UNCHANGED snapshots,
           NEW w \in Workers, NEW n, n = work[w].todo[1], 1 \in 1..Len(work[w].todo), n.do \in {"write", "copy", "fill"},
           NEW rows, file' = [file EXCEPT ![n.pack][n.file] = rows]
    PROVE  FilesOK' /\ TargetRecoverable'
  <1>0. \A p \in PackDirs : file'[p] = [f \in Files |-> IF p = n.pack /\ f = n.file THEN rows ELSE file[p][f]]
    <2>1. file' = [p \in PackDirs |-> IF p = n.pack THEN [file[p] EXCEPT ![n.file] = rows] ELSE file[p]]
      BY DEF MergeInv, FilesOK
    <2>2. \A p \in PackDirs : file[p] = [f \in Files |-> file[p][f]]
      BY DEF MergeInv, FilesOK
    <2>3. \A p \in PackDirs : [file[p] EXCEPT ![n.file] = rows]
                                = [f \in Files |-> IF f = n.file THEN rows ELSE file[p][f]]
      BY <2>2
    <2> QED
      BY <2>1, <2>2, <2>3
  <1>1. FilesOK'
    <2>1. file' = [p \in PackDirs |-> file'[p]]
      BY DEF MergeInv, FilesOK
    <2>2. ASSUME NEW p \in PackDirs PROVE file'[p] = [f \in Files |-> file'[p][f]]
      <3> DEFINE g == [f \in Files |-> IF p = n.pack /\ f = n.file THEN rows ELSE file[p][f]]
      <3>1. g = [f \in Files |-> g[f]]
        OBVIOUS
      <3>2. file'[p] = g
        BY <1>0
      <3> HIDE DEF g
      <3> QED
        BY <3>1, <3>2
    <2> QED
      BY <2>1, <2>2 DEF FilesOK
  <1>2. ASSUME NEW p \in PackDirs
        PROVE  file'[p].claims = file[p].claims \/ Saved(p) \/ p \in marks.overlapped
    <2>1. CASE ~Overwrites(n, p)
      BY <1>0, <2>1 DEF Files, Overwrites
    <2>2. CASE Overwrites(n, p)
      <3>1. \A do : ~Before(work[w].todo, 1, do, p)
        BY DEF Before
      <3> QED
        BY <2>2, <3>1 DEF MergeInv, Careful
    <2> QED
      BY <2>1, <2>2
  <1> QED
    BY <1>1, <1>2, FoundStays

LEMMA MergeInvInit == WorkflowInit => MergeInv
  <1> SUFFICES ASSUME NEW origin \in Origin, WorkflowStart(origin, 0) PROVE MergeInv
    BY DEF WorkflowInit
  <1>1. FilesOK
    BY OriginAssumption DEF WorkflowStart, FilesOK, Empty
  <1>2. \A w \in Workers : work[w] = Resting
    BY DEF WorkflowStart
  <1>3. WorkOK
    BY RestsPrudent DEF WorkflowStart, WorkOK
  <1>4. OwnOut /\ Careful
    BY <1>2, RestsPrudent DEF OwnOut, Careful, Prudent
  <1>5. TargetsExist /\ TargetRecoverable /\ MarksOK
    BY <1>2, RestsPrudent DEF WorkflowStart, TargetsExist, TargetRecoverable, MarksOK, Doing
  <1> QED
    BY <1>1, <1>3, <1>4, <1>5 DEF MergeInv

LEMMA RefuseKeeps ==
    ASSUME MergeInv, NEW w \in Workers, Refuse(w)
    PROVE  MergeInv'
  <1>1. work' = [work EXCEPT ![w] = Resting] /\ UNCHANGED <<dirs, file, snapshots, marks>>
    BY DEF Refuse
  <1> QED
    BY <1>1, NewJob, RestsPrudent

LEMMA CommandKeeps ==
    ASSUME MergeInv, NEW w \in Workers, Command(w)
    PROVE  MergeInv'
  <1>1. ASSUME NEW s \in PackDirs, NEW o \in PackDirs, Certify(w, s, o)
        PROVE  MergeInv'
    <2> DEFINE j == [op |-> "certify", step |-> "check", source |-> s, out |-> o, todo |-> << >>]
    <2>1. JobOK(j) /\ Prudent(j) /\ j.op = "certify"
      BY NoTodo DEF JobOK, Jobs, Prudent
    <2>2. work' = [work EXCEPT ![w] = j] /\ UNCHANGED <<dirs, file, snapshots, marks>>
      BY <1>1 DEF Certify, StartWork
    <2> HIDE DEF j
    <2> QED
      BY <2>1, <2>2, NewJob
  <1>2. ASSUME NEW s \in PackDirs, NEW t \in PackDirs, NEW o \in PackDirs, Merge(w, s, t, o)
        PROVE  MergeInv'
    <2> DEFINE j == [op |-> "merge", step |-> "check", source |-> s, target |-> t, out |-> o, todo |-> << >>]
    <2>1. JobOK(j) /\ Prudent(j) /\ j.step = "check"
      BY NoTodo DEF JobOK, Jobs, Prudent
    <2>2. work' = [work EXCEPT ![w] = j] /\ UNCHANGED <<dirs, file, snapshots, marks>>
      BY <1>2 DEF Merge, StartWork
    <2> HIDE DEF j
    <2> QED
      BY <2>1, <2>2, NewJob
  <1>3. ASSUME NEW p \in PackDirs, NEW status, Transition(w, p, status)
        PROVE  MergeInv'
    <2> DEFINE q == <<WriteTo(p, "meta", <<[Meta(p) EXCEPT !.status = status]>>)>>
               j == [op |-> "transition", step |-> "act", todo |-> q]
    <2>1. IsTodo(q) /\ \A i \in 1..Len(q) : \A t : ~Overwrites(q[i], t)
      BY MetaOnly
    <2>2. work' = [work EXCEPT ![w] = j] /\ UNCHANGED <<dirs, file, snapshots, marks>>
      BY <1>3 DEF Transition, StartWork
    <2> HIDE DEF q
    <2>3. JobOK(j) /\ Prudent(j) /\ j.op = "transition"
      BY <2>1 DEF JobOK, Jobs, Prudent
    <2> HIDE DEF j
    <2> QED
      BY <2>2, <2>3, NewJob
  <1>4. ASSUME NEW s \in PackDirs, NEW o \in PackDirs, CreateVersion(w, s, o)
        PROVE  MergeInv'
    <2>1. PICK tree \in CopyTrees(s, o) :
             StartWork(w, [op |-> "version", step |-> "act", out |-> o, todo |-> tree])
      BY <1>4 DEF CreateVersion
    <2> DEFINE j == [op |-> "version", step |-> "act", out |-> o, todo |-> tree]
    <2>2. work' = [work EXCEPT ![w] = j] /\ UNCHANGED <<dirs, file, snapshots, marks>>
      BY <2>1 DEF StartWork
    <2>3. IsTodo(tree) /\ \A i \in 1..Len(tree) : \A t : Overwrites(tree[i], t) => t = o /\ Before(tree, i, "make", t)
      BY TreeShape, TreeDeeds
    <2>4. JobOK(j) /\ Prudent(j) /\ j.op = "version"
      BY <2>3 DEF JobOK, Jobs, Prudent, WriterOps
    <2> HIDE DEF j
    <2> QED
      BY <2>2, <2>4, NewJob
  <1> QED
    BY <1>1, <1>2, <1>3, <1>4 DEF Command

\* A check that ends well goes on to what is left to do.
LEMMA CheckKeeps ==
    ASSUME MergeInv, NEW w \in Workers, CheckCandidate(w) \/ CheckMerge(w) \/ NewVersion(w)
    PROVE  MergeInv'
  <1> DEFINE j == work[w]
  <1>0. JobOK(j)
    BY DEF MergeInv, WorkOK
  <1>1. CASE CheckCandidate(w)
    <2> DEFINE q == CertifiedPack(j.source, j.out)
               k == [j EXCEPT !.step = "act", !.todo = q]
    <2>1. CASE Refuse(w)
      BY <2>1, RefuseKeeps
    <2>2. CASE Proceed(w, q)
      <3>1. j \in [op : {"certify"}, step : {"check", "act"}, source : PackDirs, out : PackDirs, todo : {j.todo}]
        BY <1>0, <1>1 DEF CheckCandidate, Doing, JobOK, Jobs
      <3>2. work' = [work EXCEPT ![w] = k] /\ UNCHANGED <<dirs, file, snapshots, marks>>
        BY <2>2 DEF Proceed
      <3>3. IsTodo(q) /\ \A i \in 1..Len(q) : \A t : Overwrites(q[i], t) => t = j.out /\ Before(q, i, "make", t)
        BY CertifiedDeeds
      <3>4. k.op = "certify" /\ k.step = "act" /\ k.out = j.out /\ k.todo = q /\ k \in Jobs({k.todo}, {k.meta})
        <4> HIDE DEF j, q
        <4> QED
          BY <3>1 DEF Jobs
      <3> HIDE DEF k
      <3>5. JobOK(k) /\ Prudent(k) /\ k.op = "certify"
        BY <3>3, <3>4 DEF JobOK, Prudent, WriterOps
      <3> QED
        BY <3>2, <3>5, NewJob
    <2> QED
      BY <1>1, <2>1, <2>2 DEF CheckCandidate
  <1>2. CASE CheckMerge(w)
    <2> DEFINE k == [op |-> "merge", step |-> "read", source |-> j.source, target |-> j.target, out |-> j.out,
                     meta |-> Meta(j.target), todo |-> << >>]
    <2>1. CASE Refuse(w)
      BY <2>1, RefuseKeeps
    <2>2. CASE ~Refuse(w)
      <3>1. j.source \in PackDirs /\ j.out \in PackDirs /\ j.target \in PackDirs
        BY <1>0, <1>2 DEF CheckMerge, Doing, JobOK, Jobs
      <3>2. work' = [work EXCEPT ![w] = k] /\ UNCHANGED <<dirs, file, snapshots, marks>> /\ j.target \in dirs
        BY <1>2, <2>2 DEF CheckMerge
      <3>3. JobOK(k) /\ Prudent(k) /\ k.target = j.target
        BY <3>1, NoTodo DEF JobOK, Jobs, Prudent
      <3> HIDE DEF k
      <3> QED
        BY <3>2, <3>3, NewJob
    <2> QED
      BY <2>1, <2>2
  <1>3. CASE NewVersion(w)
    <2> DEFINE o == j.out
               q == <<WriteTo(o, "meta", <<[Meta(o) EXCEPT !.status = "candidate", !.version = @ + 5]>>)>>
               k == [op |-> "transition", step |-> "act", todo |-> q]
    <2>1. CASE Refuse(w)
      BY <2>1, RefuseKeeps
    <2>2. CASE ~Refuse(w)
      <3>1. IsTodo(q) /\ \A i \in 1..Len(q) : \A t : ~Overwrites(q[i], t)
        BY MetaOnly
      <3>2. work' = [work EXCEPT ![w] = k] /\ UNCHANGED <<dirs, file, snapshots, marks>>
        BY <1>3, <2>2 DEF NewVersion
      <3> HIDE DEF q
      <3>3. JobOK(k) /\ Prudent(k) /\ k.op = "transition"
        BY <3>1 DEF JobOK, Jobs, Prudent
      <3> HIDE DEF k
      <3> QED
        BY <3>2, <3>3, NewJob
    <2> QED
      BY <2>1, <2>2
  <1> QED
    BY <1>1, <1>2, <1>3

\* What a merge found in its target is there, and it will take a snapshot
\* before it writes; a merge that meets another writer is overlapped.
LEMMA ReadKeeps ==
    ASSUME MergeInv, NEW w \in Workers, ReadAndMerge(w)
    PROVE  MergeInv'
  <1> DEFINE j == work[w]
             t == j.target
             o == j.out
  <1>1. CASE Refuse(w)
    BY <1>1, RefuseKeeps
  <1>2. CASE ~Refuse(w)
    <2>1. /\ j \in [op : {"merge"}, step : {"read", "act"}, source : PackDirs, target : PackDirs, out : PackDirs,
                    meta : {j.meta}, todo : {j.todo}]
          /\ j.op = "merge" /\ j.step = "read" /\ t \in PackDirs /\ o \in PackDirs /\ t \in dirs
      BY DEF MergeInv, WorkOK, JobOK, Jobs, ReadAndMerge, Doing, TargetsExist
    <2> DEFINE source == file[j.source]
               target == file[t]
               new == NewAt(source.claims, target.claims)
               claims == ByKey(target.claims \o [n \in DOMAIN new |-> source.claims[new[n]]])
               Own(i) == source.claims[i].prov # "none"
               provenance == target.provenance \o
                   [n \in DOMAIN new |-> IF Own(new[n]) THEN source.claims[new[n]] ELSE source.provenance[new[n]]]
    <2>2. PICK q \in MergedPacks(t, o, claims, provenance, j.meta) :
             work' = [work EXCEPT ![w].step = "act", ![w].todo = q]
      BY <1>2 DEF ReadAndMerge
    <2>3. /\ marks' = [marks EXCEPT
                !.overlapped = @ \cup (IF Writers(o) = {w} THEN {} ELSE {o}),
                !.held = @ \cup {<<t, file[t].claims[i]>> : i \in IF o = t THEN DOMAIN file[t].claims ELSE {}}]
          /\ UNCHANGED <<dirs, file, snapshots, used>>
      BY <1>2 DEF ReadAndMerge
    <2> HIDE DEF source, target, new, claims, Own, provenance
    <2>4. /\ IsTodo(q)
          /\ \A i \in 1..Len(q) : \A p : Overwrites(q[i], p) =>
                p = o /\ IF o = t THEN Before(q, i, "snapshot", p) ELSE Before(q, i, "make", p)
      BY <2>2, MergedDeeds
    <2> DEFINE k == [j EXCEPT !.step = "act", !.todo = q]
    <2>5. /\ JobOK(k) /\ k.op = "merge" /\ k.step = "act" /\ k.out = o /\ k.todo = q
      <3>1. k.op = "merge" /\ k.step = "act" /\ k.out = o /\ k.todo = q /\ k \in Jobs({k.todo}, {k.meta})
        <4> HIDE DEF j
        <4> QED
          BY <2>1 DEF Jobs
      <3> QED
        BY <2>4, <3>1 DEF JobOK
    <2>6. work'[w] = k /\ \A v \in Workers \ {w} : work'[v] = work[v]
      BY <2>2 DEF MergeInv, WorkOK
    <2>7. work' = [v \in Workers |-> work'[v]]
      BY <2>2 DEF MergeInv, WorkOK
    <2> HIDE DEF k
    <2>8. WorkOK'
      BY <2>5, <2>6, <2>7 DEF MergeInv, WorkOK
    <2>9. FilesOK'
      BY <2>3 DEF MergeInv, FilesOK
    <2>10. OwnOut'
      <3> SUFFICES ASSUME NEW v \in Workers, NEW i \in 1..Len(work'[v].todo), NEW p \in PackDirs,
                          Overwrites(work'[v].todo[i], p)
                   PROVE  work'[v].op \in WriterOps /\ work'[v].out = p
        BY DEF OwnOut
      <3>1. CASE v # w
        BY <2>6, <3>1 DEF MergeInv, OwnOut
      <3>2. CASE v = w
        BY <2>4, <2>5, <2>6, <3>2 DEF WriterOps
      <3> QED
        BY <3>1, <3>2
    <2> DEFINE found == {<<t, file[t].claims[i]>> : i \in IF o = t THEN DOMAIN file[t].claims ELSE {}}
    <2>11. MarksOK'
      BY <2>3 DEF MergeInv, MarksOK
    <2>12. /\ marks'.held = marks.held \cup found
           /\ marks.overlapped \subseteq marks'.overlapped
           /\ Writers(o) = {w} \/ o \in marks'.overlapped
           /\ \A h \in found : h[1] = t /\ o = t /\ h[2] \in Range(file[t].claims)
      <3>1. /\ marks'.held = marks.held \cup found
            /\ marks'.overlapped = marks.overlapped \cup (IF Writers(o) = {w} THEN {} ELSE {o})
        BY <2>3 DEF MergeInv, MarksOK
      <3>2. \A h \in found : h[1] = t /\ o = t /\ h[2] \in Range(file[t].claims)
        BY DEF Range
      <3> HIDE DEF found
      <3> QED
        BY <3>1, <3>2
    <2> HIDE DEF found
    <2>13. TargetsExist'
      BY <2>1, <2>3, <2>5, <2>6, <2>12 DEF MergeInv, TargetsExist, Doing
    <2>14. TargetRecoverable'
      BY <2>3, <2>12 DEF MergeInv, TargetRecoverable
    <2>15. ASSUME NEW p, p # t \/ o # t, Saved(p) PROVE Saved(p)'
      BY <2>3, <2>12, <2>15 DEF Saved
    <2>16. Careful'
      <3> SUFFICES ASSUME NEW v \in Workers, NEW i \in 1..Len(work'[v].todo), NEW p \in PackDirs \ marks'.overlapped,
                          Overwrites(work'[v].todo[i], p)
                   PROVE  \/ Saved(p)'
                          \/ Before(work'[v].todo, i, "snapshot", p)
                          \/ Before(work'[v].todo, i, "make", p)
        BY DEF Careful
      <3>1. CASE v = w
        BY <2>4, <2>5, <2>6, <3>1
      <3>2. CASE v # w /\ (p # t \/ o # t)
        BY <2>6, <2>12, <2>15, <3>2 DEF MergeInv, Careful
      <3>3. CASE v # w /\ p = t /\ o = t
        <4>1. v \in Writers(o)
          BY <2>6, <3>3 DEF MergeInv, OwnOut, Writers, WriterOps
        <4> QED
          BY <2>12, <3>3, <4>1
      <3> QED
        BY <3>1, <3>2, <3>3
    <2> QED
      BY <2>8, <2>9, <2>10, <2>11, <2>13, <2>14, <2>16 DEF MergeInv
  <1> QED
    BY <1>1, <1>2

\* The deeds themselves.
LEMMA DeedKeeps ==
    ASSUME MergeInv, NEW w \in Workers,
           MakeDirectory(w) \/ TakeSnapshot(w) \/ Truncate(w) \/ Fill(w)
    PROVE  MergeInv'
  <1>0. PICK n : n = Next1(w)
    OBVIOUS
  <1>1. work[w].todo # << >> /\ work[w].step = "act"
    BY DEF MakeDirectory, TakeSnapshot, Truncate, Fill, Has
  <1>2. n = work[w].todo[1] /\ 1 \in 1..Len(work[w].todo)
    BY <1>0, <1>1, TodoHead DEF MergeInv, WorkOK, JobOK, Next1
  <1>3. CASE MakeDirectory(w)
    <2>1. CASE Refuse(w)
      BY <2>1, RefuseKeeps
    <2>2. CASE ~Refuse(w)
      <3>1. /\ n.pack \notin dirs /\ dirs' = dirs \cup {n.pack} /\ work' = [work EXCEPT ![w].todo = Tail(@)]
            /\ UNCHANGED <<file, snapshots, marks>> /\ n.do = "make"
        BY <1>0, <1>3, <2>2 DEF MakeDirectory, Pop, Has
      <3>2. \A h \in marks.held : h[1] # n.pack
        BY <3>1 DEF MergeInv, TargetsExist
      <3>3. WorkOK' /\ OwnOut' /\ Careful' /\ TargetsExist'
        BY <1>0, <1>1, <3>1, <3>2, PopJob
      <3> QED
        BY <3>1, <3>3 DEF MergeInv, FilesOK, MarksOK, TargetRecoverable
    <2> QED
      BY <2>1, <2>2
  <1>4. CASE TakeSnapshot(w)
    <2>1. CASE Refuse(w)
      BY <2>1, RefuseKeeps
    <2>2. CASE ~Refuse(w)
      <3>1. /\ snapshots' = snapshots \cup {<<n.pack, file[n.pack].claims>>} /\ n.do = "snapshot"
            /\ work' = [work EXCEPT ![w].todo = Tail(@)] /\ UNCHANGED <<dirs, file, marks>>
        BY <1>0, <1>4, <2>2 DEF TakeSnapshot, Pop, Has
      <3>2. FilesOK' /\ MarksOK' /\ TargetRecoverable'
        BY <3>1 DEF MergeInv, FilesOK, MarksOK, TargetRecoverable
      <3>3. n.pack \notin marks.overlapped => Saved(n.pack)'
        <4> SUFFICES ASSUME n.pack \notin marks.overlapped, NEW h \in marks.held, h[1] = n.pack
                     PROVE  \E s \in snapshots' : s[1] = h[1] /\ h[2] \in Range(s[2])
          BY <3>1 DEF Saved
        <4>1. \/ h[2] \in Range(file[n.pack].claims)
              \/ \E s \in snapshots : s[1] = h[1] /\ h[2] \in Range(s[2])
          BY DEF MergeInv, TargetRecoverable
        <4>2. <<n.pack, file[n.pack].claims>>[1] = n.pack /\ <<n.pack, file[n.pack].claims>>[2] = file[n.pack].claims
          OBVIOUS
        <4> QED
          BY <3>1, <4>1, <4>2
      <3>4. WorkOK' /\ OwnOut' /\ Careful' /\ TargetsExist'
        BY <1>0, <1>1, <3>1, <3>3, PopJob
      <3> QED
        BY <3>2, <3>4 DEF MergeInv
    <2> QED
      BY <2>1, <2>2
  <1>5. CASE Truncate(w)
    <2>1. n.do \in {"write", "copy"} /\ UNCHANGED <<dirs, snapshots, marks>>
      BY <1>0, <1>5 DEF Truncate, Has
    <2>2. PICK rows : \/ file' = file /\ Pop(w)
                      \/ /\ file' = [file EXCEPT ![n.pack][n.file] = << >>]
                         /\ work' = [work EXCEPT ![w].todo =
                               <<[do |-> "fill", pack |-> n.pack, file |-> n.file, rows |-> rows]>> \o Tail(@)]
      BY <1>0, <1>5 DEF Truncate
    <2>3. CASE file' = file /\ Pop(w)
      <3>1. WorkOK' /\ OwnOut' /\ Careful' /\ TargetsExist'
        BY <1>0, <1>1, <2>1, <2>3, PopJob DEF Pop
      <3> QED
        BY <2>1, <2>3, <3>1 DEF MergeInv, FilesOK, MarksOK, TargetRecoverable
    <2>4. CASE /\ file' = [file EXCEPT ![n.pack][n.file] = << >>]
               /\ work' = [work EXCEPT ![w].todo =
                     <<[do |-> "fill", pack |-> n.pack, file |-> n.file, rows |-> rows]>> \o Tail(@)]
      <3> DEFINE z == [do |-> "fill", pack |-> n.pack, file |-> n.file, rows |-> rows]
      <3>1. z.do = "fill" /\ z.pack = n.pack /\ z.file = n.file
        OBVIOUS
      <3> HIDE DEF z
      <3>2. WorkOK' /\ OwnOut' /\ Careful' /\ TargetsExist'
        BY <1>0, <1>1, <2>1, <2>4, <3>1, SwapJob DEF z
      <3>3. FilesOK' /\ TargetRecoverable'
        BY <1>2, <2>1, <2>4, FileWritten
      <3> QED
        BY <2>1, <3>2, <3>3 DEF MergeInv, MarksOK
    <2> QED
      BY <2>2, <2>3, <2>4
  <1>6. CASE Fill(w)
    <2>1. n.do = "fill" /\ UNCHANGED <<dirs, snapshots, marks>> /\ work' = [work EXCEPT ![w].todo = Tail(@)]
      BY <1>0, <1>6 DEF Fill, Has, Pop
    <2>2. PICK rows : file' = [file EXCEPT ![n.pack][n.file] = rows]
      BY <1>0, <1>6 DEF Fill
    <2>3. WorkOK' /\ OwnOut' /\ Careful' /\ TargetsExist'
      BY <1>0, <1>1, <2>1, PopJob
    <2>4. FilesOK' /\ TargetRecoverable'
      BY <1>2, <2>1, <2>2, FileWritten
    <2> QED
      BY <2>1, <2>3, <2>4 DEF MergeInv, MarksOK
  <1> QED
    BY <1>3, <1>4, <1>5, <1>6

LEMMA KilledKeeps ==
    ASSUME MergeInv, NEW w \in Workers, Killed(w)
    PROVE  MergeInv'
  <1> DEFINE n == Next1(w)
  <1>1. work' = [work EXCEPT ![w] = Resting] /\ UNCHANGED <<dirs, snapshots, marks>>
    BY DEF Killed
  <1>2. MarksOK' /\ marks'.held = marks.held /\ marks'.overlapped = marks.overlapped
    BY <1>1 DEF MergeInv, MarksOK
  <1>3. FilesOK' /\ TargetRecoverable'
    <2>1. CASE Has(w, "fill")
      <3>1. PICK rows : file' = [file EXCEPT ![n.pack][n.file] = rows]
        BY <2>1 DEF Killed
      <3>2. n = work[w].todo[1] /\ 1 \in 1..Len(work[w].todo) /\ n.do = "fill"
        BY <2>1, TodoHead DEF MergeInv, WorkOK, JobOK, Next1, Has
      <3> QED
        BY <1>1, <1>2, <3>1, <3>2, FileWritten
    <2>2. CASE ~Has(w, "fill")
      BY <1>1, <1>2, <2>2 DEF Killed, MergeInv, FilesOK, TargetRecoverable
    <2> QED
      BY <2>1, <2>2
  <1>4. work'[w] = Resting /\ \A v \in Workers \ {w} : work'[v] = work[v]
    BY <1>1 DEF MergeInv, WorkOK
  <1>5. WorkOK'
    BY <1>1, <1>4, RestsPrudent DEF MergeInv, WorkOK
  <1>6. OwnOut'
    BY <1>4, RestsPrudent DEF MergeInv, OwnOut, Prudent
  <1>7. \A t : Saved(t) <=> Saved(t)'
    BY <1>1, <1>2 DEF Saved
  <1>8. Careful'
    BY <1>2, <1>4, <1>7, RestsPrudent DEF MergeInv, Careful, Prudent
  <1>9. TargetsExist'
    BY <1>1, <1>2, <1>4, RestsPrudent DEF MergeInv, TargetsExist, Doing
  <1> QED
    BY <1>2, <1>3, <1>5, <1>6, <1>8, <1>9 DEF MergeInv

LEMMA MergeInvStep == MergeInv /\ [WorkflowNext]_workflowVars => MergeInv'
  <1>1. ASSUME MergeInv, UNCHANGED workflowVars PROVE MergeInv'
    BY <1>1 DEF workflowVars, MergeInv, FilesOK, WorkOK, MarksOK, OwnOut, Careful, Saved, TargetsExist, Doing,
                TargetRecoverable
  <1>2. ASSUME MergeInv, NEW w \in Workers, Finish(w) PROVE MergeInv'
    BY <1>2, RefuseKeeps DEF Finish
  <1> QED
    BY <1>1, <1>2, CommandKeeps, CheckKeeps, ReadKeeps, DeedKeeps, KilledKeeps DEF WorkflowNext, WorkflowStep, Act

\* What a merge found in its target is in the target or in a snapshot of it,
\* wherever merges and their processes stop, unless two merges into it
\* overlapped (merge_certified_pack copies the target before it writes).
THEOREM MergesRecoverable == WorkflowSpec => []TargetRecoverable
  <1>1. MergeInv => TargetRecoverable
    BY DEF MergeInv
  <1> QED
    BY <1>1, MergeInvInit, MergeInvStep, PTL DEF WorkflowSpec
=============================================================================
