----------------------------- MODULE MCLibrary -----------------------------
(* Model values for the installed packs (PackRegistry), for the pack         *)
(* directories and their stores (RuntimeStore), for one pack that is         *)
(* sealed, signed and bundled (PackSealing), for one that is promoted and    *)
(* certified by the trust commands (MCTrust), and for what is compiled of    *)
(* canonical records (CompiledRuntime).  They share no state: a behaviour is *)
(* of two processes in one of these worlds, or of one process with a longer  *)
(* history in one of the second or third; two of the second have fewer       *)
(* commands to choose from and run more of them.                             *)
EXTENDS MCTrust, CompiledRuntime, PackRegistry, RuntimeStore, PackSealing

CONSTANT Worlds    \* the worlds a run is of

VARIABLE world

libraryVars == <<vars, runtimeVars, registryVars, storeVars, sealingVars, world>>

\* Installed packs: two versions of a, whose strings sort the other way
\* round, packs that need them, and two that need each other.
P(id, version, needs) == [id |-> id, version |-> version, needs |-> needs]

Need(id, versions) == [id |-> id, versions |-> versions]

MCSources ==
    {P("a", 9, << >>), P("a", 10, << >>), P("b", 1, <<Need("a", {9, 10})>>),
     P("c", 1, <<Need("b", {1}), Need("a", {10})>>),
     P("d", 1, <<Need("e", {1})>>), P("e", 1, <<Need("d", {1})>>)}

MCTextOrder == [v \in {1, 9, 10} |-> CASE v = 1 -> 1 [] v = 10 -> 2 [] v = 9 -> 3]

MCSpecs ==
    {<< <<"c", Latest>> >>, << <<"a", Latest>>, <<"b", 1>> >>, << <<"d", Latest>> >>}

\* Pack directories: a candidate or certified by hand, with a claim twice or
\* without provenance of its own; b the pack merged into; c not there yet.
Listed(key, prov) == [key |-> key, prov |-> prov]

Pack(id, status, claims) ==
    [claims |-> claims, provenance |-> claims, reports |-> << >>,
     meta |-> <<[id |-> id, version |-> 1, status |-> status, from |-> "none"]>>]

With(status, claims) ==
    [x \in {"a", "b"} |-> IF x = "a" THEN Pack("a", status, claims)
                          ELSE Pack("b", "candidate", <<Listed(2, "complete")>>)]

MCOrigin ==
    {With("candidate", <<Listed(1, "complete")>>),
     With("candidate", <<Listed(1, "complete"), Listed(1, "complete")>>),
     With("certified", <<Listed(2, "complete"), Listed(1, "none")>>)}

\* Where one process runs a command more.
MCAlone == With("candidate", <<Listed(1, "complete")>>)

\* A candidate on its own that lacks its provenance rows, so that there is
\* room for a version of it and one certified from that.
MCCopied == [x \in {"a"} |-> [Pack("a", "candidate", <<Listed(1, "complete")>>) EXCEPT !.provenance = << >>]]

\* Where b is merged into and compiled, three times in all, and then loaded.
MCStored == With("certified", <<Listed(1, "complete")>>)

MCStoreJobs ==
    {[op |-> "merge", step |-> "check", source |-> "a", target |-> "b", out |-> "b", todo |-> << >>],
     [op |-> "compile", step |-> "check", pack |-> "b", id |-> "b", todo |-> << >>],
     [op |-> "load", step |-> "measure", pack |-> "b", id |-> "b", todo |-> << >>]}

-----------------------------------------------------------------------------
\* Canonical records: two versions whose order is not that of the claim ids,
\* the second with claims that share an id, and with it a triple or not; one
\* record that is not valid, and no record.
CanonRecord(id, subject, relation, object, tier, lifecycle, status) ==
    [id |-> id, subject |-> subject, relation |-> relation, object |-> object, tier |-> tier,
     lifecycle |-> lifecycle, status |-> status, provenance |-> "p", hash |-> "matches"]

MCCanonFiles ==
    {<<CanonRecord(2, "rex", "has_type", "dog", 3, "certified", "VERIFIED"),
       CanonRecord(1, "dog", "implies", "animal", 1, "candidate", "UNVERIFIED")>>,
     <<CanonRecord(1, "Cat", "has_type", "dog", 2, "trusted", "FAILED"),
       CanonRecord(1, "cat", "has_type", "dog", 3, "candidate", "VERIFIED"),
       CanonRecord(2, "dog", "implies", "pet", 2, "trusted", "UNKNOWN"),
       CanonRecord(1, "cat", "has_type", "dog", 0, "trusted", "VERIFIED"),
       CanonRecord(1, "cat", "has_type", "ape", 1, "trusted", "UNVERIFIED"),
       CanonRecord(2, "ape", "implies", "pet", 1, "trusted", "UNVERIFIED")>>,
     <<[CanonRecord(1, "rex", "has_type", "cat", 0, "trusted", "VERIFIED") EXCEPT !.hash = "other"]>>,
     << >>}

ShelfRow(id, subject, relation, object, tier, derived) ==
    [id |-> id, subject |-> subject, relation |-> relation, object |-> object, tier |-> tier,
     status |-> "UNVERIFIED", provenance |-> "p", derived |-> derived]

MCShelfPacks ==
    {[id |-> "a", path |-> 1, lifecycle |-> "certified",
      rows |-> <<ShelfRow(1, "cat", "has_type", "dog", 3, FALSE), ShelfRow(2, "cat", "is", "pet", 0, TRUE)>>],
     [id |-> "b", path |-> 2, lifecycle |-> "candidate", rows |-> <<ShelfRow(1, "dog", "implies", "animal", 1, FALSE)>>],
     [id |-> "b", path |-> 3, lifecycle |-> "certified", rows |-> <<ShelfRow(1, "dog", "implies", "animal", 2, FALSE)>>]}

MCAlphabetical(text) ==
    CASE text = "ape" -> 1 [] text = "animal" -> 0 [] text = "cat" -> 2 [] text = "dog" -> 3 [] text = "pet" -> 4

MCQuestions ==
    LET all == [subject |-> Anything, relation |-> Anything, object |-> Anything, trusted |-> FALSE,
                policy |-> [block |-> {}, allow |-> {}, default |-> "allow"], inferred |-> FALSE, limit |-> 5]
    IN  {[all EXCEPT !.subject = "Cat"],
         [all EXCEPT !.subject = "cat", !.relation = "has_type", !.trusted = TRUE, !.inferred = TRUE, !.limit = 1],
         [all EXCEPT !.relation = "implies", !.policy.block = {"implies"}, !.policy.allow = {"implies"}],
         [all EXCEPT !.policy.default = ""],
         [all EXCEPT !.relation = "implies", !.object = "animal",
                     !.policy = [block |-> {"is"}, allow |-> {"implies"}, default |-> "block"]]}

-----------------------------------------------------------------------------
\* Who runs a command makes no difference.
CommandsAreAlike == Permutations(Installers)

\* d and e are installed together or not at all, c not yet; what is not the
\* world of a run stays as it is.
LibraryInit ==
    /\ RegistryInit
    /\ SealingInit
    /\ world \in Worlds
    /\ Init /\ (world # "trust" => pack = Busy)
    /\ RuntimeInit /\ (world # "compiled" => canon = << >>)
    /\ CASE world = "installed" ->
              /\ \A s \in Sources : s.id \in {"d", "e"} => (s \in registry <=> P("d", 1, <<Need("e", {1})>>) \in registry)
              /\ \A s \in registry : s.id # "c"
              /\ WorkflowStart(CHOOSE o \in Origin : TRUE, 0)
         [] world = "directories" -> registry = {} /\ \E o \in Origin : WorkflowStart(o, 1)
         [] world = "alone" -> registry = {} /\ WorkflowStart(MCAlone, 0)
         [] world = "copied" -> registry = {} /\ WorkflowStart(MCCopied, 0)
         [] world = "stores" -> registry = {} /\ WorkflowStart(MCStored, -1)
         [] OTHER -> registry = {} /\ WorkflowStart(CHOOSE o \in Origin : TRUE, 0)
    /\ StoreStart

\* One process seals once more than two do, but where two only seal and sign.
SealedNext ==
    CASE world = "sealed" -> SealingNext /\ counts'.jobs < MaxJobs
      [] world = "sealed alone" ->
           EditPack \/ DamageBundle \/ \E v \in Sealers : (\A u \in Sealers \ {v} : labour[u] = NoTask) /\ SealingStep(v)
      [] world = "signed" -> \E v \in Sealers : SealingStep(v) /\ labour'[v].op # "bundle"

\* Packs are not changed by what is compiled, so they are asked first.
CompiledNext ==
    \/ Revise
    \/ \E c \in Clients : ImageStep(c) \/ (done.requests = 0 /\ ShelfStep(c))

\* Where versions are certified while they are copied, and where a store is
\* compiled and loaded while a pack is merged, there are no other commands.
StoresNext ==
    \E w \in Workers :
        /\ world = "alone" => \A v \in Workers \ {w} : work[v] = Resting
        /\ StoreStep(w)
        /\ world = "stores" => /\ Cardinality({v \in Workers : work'[v].op = "merge"}) < 2
                               /\ used'.deaths # used.deaths => work[w].op = "merge"
        /\ work[w] = Resting => CASE world = "copied" -> work'[w].op \in {"version", "certify"}
                               [] world = "stores" -> /\ work'[w] \in MCStoreJobs
                                                      /\ used'.commands = MaxChores <=> work'[w].op = "load"
                               [] OTHER -> TRUE

\* Each world with what it leaves as it is.
LibraryNext ==
    /\ \/ world = "installed" /\ RegistryNext /\ UNCHANGED <<storeVars, sealingVars, vars, runtimeVars>>
       \/ world \in {"directories", "alone", "copied", "stores"} /\ StoresNext /\ UNCHANGED <<registryVars, sealingVars, vars, runtimeVars>>
       \/ world \in {"sealed", "sealed alone", "signed"} /\ SealedNext /\ UNCHANGED <<registryVars, storeVars, vars, runtimeVars>>
       \/ world = "trust" /\ Next /\ UNCHANGED <<registryVars, storeVars, sealingVars, runtimeVars>>
       \/ world = "compiled" /\ CompiledNext /\ UNCHANGED <<registryVars, storeVars, sealingVars, vars>>
    /\ UNCHANGED world

LibrarySpec == LibraryInit /\ [][LibraryNext]_libraryVars
=============================================================================
