-------------------------- MODULE CompiledRuntime --------------------------
(***************************************************************************)
(* The compiled runtime: records in the canonical format (cmcf) are        *)
(* compiled into a .csrf file with three indexes (vcse compile csrf), that *)
(* file into a proof index (vcse proof build), and both are asked (vcse    *)
(* query, reason, proof why), as are packs.  Commands of several processes *)
(* interleave: each save opens its file, which empties it, and fills it,   *)
(* and vcse reason reads the .csrf file twice.                             *)
(*                                                                         *)
(* Claim ids are numbers that stand for their place in the order of        *)
(* strings.  The order in which answers are printed is left out: which     *)
(* rows a limit keeps is any choice of that many.                          *)
(***************************************************************************)
EXTENDS Integers, Sequences, FiniteSets, FiniteSetsExt, SequencesExt

CONSTANTS
    Clients,         \* the processes
    CanonFiles,      \* what the file of canonical records may hold
    ShelfPacks,      \* the packs of the directory of packs
    Questions,       \* what vcse query is asked
    Plain(_),        \* normalize_entity
    Alphabetical(_), \* where a string comes in the order of strings
    ManyValued,      \* relations that may have several objects
    MaxRequests,     \* bound on the commands
    MaxRevisions,    \* bound on changes of the canonical records
    MaxAborts        \* bound on processes that die

\* Records and rows are lists; their ids, their tiers and the places of their
\* objects among the strings are numbers.
ASSUME RecordsAssumption ==
    /\ \A v \in CanonFiles :
         /\ v \in Seq(ToSet(v))
         /\ \A i \in DOMAIN v : v[i].id \in Int /\ v[i].tier \in Int /\ Alphabetical(v[i].object) \in Int
    /\ \A p \in ShelfPacks : p.rows \in Seq(ToSet(p.rows)) /\ \A i \in DOMAIN p.rows : p.rows[i].id \in Int

ASSUME QuestionsAssumption == \A q \in Questions : q.limit \in Nat

ASSUME RuntimeBounds == MaxRequests \in Nat /\ MaxRevisions \in Nat /\ MaxAborts \in Nat

VARIABLES
    canon,    \* the canonical records
    image,    \* the .csrf file and the proof index
    client,   \* the command of each process
    reply,    \* what the last step answered, if it answered
    past,     \* the canonical records so far, and whether a compile overlapped
    done      \* commands, revisions and deaths so far

runtimeVars == <<canon, image, client, reply, past, done>>

Anything == "anything"

CutFile == [whole |-> FALSE]

Ready == [step |-> "ready"]

NoReply == [kind |-> "none"]

TrustedStatuses == {"certified", "trusted"}

-----------------------------------------------------------------------------
(* Records and what is compiled of them. *)

\* validate_record: what may be wrong with one record.
ValidRecord(r) ==
    /\ "" \notin {r.subject, r.relation, r.object, r.provenance}
    /\ r.lifecycle \in {"candidate", "reviewed", "certified", "trusted", "blocked"}
    /\ r.status \in {"VERIFIED", "UNVERIFIED", "FAILED", "UNKNOWN"}
    /\ r.tier >= 0
    /\ r.hash = "matches"

\* Records by claim id, those of one id in the order they came.
ById(records) ==
    LET rank(i) == Cardinality({j \in DOMAIN records :
                      \/ records[j].id < records[i].id
                      \/ records[j].id = records[i].id /\ j <= i})
    IN  [n \in DOMAIN records |-> records[CHOOSE i \in DOMAIN records : rank(i) = n]]

\* Where the values of one field are found.
Positions(records, valueOf(_)) ==
    [v \in {valueOf(records[i]) : i \in DOMAIN records} |->
        {i \in DOMAIN records : valueOf(records[i]) = v}]

IndexOf(records, order) ==
    [whole |-> TRUE, records |-> records,
     bySubject |-> Positions(order, LAMBDA r : r.subject),
     byRelation |-> Positions(order, LAMBDA r : r.relation),
     byObject |-> Positions(order, LAMBDA r : r.object)]

\* Mutant: the indexes are built before the records are sorted.
CompileUnsorted(records) == IndexOf(ById(records), records)

CompileRecords(records) == IndexOf(ById(records), ById(records))

\* validate_csrf_index: positions are in range and every record is in each
\* index under its own value.
RuntimeValid(file) ==
    LET covers(map, valueOf(_)) ==
          /\ UNION {map[v] : v \in DOMAIN map} \subseteq DOMAIN file.records
          /\ \A i \in DOMAIN file.records :
               valueOf(file.records[i]) \in DOMAIN map /\ i \in map[valueOf(file.records[i])]
    IN  /\ \A i \in DOMAIN file.records : file.records[i].tier >= 0
        /\ covers(file.bySubject, LAMBDA r : r.subject)
        /\ covers(file.byRelation, LAMBDA r : r.relation)
        /\ covers(file.byObject, LAMBDA r : r.object)

\* A pack read as canonical records: the lifecycle is the pack's.
PackRecords(p) ==
    [i \in DOMAIN p.rows |->
        [id |-> p.rows[i].id, subject |-> p.rows[i].subject, relation |-> p.rows[i].relation,
         object |-> p.rows[i].object, tier |-> p.rows[i].tier, lifecycle |-> p.lifecycle,
         status |-> p.rows[i].status, provenance |-> p.rows[i].provenance, hash |-> "matches"]]

-----------------------------------------------------------------------------
(* Proof paths.  Each record is the proof of itself, of one step. *)

VerificationRank(status) ==
    CASE status = "VERIFIED" -> 0 [] status = "UNKNOWN" -> 1
      [] status = "UNVERIFIED" -> 2 [] status = "FAILED" -> 3 [] OTHER -> 99

\* The proof id is a hash of everything but lifecycle and provenance, so
\* records that differ in these alone are one proof.
ProofPath(r) ==
    [id |-> r.id, subject |-> r.subject, relation |-> r.relation, object |-> r.object,
     tier |-> r.tier, status |-> r.status]

ProofIndex(file) == [whole |-> TRUE, proofs |-> {ProofPath(file.records[i]) : i \in DOMAIN file.records}]

\* The order of the proofs of one claim; the hash decides between equals.
NoWorse(a, b) ==
    \/ VerificationRank(a.status) < VerificationRank(b.status)
    \/ VerificationRank(a.status) = VerificationRank(b.status) /\ a.tier >= b.tier

BestProofs(proofs, id) ==
    {p \in proofs : p.id = id /\ \A q \in proofs : q.id = id => NoWorse(p, q)}

-----------------------------------------------------------------------------
(* Queries. *)

\* load_policy: a file that says neither what is allowed nor what is blocked
\* by default is refused.
PolicyLoads(policy) == policy.default \in {"allow", "block"}

\* Mutant: allow overrides block.
AllowFirst(policy, relation) ==
    relation \in policy.allow \/ (relation \notin policy.block /\ policy.default = "allow")

\* PolicyEnforcer._evaluate for a relation: block overrides allow.
PolicyAllows(policy, relation) ==
    relation \notin policy.block /\ (relation \in policy.allow \/ policy.default = "allow")

SameText(expected, actual) == expected = actual \/ Plain(expected) = Plain(actual)

Matches(r, q) ==
    \A f \in {"subject", "relation", "object"} : q[f] = Anything \/ SameText(q[f], r[f])

\* lookup_indices: the value itself and keys that normalise alike.
LookupIndices(map, value) == UNION {map[k] : k \in {k \in DOMAIN map : SameText(value, k)}}

Row(r, pack) ==
    [subject |-> r.subject, relation |-> r.relation, object |-> r.object, id |-> r.id,
     tier |-> r.tier, lifecycle |-> r.lifecycle, pack |-> pack]

\* The first rows, as many as the limit says.
Limited(hits, limit) ==
    IF limit >= Cardinality(hits) THEN {hits} ELSE kSubset(limit, hits)

\* query_csrf: what rows may be answered.
QueryCompiled(file, q) ==
    LET candidates ==
          {i \in DOMAIN file.records :
             /\ q.subject # Anything => i \in LookupIndices(file.bySubject, q.subject)
             /\ q.relation # Anything => i \in LookupIndices(file.byRelation, q.relation)
             /\ q.object # Anything => i \in LookupIndices(file.byObject, q.object)}
        hits == {i \in candidates :
                   /\ q.trusted => file.records[i].lifecycle \in TrustedStatuses
                   /\ PolicyAllows(q.policy, file.records[i].relation)
                   /\ Matches(file.records[i], q)}
    IN  {{Row(file.records[i], "cmcf") : i \in kept} : kept \in Limited(hits, q.limit)}

\* _query_pack_paths: packs that are not trusted are skipped whole, and
\* inferred claims are not seen unless asked for.
QueryPacks(packs, q) ==
    LET usable(p) == q.trusted => p.lifecycle \in TrustedStatuses
        seen(r) == /\ ~q.inferred => ~r.derived
                   /\ PolicyAllows(q.policy, r.relation)
                   /\ Matches(r, q)
        hits == UNION {{p} \X {i \in DOMAIN p.rows : seen(p.rows[i])} : p \in {p \in packs : usable(p)}}
    IN  {{Row(PackRecords(h[1])[h[2]], h[1].id) : h \in kept} : kept \in Limited(hits, q.limit)}

-----------------------------------------------------------------------------
(* Reasoning across packs. *)

\* A claim that is reasoned from, and the directory and line it is read from.
Claim(r, pack, directory, line) ==
    [subject |-> r.subject, relation |-> r.relation, object |-> r.object, id |-> r.id, tier |-> r.tier,
     lifecycle |-> r.lifecycle, pack |-> pack, at |-> <<directory, line>>]

\* What an inference keeps of a claim.
Named(c) == [f \in {"pack", "id", "subject", "relation", "object"} |-> c[f]]

Joins(a, b) == a.relation = "has_type" /\ b.relation = "implies" /\ b.subject = a.object

\* Claims of one subject, relation, pack and id, in the order they are sorted.
ComesAfter(a, b) ==
    \/ Alphabetical(a.object) > Alphabetical(b.object)
    \/ a.object = b.object /\ a.at[1] > b.at[1]
    \/ a.object = b.object /\ a.at[1] = b.at[1] /\ a.at[2] > b.at[2]

\* cross_pack_reason with the one rule it has by default: of the pairs with
\* one subject, one object and the same claim ids the last counts, whatever
\* the tiers of the others.
CrossPackReason(claims) ==
    LET joined == {p \in claims \X claims : Joins(p[1], p[2])}
        key(p) == <<p[1].subject, p[2].object, p[1].pack, p[1].id, p[2].pack, p[2].id>>
        later(p, q) == ComesAfter(p[1], q[1]) \/ (p[1] = q[1] /\ ComesAfter(p[2], q[2]))
        last == {p \in joined : \A q \in joined : key(q) = key(p) => ~later(q, p)}
    IN  {[subject |-> p[1].subject, relation |-> "is", object |-> p[2].object,
          tier |-> Min({p[1].tier, p[2].tier}), from |-> <<Named(p[1]), Named(p[2])>>,
          status |-> "UNVERIFIED", proofs |-> 2] : p \in last}

\* detect_global_conflicts: a relation of one object with two.
GlobalConflicts(claims) ==
    LET clash(a, b) ==
          /\ a.subject = b.subject /\ a.relation = b.relation /\ a.object # b.object
          /\ a.relation \notin ManyValued
    IN  UNION {{[subject |-> a.subject, relation |-> a.relation, objects |-> {a.object, b.object}] :
                  b \in {b \in claims : clash(a, b)}} : a \in claims}

\* The claims of a .csrf file that reasoning starts from.
CompiledClaims(file, trusted) ==
    {Claim(file.records[i], "cmcf", 0, i) :
        i \in {i \in DOMAIN file.records : trusted => file.records[i].lifecycle \in TrustedStatuses}}

\* build_global_claim_graph over the packs that may be used.
GraphClaims(packs, trusted) ==
    UNION {{Claim(PackRecords(p)[i], p.id, p.path, i) :
              i \in {i \in DOMAIN p.rows : "" \notin {p.rows[i].subject, p.rows[i].relation, p.rows[i].object}}} :
        p \in {p \in packs : trusted => p.lifecycle \in TrustedStatuses}}

\* What --explain says of a row and of an inferred claim: the status the row
\* brings, if it brings one, and no more than its proofs allow.
ExplainClaim(row) ==
    IF "status" \in DOMAIN row /\ row.status \in {"VERIFIED", "UNVERIFIED", "FAILED"}
    THEN row.status ELSE "UNKNOWN"

ExplainInferred(claim) ==
    IF claim.proofs > 0 /\ claim.status \in {"VERIFIED", "FAILED"} THEN claim.status ELSE "UNVERIFIED"

Permitted(claims, policy) == {c \in claims : PolicyAllows(policy, c.relation)}

-----------------------------------------------------------------------------
RuntimeInit ==
    /\ canon \in CanonFiles
    /\ image = [f \in {"csrf", "proofs"} |-> CutFile]
    /\ client = [c \in Clients |-> Ready]
    /\ reply = NoReply
    /\ past = [canons |-> {canon}, clash |-> FALSE]
    /\ done = [requests |-> 0, revisions |-> 0, aborts |-> 0]

Begins(c) ==
    /\ client[c] = Ready /\ done.requests < MaxRequests
    /\ done' = [done EXCEPT !.requests = @ + 1]

\* A command that only reads, in one step.
Looks(c) == client[c] = Ready /\ UNCHANGED done

Answer(c, answer) ==
    /\ client' = [client EXCEPT ![c] = Ready]
    /\ reply' = answer

Failure(what) == [kind |-> "error", what |-> what]

\* Whoever maintains the records writes the file anew.
Revise ==
    /\ done.revisions < MaxRevisions
    /\ canon' \in CanonFiles \ {canon}
    /\ past' = [past EXCEPT !.canons = @ \cup {canon'}]
    /\ done' = [done EXCEPT !.revisions = @ + 1]
    /\ reply' = NoReply
    /\ UNCHANGED <<image, client>>

\* What is to be saved, under which name.
ToSave(c, file, content) ==
    /\ client' = [client EXCEPT ![c] = [step |-> "open", file |-> file, content |-> content]]
    /\ reply' = NoReply

\* A file without records is refused.
CanonLoads == canon # << >>

\* vcse compile csrf: one record that is not valid, or none at all, and
\* nothing is written.
CompileCsrf(c) ==
    /\ Begins(c)
    /\ IF CanonLoads /\ \A i \in DOMAIN canon : ValidRecord(canon[i])
       THEN ToSave(c, "csrf", CompileRecords(canon))
       ELSE Answer(c, Failure("cmcf"))
    /\ UNCHANGED <<canon, image, past>>

\* vcse proof build.
BuildProofs(c) ==
    /\ Begins(c)
    /\ IF image["csrf"].whole THEN ToSave(c, "proofs", ProofIndex(image["csrf"]))
       ELSE Answer(c, Failure("csrf"))
    /\ UNCHANGED <<canon, image, past>>

\* save_csrf and save_proof_index write in place: opening the file empties it.
OpenImage(c) ==
    /\ client[c].step = "open"
    /\ image' = [image EXCEPT ![client[c].file] = CutFile]
    /\ client' = [client EXCEPT ![c].step = "fill"]
    /\ past' = [past EXCEPT !.clash = @ \/
                  \E d \in Clients \ {c} : client[d].step \in {"second", "fill"}]
    /\ reply' = NoReply
    /\ UNCHANGED <<canon, done>>

\* Over what another process has put there since, a shorter text leaves the
\* rest of the longer one.
FillImage(c) ==
    LET file == client[c].file
    IN  /\ client[c].step = "fill"
        /\ image' \in {[image EXCEPT ![file] = content] :
              content \in {client[c].content} \cup (IF image[file] = CutFile THEN {} ELSE {CutFile})}
        /\ Answer(c, [kind |-> "saved"])
        /\ UNCHANGED <<canon, past, done>>

\* vcse query --csrf, and the query route, which validates the file as well.
QueryRuntime(c) ==
    /\ Looks(c)
    /\ IF ~image["csrf"].whole THEN Answer(c, Failure("csrf"))
       ELSE \E checked \in BOOLEAN, q \in Questions :
              IF checked /\ ~RuntimeValid(image["csrf"]) THEN Answer(c, Failure("runtime invalid"))
              ELSE IF ~PolicyLoads(q.policy) THEN Answer(c, Failure("policy"))
              ELSE \E rows \in QueryCompiled(image["csrf"], q) :
                     Answer(c, [kind |-> "csrf rows", question |-> q, rows |-> rows,
                                explained |-> {ExplainClaim(r) : r \in rows}])
    /\ UNCHANGED <<canon, image, past>>

\* vcse query --csrf of a file of canonical records, compiled on the way.
QueryCanon(c) ==
    /\ Looks(c)
    /\ IF ~CanonLoads \/ \E i \in DOMAIN canon : ~ValidRecord(canon[i]) THEN Answer(c, Failure("cmcf"))
       ELSE \E q \in {q \in Questions : PolicyLoads(q.policy)} :
            \E rows \in QueryCompiled(CompileRecords(canon), q) :
              Answer(c, [kind |-> "csrf rows", question |-> q, rows |-> rows,
                         explained |-> {ExplainClaim(r) : r \in rows}])
    /\ UNCHANGED <<canon, image, past>>

\* vcse query --packs and --pack, and --csrf of a directory: its claims are
\* compiled, and whether they were inferred is lost.
QueryShelf(c) ==
    /\ Looks(c)
    /\ \E q \in {q \in Questions : PolicyLoads(q.policy)}, packs \in {ShelfPacks} \cup {{p} : p \in ShelfPacks} :
         \/ \E rows \in QueryPacks(packs, q) :
              Answer(c, [kind |-> "pack rows", question |-> q, packs |-> packs, rows |-> rows])
         \/ \E p \in packs :
              /\ packs = {p} /\ \A r \in ToSet(PackRecords(p)) : ValidRecord(r)
              /\ \E rows \in QueryCompiled(CompileRecords(PackRecords(p)), q) :
                   Answer(c, [kind |-> "compiled pack rows", question |-> q, packs |-> packs, rows |-> rows])
    /\ UNCHANGED <<canon, image, past>>

\* vcse proof why.
ProofWhy(c) ==
    /\ Looks(c)
    /\ IF ~image["proofs"].whole THEN Answer(c, Failure("proofs"))
       ELSE \E id \in {p.id : p \in image["proofs"].proofs} :
              \E best \in BestProofs(image["proofs"].proofs, id) :
                Answer(c, [kind |-> "proof", proof |-> best])
    /\ UNCHANGED <<canon, image, past>>

\* vcse reason --csrf: the service reads and validates the file and infers
\* from all of it, under the default policy, which allows everything.
ReasonFirst(c) ==
    /\ Begins(c)
    /\ IF ~image["csrf"].whole \/ ~RuntimeValid(image["csrf"])
       THEN Answer(c, Failure(IF image["csrf"].whole THEN "runtime invalid" ELSE "csrf"))
       ELSE /\ \E trusted \in BOOLEAN, q \in Questions :
                 client' = [client EXCEPT ![c] =
                   [step |-> "second", trusted |-> trusted, policy |-> q.policy,
                    inferred |-> CrossPackReason(CompiledClaims(image["csrf"], trusted))]]
            /\ reply' = NoReply
    /\ UNCHANGED <<canon, image, past>>

Reasoned(trusted, policy, input, inferred) ==
    [kind |-> "reasoned", trusted |-> trusted, policy |-> policy, input |-> input, inferred |-> inferred,
     explained |-> {ExplainInferred(i) : i \in inferred},
     conflicts |-> GlobalConflicts(input \cup
        {[subject |-> i.subject, relation |-> i.relation, object |-> i.object, id |-> 0,
          tier |-> i.tier, lifecycle |-> "", pack |-> "global"] : i \in inferred})]

\* The command then reads it again: this is what the policy is applied to,
\* what is counted as input, and what conflicts are looked for in.
ReasonSecond(c) ==
    /\ client[c].step = "second"
    /\ Answer(c, IF ~image["csrf"].whole THEN Failure("csrf")
                 ELSE IF ~PolicyLoads(client[c].policy) THEN Failure("policy")
                 ELSE Reasoned(client[c].trusted, client[c].policy,
                        Permitted(CompiledClaims(image["csrf"], client[c].trusted), client[c].policy),
                        client[c].inferred))
    /\ UNCHANGED <<canon, image, past, done>>

\* vcse reason --packs: the policy comes first.
ReasonPacks(c) ==
    /\ Looks(c)
    /\ \E trusted \in BOOLEAN, q \in {q \in Questions : PolicyLoads(q.policy)} :
         LET input == Permitted(GraphClaims(ShelfPacks, trusted), q.policy)
         IN  Answer(c, [Reasoned(trusted, q.policy, input, CrossPackReason(input)) EXCEPT !.kind = "reasoned packs"])
    /\ UNCHANGED <<canon, image, past>>

AbortClient(c) ==
    /\ client[c] # Ready /\ done.aborts < MaxAborts
    /\ client' = [client EXCEPT ![c] = Ready]
    /\ done' = [done EXCEPT !.aborts = @ + 1]
    /\ reply' = NoReply
    /\ UNCHANGED <<canon, image, past>>

\* Packs are only read here, so what is asked of them depends on nothing else.
ShelfStep(c) == QueryShelf(c) \/ ReasonPacks(c)

ImageStep(c) ==
    \/ CompileCsrf(c) \/ BuildProofs(c) \/ OpenImage(c) \/ FillImage(c)
    \/ QueryRuntime(c) \/ QueryCanon(c) \/ ProofWhy(c)
    \/ ReasonFirst(c) \/ ReasonSecond(c) \/ AbortClient(c)

RuntimeNext == Revise \/ \E c \in Clients : ShelfStep(c) \/ ImageStep(c)

RuntimeSpec == RuntimeInit /\ [][RuntimeNext]_runtimeVars

-----------------------------------------------------------------------------
\* The claims of a set of canonical records, and what they imply, by
\* definition and without any index.
ClaimsOf(records, trusted) ==
    {Row(records[i], "cmcf") :
        i \in {i \in DOMAIN records : trusted => records[i].lifecycle \in TrustedStatuses}}

\* What docs/POLICY_ENFORCEMENT.md says of a policy.
Blocks(policy, relation) ==
    relation \in policy.block \/ (policy.default = "block" /\ relation \notin policy.allow)

AskedFor(records, q) ==
    {i \in DOMAIN records :
        /\ \A f \in {"subject", "relation", "object"} : q[f] = Anything \/ SameText(q[f], records[i][f])
        /\ q.trusted => records[i].lifecycle \in TrustedStatuses
        /\ ~Blocks(q.policy, records[i].relation)}

\* What is answered of a compiled file is what one version of the canonical
\* records says, through the sort, the three indexes, the proof index and
\* whatever compile or death came in between (runtime/compiler.py,
\* query/engine.py, proof/index.py): all the claims a question asks for and
\* no others, cut only by the limit; for a claim id a proof no other of that
\* version beats; and of any two claims that imply a third an inference with
\* their ids, no more trusted than two claims of that version which have the
\* ids it names and imply it.  (Of several claims with one id the inference
\* is of one, and may be more trusted than the others.)  What is answered of
\* packs is a claim of one of them that may be used, and no explanation calls
\* VERIFIED what the answer does not prove.
AnswersComeFromOneVersion(a, canons) ==
    /\ a.kind = "csrf rows" =>
         \E v \in canons :
            LET all == AskedFor(v, a.question) IN
            /\ a.rows \subseteq {Row(v[i], "cmcf") : i \in all}
            /\ Cardinality(all) <= a.question.limit => a.rows = {Row(v[i], "cmcf") : i \in all}
    /\ a.kind = "proof" =>
         \E v \in canons :
            /\ \E i \in DOMAIN v : ProofPath(v[i]) = a.proof
            /\ \A i \in DOMAIN v : v[i].id = a.proof.id => NoWorse(a.proof, v[i])
    /\ a.kind = "reasoned" =>
         \E v \in canons :
            /\ \A i \in a.inferred : \E x, y \in ClaimsOf(v, a.trusted) :
                 /\ Joins(x, y) /\ i.from = <<Named(x), Named(y)>>
                 /\ i.subject = x.subject /\ i.object = y.object
                 /\ i.tier <= x.tier /\ i.tier <= y.tier
            /\ \A x, y \in ClaimsOf(v, a.trusted) : Joins(x, y) =>
                 \E i \in a.inferred : /\ i.subject = x.subject /\ i.object = y.object
                                      /\ i.from[1].id = x.id /\ i.from[2].id = y.id
    /\ a.kind \in {"pack rows", "compiled pack rows"} =>
         \A row \in a.rows : \E p \in a.packs : \E i \in DOMAIN p.rows :
            /\ \A f \in {"id", "subject", "relation", "object", "tier"} : row[f] = p.rows[i][f]
            /\ row.lifecycle = p.lifecycle
            /\ a.question.trusted => p.lifecycle \in TrustedStatuses
            /\ (a.kind = "pack rows" /\ p.rows[i].derived) => a.question.inferred
    /\ "explained" \in DOMAIN a => "VERIFIED" \notin a.explained
    /\ a.kind # "error" \/ a.what # "runtime invalid"

\* An answer of vcse reason is about one version: unless a save came between
\* its two reads of the file, or two saves met, what it infers follows from
\* claims it counts as input, and over packs never from a blocked one
\* (cli.run_reason).  Over a compiled file it also infers from claims that
\* its policy blocks and leaves out of the input: NoSilentBypass.
ReasonsFromItsInput(a, clash) ==
    /\ (a.kind = "reasoned" /\ ~clash) =>
         \A i \in a.inferred : \A n \in 1..2 :
            (\E c \in a.input : Named(c) = i.from[n]) \/ Blocks(a.policy, i.from[n].relation)
    /\ a.kind = "reasoned packs" =>
         \A i \in a.inferred : \A n \in 1..2 :
            (\E c \in a.input : Named(c) = i.from[n]) /\ ~Blocks(a.policy, i.from[n].relation)

\* What is answered of a compiled file is whole, and is about its input.
RuntimeAnswersHold ==
    AnswersComeFromOneVersion(reply, past.canons) /\ ReasonsFromItsInput(reply, past.clash)

\* docs/POLICY_ENFORCEMENT.md has "no silent policy bypass" among its rules:
\* nothing is inferred from a claim that the policy of the command blocks.
NoSilentBypass ==
    reply.kind \in {"reasoned", "reasoned packs"} =>
        \A i \in reply.inferred : \A n \in 1..2 : ~Blocks(reply.policy, i.from[n].relation)
=============================================================================
