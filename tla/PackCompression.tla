-------------------------- MODULE PackCompression --------------------------
(***************************************************************************)
(* Compressing a pack (vcse compress pack): its claims are brought into a  *)
(* canonical form, every name gets a number in the order of first sight,   *)
(* and seven files are written in place, one after the other, the table of *)
(* names before the claims that are numbers of it.  The output may be the  *)
(* pack itself, whose claims are then loaded from these files.             *)
(*                                                                         *)
(* A claim is its subject, relation and object; a blank field makes it     *)
(* malformed.  Qualifiers, provenance and the graph index are left out.    *)
(***************************************************************************)
EXTENDS Integers, Sequences, FiniteSets, SequencesExt

CONSTANTS
    Typists,          \* the processes
    Editions,         \* what claims.jsonl may hold
    Lower,            \* str.lower: a function on the names, relations too
    MaxJobs, MaxKills    \* bounds on jobs and editions, and on kills

Blank == ""

\* Relations that the canonical form or a rule of inference names.
NamedRelations ==
    {"is_a", "part_of", "precedes", "has_capital", "capital_of", "located_in_country", "located_in_region"}

\* Lowered twice is lowered once, and only a blank is lowered to a blank.
ASSUME CompressionAssumption ==
    /\ {MaxJobs, MaxKills} \subseteq Nat
    /\ Editions \subseteq Seq([1..3 -> DOMAIN Lower])
    /\ \A x \in DOMAIN Lower :
          Lower[x] \in DOMAIN Lower /\ Lower[Lower[x]] = Lower[x] /\ (Lower[x] = Blank => x = Blank)
    /\ \A r \in NamedRelations : r \in DOMAIN Lower /\ Lower[r] = r

VARIABLES
    sheet,       \* the rows of claims.jsonl
    pressed,     \* the compressed files
    typist,      \* the job of each process
    editions,    \* the rows there have been
    spent        \* jobs and kills so far

compressionVars == <<sheet, pressed, typist, editions, spent>>

Missing == [kind |-> "missing", of |-> << >>]

Garbled == [kind |-> "garbled", of |-> << >>]

\* A file written whole, of these rows; of the encoded claims perhaps only
\* the first, when the process was killed.
Written(rows, lines) == [kind |-> "whole", of |-> rows, lines |-> lines]

\* A file of which only that it is there matters.
Present == [kind |-> "whole", of |-> << >>, lines |-> 1]

WellFormed(row) == Blank \notin ToSet(row)

\* _RELATION_CANONICAL: variants of a relation, has_part among them, which
\* keeps its two ends.
CanonicalRelation(r) ==
    CASE r \in {"is_an", "isa", "type_of", "subclass_of", "subtypeof"} -> "is_a"
      [] r \in {"part", "has_part"} -> "part_of"
      [] r = "follows" -> "precedes"
      [] OTHER -> r

Canonical(row) == <<Lower[row[1]], CanonicalRelation(Lower[row[2]]), Lower[row[3]]>>

\* Malformed rows are dropped.
Canonicals(rows) ==
    LET kept == {i \in DOMAIN rows : WellFormed(rows[i])}
        nth(n) == CHOOSE i \in kept : Cardinality({j \in kept : j <= i}) = n
    IN  [n \in 1..Cardinality(kept) |-> Canonical(rows[nth(n)])]

\* Mutant: a known name moves to the end.
InternAgain(names, x) == Append(SelectSeq(names, LAMBDA y : y # x), x)

\* Interner.intern: a name keeps the number it has.
Intern(names, x) == IF x \in ToSet(names) THEN names ELSE Append(names, x)

InternClaim(names, claim) == Intern(Intern(Intern(names, claim[1]), claim[2]), claim[3])

\* The table after all claims.
Table(rows) ==
    LET claims == Canonicals(rows)
        after[n \in 0..Len(claims)] == IF n = 0 THEN << >> ELSE InternClaim(after[n - 1], claims[n])
    IN  after[Len(claims)]

\* encode_claim_from_canonical, claim by claim, with the table as it is then.
Numbered(rows) ==
    LET claims == Canonicals(rows)
        table == Table(rows)
        code(i) == LET names == InternClaim(table, claims[i])
                   IN  [f \in 1..3 |-> CHOOSE n \in DOMAIN names : names[n] = claims[i][f]]
    IN  [i \in DOMAIN claims |-> code(i)]

\* CompressedRuntimeIndex._resolve: a number without a name is blank.
Resolve(names, n) == IF n \in DOMAIN names THEN names[n] ELSE Blank

Decoded(table, encoded) ==
    LET names == Table(table.of)
        codes == SubSeq(Numbered(encoded.of), 1, encoded.lines)
    IN  [i \in DOMAIN codes |-> [f \in 1..3 |-> Resolve(names, codes[i][f])]]

-----------------------------------------------------------------------------
\* save_compressed's files in their order; of the rest only that they are there.
FileOrder == <<"manifest", "table", "encoded", "provenance", "graph", "originals", "metrics">>

OutputFiles == ToSet(FileOrder)

Unemployed == [op |-> "none"]

CompressionInit ==
    /\ sheet \in Editions
    /\ pressed = [f \in OutputFiles |-> Missing]
    /\ typist = [t \in Typists |-> Unemployed]
    /\ editions = {sheet}
    /\ spent = [jobs |-> 0, kills |-> 0]

\* One more job.
Begin ==
    /\ spent.jobs < MaxJobs
    /\ spent' = [spent EXCEPT !.jobs = @ + 1]

\* Whoever maintains the pack rewrites its claims.
Reedit ==
    /\ Begin
    /\ sheet' \in Editions \ {sheet}
    /\ editions' = editions \cup {sheet'}
    /\ UNCHANGED <<pressed, typist>>

\* optimize_pack reads the claims; nothing is written yet.
CompressPack(t) ==
    /\ typist[t] = Unemployed /\ Begin
    /\ typist' = [typist EXCEPT ![t] = [op |-> "compress", of |-> sheet, next |-> 1]]
    /\ UNCHANGED <<sheet, pressed, editions>>

\* The lines of a file that has a line for each claim.
LinesOf(f, rows) ==
    CASE f = "encoded" -> Len(Canonicals(rows)) [] f = "originals" -> Len(rows) [] OTHER -> 1

Contents(f, rows) ==
    IF f \in {"table", "encoded", "originals"} THEN Written(rows, LinesOf(f, rows)) ELSE Present

\* save_compressed: the next file, in place.
WriteNext(t) ==
    LET j == typist[t]
    IN  /\ j.op = "compress"
        /\ pressed' = [pressed EXCEPT ![FileOrder[j.next]] = Contents(FileOrder[j.next], j.of)]
        /\ typist' = [typist EXCEPT ![t] = IF j.next = Len(FileOrder) THEN Unemployed
                                            ELSE [j EXCEPT !.next = @ + 1]]
        /\ UNCHANGED <<sheet, editions, spent>>

\* The process is killed in a write: the file is empty or cut, and of the
\* encoded claims a line each the first may be there.  An empty file of
\* lines has no line.
KillWriter(t) ==
    LET j == typist[t]
        left == IF FileOrder[j.next] \in {"encoded", "originals"}
                THEN {Garbled} \cup {Written(j.of, n) : n \in 0..LinesOf(FileOrder[j.next], j.of)}
                ELSE {Garbled}
    IN  /\ j.op = "compress" /\ spent.kills < MaxKills
        /\ \E rest \in left : pressed' = [pressed EXCEPT ![FileOrder[j.next]] = rest]
        /\ typist' = [typist EXCEPT ![t] = Unemployed]
        /\ spent' = [spent EXCEPT !.kills = @ + 1]
        /\ UNCHANGED <<sheet, editions>>

CompressionNext ==
    \/ Reedit
    \/ \E t \in Typists : CompressPack(t) \/ WriteNext(t) \/ KillWriter(t)

-----------------------------------------------------------------------------
(* What readers make of the files. *)

\* load_compressed
CompressedLoads == \A f \in OutputFiles : pressed[f].kind = "whole"

\* verify_integrity: all files are there and load, every number has a name.
VerifiesIntact ==
    /\ CompressedLoads
    /\ \A row \in ToSet(Decoded(pressed["table"], pressed["encoded"])) : Blank \notin ToSet(row)

\* decompress_pack also compares claim by claim with the originals, malformed
\* ones counted, and fails at the first without its number.
Decompresses ==
    LET decoded == Decoded(pressed["table"], pressed["encoded"])
        originals == SubSeq(pressed["originals"].of, 1, pressed["originals"].lines)
    IN  /\ VerifiesIntact
        /\ \A i \in DOMAIN originals :
             /\ i \in DOMAIN decoded
             /\ WellFormed(originals[i]) => decoded[i] = Canonical(originals[i])

\* What decompress verify calls VALID is worth it: if the three files are of
\* one compression, not a mixture of two nor cut, what their numbers stand
\* for are the canonical claims of the originals, and decompress_pack, which
\* compares them, succeeds unless a malformed row shifted the lines.
ValidRestores ==
    LET originals == pressed["originals"].of
        complete == \A f \in {"table", "encoded", "originals"} :
                      pressed[f] = Contents(f, originals)
    IN  (complete /\ VerifiesIntact) =>
            /\ Decoded(pressed["table"], pressed["encoded"]) = Canonicals(originals)
            /\ (\A i \in DOMAIN originals : WellFormed(originals[i])) => Decompresses
=============================================================================
