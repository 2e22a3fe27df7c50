------------------------------ MODULE PackProofs -------------------------------
(***************************************************************************)
(* Proofs about PackCompression and PackAnswers, for any editions of a     *)
(* pack, processes and questions: numbers that are called VALID stand for  *)
(* the claims, and facts that are told or promoted come from the pack.     *)
(***************************************************************************)
EXTENDS PackAnswers, OrderProofs, SequenceTheorems, TLAPS

Names == DOMAIN Lower

Claims == [1..3 -> Names]

-----------------------------------------------------------------------------
(* The table of names.                                                     *)

LEMMA LowerKnows ==
    /\ \A x \in Names : Lower[x] \in Names /\ Lower[Lower[x]] = Lower[x] /\ (Lower[x] = Blank => x = Blank)
    /\ \A r \in NamedRelations : r \in Names /\ Lower[r] = r
  <1>1. \A x \in DOMAIN Lower : Lower[x] \in DOMAIN Lower /\ Lower[Lower[x]] = Lower[x] /\ (Lower[x] = Blank => x = Blank)
    BY CompressionAssumption
  <1>2. \A r \in NamedRelations : r \in DOMAIN Lower /\ Lower[r] = r
    BY CompressionAssumption
  <1> QED
    BY <1>1, <1>2 DEF Names

LEMMA EditionRows ==
    ASSUME NEW rows \in Editions
    PROVE  rows \in Seq(Claims) /\ Len(rows) \in Nat /\ DOMAIN rows = 1..Len(rows)
           /\ \A i \in DOMAIN rows : rows[i] \in Claims
  <1>1. rows \in Seq(Claims)
    BY CompressionAssumption DEF Claims, Names
  <1> QED
    BY <1>1, LenProperties, ElementOfSeq

LEMMA CanonicalIsClaim ==
    ASSUME NEW row \in Claims
    PROVE  Canonical(row) \in Claims /\ (WellFormed(row) => WellFormed(Canonical(row)))
  <1>1. row[1] \in Names /\ row[2] \in Names /\ row[3] \in Names
    BY DEF Claims
  <1>2. \A r \in Names : CanonicalRelation(r) \in Names /\ (CanonicalRelation(r) = Blank => r = Blank)
    BY LowerKnows DEF CanonicalRelation, NamedRelations, Blank
  <1>3. Canonical(row) \in Claims
    BY <1>1, <1>2, LowerKnows DEF Canonical, Claims
  <1>4. \A c \in Claims : ToSet(c) = {c[1], c[2], c[3]}
    BY DEF Claims, ToSet
  <1>5. WellFormed(row) => WellFormed(Canonical(row))
    <2>1. ToSet(row) = {row[1], row[2], row[3]}
          /\ ToSet(Canonical(row)) = {Lower[row[1]], CanonicalRelation(Lower[row[2]]), Lower[row[3]]}
      BY <1>3, <1>4 DEF Canonical
    <2> QED
      BY <1>1, <1>2, <2>1, LowerKnows DEF WellFormed
  <1> QED
    BY <1>3, <1>5

\* The rows that are kept, in their order.
Kept(rows) == {i \in DOMAIN rows : WellFormed(rows[i])}

Nth(rows, n) == CHOOSE i \in Kept(rows) : Cardinality({j \in Kept(rows) : j <= i}) = n

LEMMA CanonicalsFromRows ==
    ASSUME NEW rows \in Editions
    PROVE  /\ Cardinality(Kept(rows)) \in Nat
           /\ Canonicals(rows) = [n \in 1..Cardinality(Kept(rows)) |-> Canonical(rows[Nth(rows, n)])]
           /\ \A n \in 1..Cardinality(Kept(rows)) :
                Nth(rows, n) \in Kept(rows) /\ Cardinality({j \in Kept(rows) : j <= Nth(rows, n)}) = n
           /\ \A i \in Kept(rows) : \E n \in 1..Cardinality(Kept(rows)) : Nth(rows, n) = i
  <1> DEFINE T == Kept(rows)
  <1>1. T \in SUBSET Nat /\ IsFiniteSet(T)
    <2>1. T \in SUBSET (1..Len(rows)) /\ Len(rows) \in Nat
      BY EditionRows DEF Kept
    <2>2. IsFiniteSet(1..Len(rows))
      BY <2>1, FS_Interval
    <2> HIDE DEF T
    <2>3. IsFiniteSet(T)
      BY <2>1, <2>2, FS_Subset
    <2> QED
      BY <2>1, <2>3
  <1>2. Canonicals(rows) = [n \in 1..Cardinality(T) |-> Canonical(rows[Nth(rows, n)])]
    BY DEF Canonicals, Kept, Nth
  <1> HIDE DEF T
  <1>3. /\ Cardinality(T) \in Nat
        /\ \A i \in T : Cardinality({j \in T : j <= i}) \in 1..Cardinality(T)
        /\ \A i, k \in T : Cardinality({j \in T : j <= i}) = Cardinality({j \in T : j <= k}) => i = k
        /\ \A n \in 1..Cardinality(T) : \E i \in T : Cardinality({j \in T : j <= i}) = n
    BY <1>1, Counting
  <1>4. \A n \in 1..Cardinality(T) : Nth(rows, n) \in T /\ Cardinality({j \in T : j <= Nth(rows, n)}) = n
    BY <1>3 DEF Nth, T
  <1>5. \A i \in T : \E n \in 1..Cardinality(T) : Nth(rows, n) = i
    <2> TAKE i \in T
    <2>1. Cardinality({j \in T : j <= i}) \in 1..Cardinality(T)
      BY <1>3
    <2>2. Nth(rows, Cardinality({j \in T : j <= i})) = i
      BY <1>3, <1>4, <2>1
    <2> QED
      BY <2>1, <2>2
  <1> QED
    BY <1>2, <1>3, <1>4, <1>5 DEF T

LEMMA CanonicalsAreClaims ==
    ASSUME NEW rows \in Editions
    PROVE  /\ Canonicals(rows) \in Seq(Claims) /\ Len(Canonicals(rows)) = Cardinality(Kept(rows))
           /\ Len(Canonicals(rows)) \in Nat /\ DOMAIN Canonicals(rows) = 1..Len(Canonicals(rows))
           /\ \A n \in DOMAIN Canonicals(rows) : Canonicals(rows)[n] \in Claims /\ WellFormed(Canonicals(rows)[n])
           /\ ToSet(Canonicals(rows)) = {Canonical(rows[i]) : i \in Kept(rows)}
  <1> DEFINE N == Cardinality(Kept(rows))
             at(n) == Canonical(rows[Nth(rows, n)])
  <1>1. N \in Nat /\ Canonicals(rows) = [n \in 1..N |-> at(n)]
        /\ (\A n \in 1..N : Nth(rows, n) \in Kept(rows))
        /\ \A i \in Kept(rows) : \E n \in 1..N : Nth(rows, n) = i
    BY CanonicalsFromRows
  <1>2. \A i \in Kept(rows) : Canonical(rows[i]) \in Claims /\ WellFormed(Canonical(rows[i]))
    BY EditionRows, CanonicalIsClaim DEF Kept
  <1>3. \A n \in 1..N : at(n) \in Claims /\ WellFormed(at(n))
    BY <1>1, <1>2
  <1>4. ToSet(Canonicals(rows)) = {Canonical(rows[i]) : i \in Kept(rows)}
    <2>1. ToSet(Canonicals(rows)) = {at(n) : n \in 1..N}
      BY <1>1 DEF ToSet
    <2> QED
      BY <1>1, <2>1
  <1> HIDE DEF N, at
  <1>5. Canonicals(rows) \in Seq(Claims) /\ Len(Canonicals(rows)) = N
    BY <1>1, <1>3
  <1>6. DOMAIN Canonicals(rows) = 1..N /\ \A n \in 1..N : Canonicals(rows)[n] = at(n)
    BY <1>1
  <1> QED
    BY <1>1, <1>3, <1>4, <1>5, <1>6 DEF N

\* When no row is malformed the canonical claims are those of the rows.
LEMMA CanonicalsOfWhole ==
    ASSUME NEW rows \in Editions, \A i \in DOMAIN rows : WellFormed(rows[i])
    PROVE  Len(Canonicals(rows)) = Len(rows) /\ \A i \in DOMAIN rows : Canonicals(rows)[i] = Canonical(rows[i])
  <1> DEFINE N == Len(rows)
  <1>1. N \in Nat /\ DOMAIN rows = 1..N
    BY EditionRows
  <1>2. Kept(rows) = 1..N
    BY <1>1 DEF Kept
  <1>3. \A n \in Nat : Cardinality(1..n) = n
    BY FS_Interval
  <1>4. Canonicals(rows) = [n \in 1..N |-> Canonical(rows[Nth(rows, n)])]
        /\ \A n \in 1..N : Nth(rows, n) \in 1..N /\ Cardinality({j \in 1..N : j <= Nth(rows, n)}) = n
    BY <1>1, <1>2, <1>3, CanonicalsFromRows
  <1>5. \A n \in 1..N : Nth(rows, n) = n
    <2> TAKE n \in 1..N
    <2>1. Nth(rows, n) \in 1..N /\ Cardinality({j \in 1..N : j <= Nth(rows, n)}) = n
      BY <1>4
    <2>2. {j \in 1..N : j <= Nth(rows, n)} = 1..Nth(rows, n)
      BY <1>1, <2>1
    <2>3. Cardinality(1..Nth(rows, n)) = Nth(rows, n)
      BY <1>1, <1>3, <2>1
    <2>4. Cardinality(1..Nth(rows, n)) = n
      BY <2>1, <2>2
    <2> QED
      BY <2>3, <2>4
  <1>6. Len(Canonicals(rows)) = N
    BY <1>1, <1>4
  <1> QED
    BY <1>1, <1>4, <1>5, <1>6

-----------------------------------------------------------------------------
(* The table, claim by claim.  What is defined by recursion over the       *)
(* claims is there, and has what the claims named, for otherwise there     *)
(* would be a first place where it is not.                                 *)

LEMMA InternKeeps ==
    ASSUME NEW names \in Seq(Names), NEW x \in Names
    PROVE  /\ Intern(names, x) \in Seq(Names)
           /\ ToSet(names) \subseteq ToSet(Intern(names, x)) /\ x \in ToSet(Intern(names, x))
           /\ x \in ToSet(names) => Intern(names, x) = names
  <1>1. CASE x \in ToSet(names)
    BY <1>1 DEF Intern
  <1>2. CASE x \notin ToSet(names)
    <2>1. Intern(names, x) = Append(names, x)
      BY <1>2 DEF Intern
    <2>2. /\ Append(names, x) \in Seq(Names) /\ Len(Append(names, x)) = Len(names) + 1
          /\ \A i \in 1..Len(names) : Append(names, x)[i] = names[i]
          /\ Append(names, x)[Len(names) + 1] = x
      BY AppendProperties
    <2>3. Len(names) \in Nat /\ DOMAIN names = 1..Len(names)
          /\ DOMAIN Append(names, x) = 1..(Len(names) + 1)
      BY <2>2, LenProperties
    <2>4. \A y \in ToSet(names) : y \in ToSet(Append(names, x))
      BY <2>2, <2>3 DEF ToSet
    <2>5. x \in ToSet(Append(names, x))
      <3>1. Len(names) + 1 \in DOMAIN Append(names, x)
        BY <2>3
      <3> QED
        BY <2>2, <3>1 DEF ToSet
    <2> QED
      BY <1>2, <2>1, <2>2, <2>4, <2>5
  <1> QED
    BY <1>1, <1>2

Fields(claim) == {claim[1], claim[2], claim[3]}

LEMMA InternClaimKeeps ==
    ASSUME NEW names \in Seq(Names), NEW claim \in Claims
    PROVE  /\ InternClaim(names, claim) \in Seq(Names)
           /\ ToSet(names) \cup Fields(claim) \subseteq ToSet(InternClaim(names, claim))
           /\ Fields(claim) \subseteq ToSet(names) => InternClaim(names, claim) = names
  <1> DEFINE x == claim[1]
             y == claim[2]
             z == claim[3]
             a == Intern(names, x)
             b == Intern(a, y)
             c == Intern(b, z)
  <1>1. x \in Names /\ y \in Names /\ z \in Names
    BY DEF Claims
  <1>2. InternClaim(names, claim) = c /\ Fields(claim) = {x, y, z}
    BY DEF InternClaim, Fields
  <1> HIDE DEF x, y, z
  <1>3. a \in Seq(Names) /\ ToSet(names) \subseteq ToSet(a) /\ x \in ToSet(a) /\ (x \in ToSet(names) => a = names)
    BY <1>1, InternKeeps
  <1> HIDE DEF a
  <1>4. b \in Seq(Names) /\ ToSet(a) \subseteq ToSet(b) /\ y \in ToSet(b) /\ (y \in ToSet(a) => b = a)
    BY <1>1, <1>3, InternKeeps
  <1> HIDE DEF b
  <1>5. c \in Seq(Names) /\ ToSet(b) \subseteq ToSet(c) /\ z \in ToSet(c) /\ (z \in ToSet(b) => c = b)
    BY <1>1, <1>4, InternKeeps
  <1> HIDE DEF c
  <1> QED
    BY <1>2, <1>3, <1>4, <1>5

\* A table g of the first n claims.
Tabled(g, claims, n) == g = [m \in 0..n |-> IF m = 0 THEN << >> ELSE InternClaim(g[m - 1], claims[m])]

LEMMA TableExists ==
    ASSUME NEW claims, NEW n \in Nat
    PROVE  \E g : Tabled(g, claims, n)
  <1> DEFINE B == {m \in Nat : ~ \E g : Tabled(g, claims, m)}
  <1> SUFFICES ASSUME B # {} PROVE FALSE
    OBVIOUS
  <1>1. PICK b \in B : \A m \in B : b <= m
    <2>1. B \in SUBSET Nat
      OBVIOUS
    <2> HIDE DEF B
    <2> QED
      BY <2>1, LeastNumber
  <1>2. b # 0
    <2> DEFINE g == [m \in 0..0 |-> << >>]
    <2>1. Tabled(g, claims, 0)
      BY DEF Tabled
    <2> QED
      BY <2>1
  <1>3. b \in Nat /\ b - 1 \in Nat /\ ~(b <= b - 1)
    BY <1>1, <1>2
  <1>4. b - 1 \notin B
    BY <1>1, <1>3
  <1>5. PICK g : Tabled(g, claims, b - 1)
    BY <1>3, <1>4
  <1> DEFINE h == [m \in 0..b |-> IF m = b THEN InternClaim(g[b - 1], claims[b]) ELSE g[m]]
  <1>6. \A m \in 0..(b - 1) : h[m] = g[m]
    BY <1>3
  <1>7. \A m \in 0..b : h[m] = IF m = 0 THEN << >> ELSE InternClaim(h[m - 1], claims[m])
    <2> TAKE m \in 0..b
    <2>1. CASE m = b
      <3>1. h[m] = InternClaim(g[b - 1], claims[b]) /\ h[b - 1] = g[b - 1]
        BY <1>3, <1>6, <2>1
      <3> HIDE DEF h
      <3> QED
        BY <1>2, <2>1, <3>1
    <2>2. CASE m # b
      <3>1. m \in 0..(b - 1)
        BY <1>3, <2>2
      <3>2. g[m] = IF m = 0 THEN << >> ELSE InternClaim(g[m - 1], claims[m])
        BY <1>5, <3>1 DEF Tabled
      <3>3. m # 0 => m - 1 \in 0..(b - 1)
        BY <1>3, <3>1
      <3>4. h[m] = g[m] /\ (m # 0 => h[m - 1] = g[m - 1])
        BY <1>6, <3>1, <3>3
      <3> HIDE DEF h
      <3> QED
        BY <3>2, <3>4
    <2> QED
      BY <2>1, <2>2
  <1>8. DOMAIN h = 0..b /\ h = [m \in 0..b |-> h[m]]
    OBVIOUS
  <1>9. Tabled(h, claims, b)
    <2> HIDE DEF h
    <2> QED
      BY <1>7, <1>8 DEF Tabled
  <1>10. \E f : Tabled(f, claims, b)
    BY <1>9
  <1> QED
    BY <1>1, <1>10

LEMMA TableIsLast ==
    ASSUME NEW rows \in Editions
    PROVE  \E g : Tabled(g, Canonicals(rows), Len(Canonicals(rows))) /\ Table(rows) = g[Len(Canonicals(rows))]
  <1> DEFINE claims == Canonicals(rows)
             n == Len(claims)
             after == CHOOSE g : g = [m \in 0..n |-> IF m = 0 THEN << >> ELSE InternClaim(g[m - 1], claims[m])]
  <1>1. n \in Nat
    BY CanonicalsAreClaims
  <1>2. Table(rows) = after[n]
    BY DEF Table
  <1>3. \E g : g = [m \in 0..n |-> IF m = 0 THEN << >> ELSE InternClaim(g[m - 1], claims[m])]
    <2>1. \E g : Tabled(g, claims, n)
      BY <1>1, TableExists
    <2> QED
      BY <2>1 DEF Tabled
  <1>4. after = [m \in 0..n |-> IF m = 0 THEN << >> ELSE InternClaim(after[m - 1], claims[m])]
    BY <1>3
  <1>5. Tabled(after, claims, n)
    BY <1>4 DEF Tabled
  <1> HIDE DEF after
  <1> QED
    BY <1>2, <1>5

\* Every name of a claim is in the table.
LEMMA TableHasNames ==
    ASSUME NEW rows \in Editions
    PROVE  /\ Table(rows) \in Seq(Names)
           /\ \A i \in DOMAIN Canonicals(rows) : Fields(Canonicals(rows)[i]) \subseteq ToSet(Table(rows))
  <1> DEFINE claims == Canonicals(rows)
             N == Len(claims)
  <1>1. N \in Nat /\ DOMAIN claims = 1..N /\ \A i \in 1..N : claims[i] \in Claims
    BY CanonicalsAreClaims
  <1>2. PICK g : Tabled(g, claims, N) /\ Table(rows) = g[N]
    BY TableIsLast
  <1> HIDE DEF claims, N
  <1>3. \A m \in 0..N : g[m] = IF m = 0 THEN << >> ELSE InternClaim(g[m - 1], claims[m])
    BY <1>2 DEF Tabled
  <1> DEFINE Has(m) == g[m] \in Seq(Names) /\ \A i \in 1..m : Fields(claims[i]) \subseteq ToSet(g[m])
             B == {m \in 0..N : ~Has(m)}
  <1>4. B = {}
    <2> SUFFICES ASSUME B # {} PROVE FALSE
      OBVIOUS
    <2>1. PICK b \in B : \A m \in B : b <= m
      <3>1. B \in SUBSET Nat
        BY <1>1
      <3> HIDE DEF B
      <3> QED
        BY <3>1, LeastNumber
    <2>2. b \in 0..N /\ ~Has(b)
      OBVIOUS
    <2>3. Has(0)
      <3>1. 0 \in 0..N /\ \A i : i \notin 1..0
        BY <1>1
      <3>2. g[0] = << >>
        BY <1>3, <3>1
      <3>3. << >> \in Seq(Names)
        OBVIOUS
      <3> QED
        BY <3>1, <3>2, <3>3
    <2>4. b # 0
      <3> HIDE DEF Has
      <3> QED
        BY <2>2, <2>3
    <2>5. b - 1 \in 0..N /\ b \in 1..N /\ ~(b <= b - 1)
      BY <1>1, <2>2, <2>4
    <2>6. Has(b - 1)
      <3> HIDE DEF Has
      <3> QED
        BY <2>1, <2>5
    <2>7. g[b] = InternClaim(g[b - 1], claims[b])
      BY <1>3, <2>4, <2>5
    <2>8. g[b] \in Seq(Names) /\ ToSet(g[b - 1]) \cup Fields(claims[b]) \subseteq ToSet(g[b])
      BY <1>1, <2>5, <2>6, <2>7, InternClaimKeeps
    <2>9. \A i \in 1..b : i \in 1..(b - 1) \/ i = b
      BY <2>5
    <2>10. Has(b)
      BY <2>6, <2>8, <2>9
    <2> QED
      <3> HIDE DEF Has
      <3> QED
        BY <2>2, <2>10
  <1>5. Has(N)
    <2> HIDE DEF Has
    <2> QED
      BY <1>1, <1>4
  <1> QED
    BY <1>1, <1>2, <1>5 DEF claims

\* Numbers stand for the claims they were given for.
LEMMA NumbersStandForClaims ==
    ASSUME NEW rows \in Editions, NEW i \in DOMAIN Canonicals(rows), NEW f \in 1..3
    PROVE  /\ DOMAIN Numbered(rows) = DOMAIN Canonicals(rows)
           /\ Resolve(Table(rows), Numbered(rows)[i][f]) = Canonicals(rows)[i][f]
  <1> DEFINE claims == Canonicals(rows)
             table == Table(rows)
             code(k) == LET names == InternClaim(table, claims[k])
                        IN  [e \in 1..3 |-> CHOOSE n \in DOMAIN names : names[n] = claims[k][e]]
  <1>1. Numbered(rows) = [k \in DOMAIN claims |-> code(k)]
    BY DEF Numbered
  <1>2. claims[i] \in Claims /\ table \in Seq(Names) /\ Fields(claims[i]) \subseteq ToSet(table)
    BY CanonicalsAreClaims, TableHasNames
  <1> HIDE DEF claims, table
  <1>3. InternClaim(table, claims[i]) = table
    BY <1>2, InternClaimKeeps
  <1>4. claims[i][f] \in Fields(claims[i])
    <2>1. f = 1 \/ f = 2 \/ f = 3
      OBVIOUS
    <2> QED
      BY <2>1 DEF Fields
  <1>5. PICK n \in DOMAIN table : table[n] = claims[i][f]
    BY <1>2, <1>4 DEF ToSet
  <1>6. code(i)[f] = CHOOSE m \in DOMAIN table : table[m] = claims[i][f]
    BY <1>3
  <1>7. code(i)[f] \in DOMAIN table /\ table[code(i)[f]] = claims[i][f]
    BY <1>5, <1>6
  <1> HIDE DEF code
  <1>8. DOMAIN Numbered(rows) = DOMAIN claims /\ Numbered(rows)[i] = code(i)
    BY <1>1 DEF claims
  <1> QED
    BY <1>7, <1>8 DEF Resolve, claims, table

\* The first lines of the numbers, with their own table, are the first of the
\* claims.
LEMMA DecodedClaims ==
    ASSUME NEW rows \in Editions, NEW table, table.of = rows, NEW encoded, encoded.of = rows,
           encoded.lines \in 0..Len(Canonicals(rows))
    PROVE  Decoded(table, encoded) = SubSeq(Canonicals(rows), 1, encoded.lines)
  <1> DEFINE claims == Canonicals(rows)
             names == Table(rows)
             numbers == Numbered(rows)
             k == encoded.lines
             codes == SubSeq(numbers, 1, k)
  <1>1. claims \in Seq(Claims) /\ DOMAIN claims = 1..Len(claims) /\ Len(claims) \in Nat
        /\ \A i \in DOMAIN claims : claims[i] \in Claims
    BY CanonicalsAreClaims
  <1>2. DOMAIN numbers = DOMAIN claims
        /\ \A i \in DOMAIN claims, f \in 1..3 : Resolve(names, numbers[i][f]) = claims[i][f]
    <2>1. \A i \in DOMAIN claims, f \in 1..3 : Resolve(names, numbers[i][f]) = claims[i][f]
      BY NumbersStandForClaims
    <2>2. DOMAIN numbers = DOMAIN claims
      BY DEF Numbered
    <2> QED
      BY <2>1, <2>2
  <1>3. Decoded(table, encoded) = [i \in DOMAIN codes |-> [f \in 1..3 |-> Resolve(names, codes[i][f])]]
    BY DEF Decoded
  <1>4. codes = [i \in 1..k |-> numbers[i]] /\ SubSeq(claims, 1, k) = [i \in 1..k |-> claims[i]]
    <2>1. \A s : SubSeq(s, 1, k) = [i \in 1..k |-> s[i]]
      <3>1. k \in Nat
        BY <1>1
      <3> HIDE DEF k
      <3> QED
        BY <3>1
    <2> QED
      BY <2>1
  <1> HIDE DEF claims, names, numbers, codes
  <1>5. \A i \in 1..k : i \in DOMAIN claims
    BY <1>1 DEF claims
  <1>6. DOMAIN codes = 1..k /\ \A i \in 1..k : codes[i] = numbers[i]
    BY <1>4
  <1>7. \A i \in 1..k : [f \in 1..3 |-> Resolve(names, codes[i][f])] = claims[i]
    <2> TAKE i \in 1..k
    <2>1. \A f \in 1..3 : Resolve(names, codes[i][f]) = claims[i][f]
      BY <1>2, <1>5, <1>6
    <2>2. claims[i] = [f \in 1..3 |-> claims[i][f]]
      BY <1>1, <1>5 DEF Claims
    <2> QED
      BY <2>1, <2>2
  <1>8. Decoded(table, encoded) = [i \in 1..k |-> claims[i]]
    BY <1>3, <1>6, <1>7
  <1> QED
    BY <1>4, <1>8 DEF claims

-----------------------------------------------------------------------------
(* The inductive invariant of AnswerSpec: the files, the loaded claims and *)
(* the store are of editions there have been, what is to be promoted       *)
(* follows of what was read first.                                         *)

Compared == {"table", "encoded", "originals"}

FilesOK(files, eds) ==
    /\ DOMAIN files = OutputFiles
    /\ \A f \in Compared : files[f].kind = "whole" => files[f].of \in eds /\ files[f].lines \in 0..LinesOf(f, files[f].of)

\* Rows of an edition, or the first of its claims.
RowsOfEdition(rows, v, cut) ==
    \/ rows = v
    \/ \E k \in 0..Len(Canonicals(v)) :
          rows = SubSeq(Canonicals(v), 1, k) /\ (~cut => k = Len(Canonicals(v)))

Implied(rows, stable) == \A s \in stable : Follows(Usable(rows), s.claim)

ReaderOK(j, eds) ==
    /\ DOMAIN j = {"op", "seen", "stable", "step", "table", "rows", "mixed", "cut"}
    /\ j.step \in {"claims", "loaded"}
    /\ j.step = "claims" => j.table.kind = "whole" /\ j.table.of \in eds
    /\ (j.step = "loaded" /\ ~j.mixed) => \E v \in eds : RowsOfEdition(j.rows, v, j.cut)
    /\ (j.op = "promote" /\ j.seen # None) => Implied(j.seen, j.stable)

JobOK(j, eds) ==
    /\ j.op \in {"none", "compress", "ask", "promote", "fill"}
    /\ j.op = "compress" => DOMAIN j = {"op", "of", "next"} /\ j.of \in eds /\ j.next \in 1..7
    /\ j.op \in {"ask", "promote"} => ReaderOK(j, eds)

\* A promoted claim follows of what was read, and so does it of its sources.
Founded(list, of) ==
    \A x \in list :
        /\ \E rows \in of : Follows(Usable(rows), x.claim)
        /\ x.from # << >> => Backs(x.from, x.claim) /\ \E rows \in of : ToSet(x.from) \subseteq Usable(rows)

FillOK(j, pack) ==
    /\ DOMAIN j = {"op", "file", "list"} /\ DOMAIN pack = {"made", "claims", "provenance", "meta", "of"}
    /\ pack.made /\ ~pack.meta /\ Founded(j.list, pack.of)
    /\ j.file \in {"claims", "provenance", "meta"}
    /\ j.file \in {"provenance", "meta"} => pack.claims = j.list
    /\ j.file = "meta" => pack.provenance = j.list

PackOK(pack, jobs) ==
    /\ \A t \in Typists : jobs[t].op = "fill" => FillOK(jobs[t], pack)
    /\ \A t, u \in Typists : jobs[t].op = "fill" /\ jobs[u].op = "fill" => t = u
    /\ (pack.made /\ pack.meta) => pack.claims = pack.provenance /\ Founded(pack.claims, pack.of)

Inv ==
    /\ sheet \in editions /\ editions \subseteq Editions /\ compiled \in editions \cup {None}
    /\ FilesOK(pressed, editions)
    /\ DOMAIN typist = Typists /\ \A t \in Typists : JobOK(typist[t], editions)
    /\ PackOK(promoted, typist)

LEMMA NextFile == \A n \in 1..7 : FileOrder[n] \in OutputFiles
  <1>1. DOMAIN FileOrder = 1..7
    BY DEF FileOrder
  <1> QED
    BY <1>1 DEF OutputFiles, ToSet

LEMMA LinesAreNumbers ==
    ASSUME NEW rows \in Editions, NEW f
    PROVE  LinesOf(f, rows) \in Nat
  BY CanonicalsAreClaims, EditionRows DEF LinesOf

\* Later editions change nothing for the jobs that go on.
LEMMA JobsGoOn ==
    ASSUME NEW j, NEW old, NEW new, old \subseteq new, JobOK(j, old)
    PROVE  JobOK(j, new)
  BY DEF JobOK, ReaderOK

\* A job that takes the place of another that fills no pack, and fills none.
LEMMA OtherJob ==
    ASSUME NEW pack, NEW jobs, DOMAIN jobs = Typists, PackOK(pack, jobs), NEW t \in Typists, NEW j,
           j.op # "fill"
    PROVE  PackOK(pack, [jobs EXCEPT ![t] = j])
  BY DEF PackOK

LEMMA InitInv == AnswerInit => Inv
  <1> SUFFICES ASSUME AnswerInit PROVE Inv
    OBVIOUS
  <1>1. sheet \in editions /\ editions \subseteq Editions /\ compiled \in editions \cup {None}
    BY DEF AnswerInit, CompressionInit
  <1>2. FilesOK(pressed, editions)
    <2>1. pressed = [f \in OutputFiles |-> Missing]
      BY DEF AnswerInit, CompressionInit
    <2>2. \A f \in Compared : f \in OutputFiles
      <3>1. FileOrder[2] \in OutputFiles /\ FileOrder[3] \in OutputFiles /\ FileOrder[6] \in OutputFiles
        BY NextFile
      <3> QED
        BY <3>1 DEF Compared, FileOrder
    <2> QED
      BY <2>1, <2>2 DEF FilesOK, Missing
  <1>3. typist = [t \in Typists |-> Unemployed]
    BY DEF AnswerInit, CompressionInit
  <1>4. \A t \in Typists : JobOK(typist[t], editions)
    BY <1>3 DEF Unemployed, JobOK
  <1>5. PackOK(promoted, typist)
    BY <1>3 DEF AnswerInit, NoPack, PackOK, Unemployed
  <1> QED
    BY <1>1, <1>2, <1>3, <1>4, <1>5 DEF Inv

\* A file that is written, whole or not.
LEMMA FileWritten ==
    ASSUME NEW files, NEW eds, eds \subseteq Editions, FilesOK(files, eds), NEW rows \in eds, NEW n \in 1..7,
           NEW rest, rest = Contents(FileOrder[n], rows) \/ rest = Garbled
                     \/ \E m \in 0..LinesOf(FileOrder[n], rows) : rest = Written(rows, m)
    PROVE  FilesOK([files EXCEPT ![FileOrder[n]] = rest], eds)
  <1> DEFINE g == FileOrder[n]
             new == [files EXCEPT ![g] = rest]
  <1>1. g \in OutputFiles /\ DOMAIN new = OutputFiles
    BY NextFile DEF FilesOK
  <1>2. new[g] = rest /\ \A f \in OutputFiles : f # g => new[f] = files[f]
    BY <1>1 DEF FilesOK
  <1>3. LinesOf(g, rows) \in Nat
    BY LinesAreNumbers
  <1>4. ASSUME NEW f \in Compared, new[f].kind = "whole"
        PROVE  new[f].of \in eds /\ new[f].lines \in 0..LinesOf(f, new[f].of)
    <2>1. CASE f # g
      <3>1. f \in OutputFiles
        <4>1. FileOrder[2] \in OutputFiles /\ FileOrder[3] \in OutputFiles /\ FileOrder[6] \in OutputFiles
          BY NextFile
        <4> QED
          BY <4>1 DEF Compared, FileOrder
      <3> QED
        BY <1>2, <1>4, <2>1, <3>1 DEF FilesOK
    <2>2. CASE f = g
      <3>1. rest = Garbled => rest.kind # "whole"
        BY DEF Garbled
      <3>2. rest = Contents(g, rows) => rest = Written(rows, LinesOf(g, rows))
        BY <2>2 DEF Contents, Compared
      <3>3. PICK m \in 0..LinesOf(g, rows) : rest = Written(rows, m)
        BY <1>2, <1>3, <1>4, <2>2, <3>1, <3>2
      <3> HIDE DEF new, g
      <3>4. rest.of = rows /\ rest.lines = m
        BY <3>3 DEF Written
      <3> QED
        BY <1>2, <2>2, <3>3, <3>4
    <2> QED
      BY <2>1, <2>2
  <1> HIDE DEF new
  <1>5. FilesOK(new, eds)
    BY <1>1, <1>4 DEF FilesOK
  <1> QED
    BY <1>5 DEF new

-----------------------------------------------------------------------------
(* The steps.                                                              *)

\* Only the job of one process changes, and it fills no pack.
LEMMA JobChanges ==
    ASSUME Inv, NEW t \in Typists, NEW j, typist' = [typist EXCEPT ![t] = j], JobOK(j, editions), j.op # "fill",
           UNCHANGED <<sheet, editions, pressed, compiled, promoted>>
    PROVE  Inv'
  <1>1. DOMAIN typist = Typists /\ (\A u \in Typists : JobOK(typist[u], editions)) /\ PackOK(promoted, typist)
    BY DEF Inv
  <1>2. DOMAIN typist' = Typists /\ \A u \in Typists : typist'[u] = typist[u] \/ typist'[u] = j
    BY <1>1
  <1>3. \A u \in Typists : JobOK(typist'[u], editions)
    BY <1>1, <1>2
  <1>4. PackOK(promoted, typist')
    BY <1>1, OtherJob
  <1> QED
    BY <1>2, <1>3, <1>4 DEF Inv

LEMMA ReeditKeeps ==
    ASSUME Inv, Reedit, UNCHANGED <<compiled, promoted>>
    PROVE  Inv'
  <1>1. sheet' \in Editions /\ editions' = editions \cup {sheet'} /\ UNCHANGED <<pressed, typist, compiled, promoted>>
    BY DEF Reedit
  <1>2. FilesOK(pressed', editions')
    BY <1>1 DEF Inv, FilesOK
  <1>3. \A t \in Typists : JobOK(typist'[t], editions')
    BY <1>1, JobsGoOn DEF Inv
  <1> QED
    BY <1>1, <1>2, <1>3 DEF Inv

LEMMA CompressPackKeeps ==
    ASSUME Inv, NEW t \in Typists, CompressPack(t), UNCHANGED <<compiled, promoted>>
    PROVE  Inv'
  <1> DEFINE j == [op |-> "compress", of |-> sheet, next |-> 1]
  <1>1. typist' = [typist EXCEPT ![t] = j] /\ UNCHANGED <<sheet, pressed, editions>>
    BY DEF CompressPack
  <1>2. JobOK(j, editions) /\ j.op # "fill"
    BY DEF Inv, JobOK
  <1> HIDE DEF j
  <1> QED
    BY <1>1, <1>2, JobChanges

LEMMA WriteKeeps ==
    ASSUME Inv, NEW t \in Typists, WriteNext(t) \/ KillWriter(t), UNCHANGED <<compiled, promoted>>
    PROVE  Inv'
  <1> DEFINE j == typist[t]
             f == FileOrder[j.next]
  <1>1. j.op = "compress" /\ UNCHANGED <<sheet, editions>>
    BY DEF WriteNext, KillWriter
  <1>2. JobOK(j, editions) /\ j.of \in editions /\ j.next \in 1..7 /\ DOMAIN j = {"op", "of", "next"}
    BY <1>1 DEF Inv, JobOK
  <1>3. PICK rest : /\ pressed' = [pressed EXCEPT ![f] = rest]
                    /\ \/ rest = Contents(f, j.of)
                       \/ rest = Garbled
                       \/ \E m \in 0..LinesOf(f, j.of) : rest = Written(j.of, m)
    <2>1. CASE WriteNext(t)
      BY <2>1 DEF WriteNext
    <2>2. CASE KillWriter(t)
      BY <2>2 DEF KillWriter
    <2> QED
      BY <2>1, <2>2
  <1>4. FilesOK(pressed', editions)
    BY <1>2, <1>3, FileWritten DEF Inv
  <1>5. PICK k : typist' = [typist EXCEPT ![t] = k] /\ JobOK(k, editions) /\ k.op # "fill"
    <2>1. JobOK(Unemployed, editions) /\ Unemployed.op # "fill"
      BY DEF JobOK, Unemployed
    <2>2. j.next # 7 => JobOK([j EXCEPT !.next = @ + 1], editions) /\ [j EXCEPT !.next = @ + 1].op # "fill"
      BY <1>1, <1>2 DEF JobOK
    <2>3. Len(FileOrder) = 7
      BY DEF FileOrder
    <2>4. CASE WriteNext(t)
      BY <2>1, <2>2, <2>3, <2>4 DEF WriteNext
    <2>5. CASE KillWriter(t)
      BY <2>1, <2>5 DEF KillWriter
    <2> QED
      BY <2>4, <2>5
  <1>6. \A u \in Typists : JobOK(typist'[u], editions)
    BY <1>5 DEF Inv
  <1>7. PackOK(promoted, typist')
    BY <1>5, OtherJob DEF Inv
  <1> QED
    BY <1>1, <1>4, <1>5, <1>6, <1>7 DEF Inv

LEMMA CompileKeeps ==
    ASSUME Inv, CompileStore \/ Rest
    PROVE  Inv'
  <1>1. UNCHANGED <<sheet, pressed, editions, typist, promoted>> /\ (compiled' = sheet \/ compiled' = compiled)
    BY DEF CompileStore, Rest, answerVars
  <1> QED
    BY <1>1 DEF Inv

\* The claims are opened in the files or read from the rows.
LEMMA ActivateKeeps ==
    ASSUME Inv, NEW t \in Typists, NEW op \in {"ask", "promote"}, NEW seen, NEW stable, Activate(t, op, seen, stable),
           (op = "promote" /\ seen # None) => Implied(seen, stable),
           UNCHANGED <<sheet, editions, pressed, compiled, promoted>>
    PROVE  Inv'
  <1> DEFINE reader == [op |-> op, seen |-> seen, stable |-> stable, step |-> "claims", table |-> pressed["table"],
                        rows |-> None, mixed |-> FALSE, cut |-> FALSE]
             loaded == [reader EXCEPT !.step = "loaded", !.table = Missing, !.rows = sheet]
             opens == pressed["table"].kind # "missing" /\ pressed["encoded"].kind # "missing"
                      /\ pressed["table"].kind = "whole"
  <1>1. typist' = [typist EXCEPT ![t] = IF opens THEN reader ELSE loaded]
    BY DEF Activate
  <1>2. opens => JobOK(reader, editions) /\ reader.op # "fill"
    BY DEF Inv, FilesOK, Compared, JobOK, ReaderOK
  <1>3. JobOK(loaded, editions) /\ loaded.op # "fill"
    BY DEF Inv, JobOK, ReaderOK, RowsOfEdition
  <1> HIDE DEF reader, loaded, opens
  <1> QED
    BY <1>1, <1>2, <1>3, JobChanges

LEMMA LoadKeeps ==
    ASSUME Inv, NEW t \in Typists, LoadClaims(t)
    PROVE  Inv'
  <1> DEFINE j == typist[t]
             encoded == pressed["encoded"]
             loads == encoded.kind = "whole" /\ encoded.lines > 0
             rows == IF loads THEN Decoded(j.table, encoded) ELSE sheet
             mixed == loads /\ j.table.of # encoded.of
             cut == loads /\ encoded.lines < LinesOf("encoded", encoded.of)
             k == [j EXCEPT !.step = "loaded", !.rows = rows, !.mixed = mixed, !.cut = cut]
  <1>1. j.op \in {"ask", "promote"} /\ j.step = "claims" /\ typist' = [typist EXCEPT ![t] = k]
        /\ UNCHANGED <<sheet, editions, pressed, compiled, promoted>>
    BY DEF LoadClaims, KeepFiles
  <1>2. ReaderOK(j, editions)
    BY <1>1 DEF Inv, JobOK
  <1>3. ASSUME ~mixed PROVE \E v \in editions : RowsOfEdition(rows, v, cut)
    <2>1. CASE ~loads
      BY <2>1 DEF Inv, RowsOfEdition
    <2>2. CASE loads
      <3> DEFINE v == encoded.of
                 n == encoded.lines
                 N == Len(Canonicals(v))
      <3>1. v \in editions /\ n \in 0..LinesOf("encoded", v)
        BY <2>2 DEF Inv, FilesOK, Compared
      <3>2. v \in Editions /\ j.table.of = v /\ LinesOf("encoded", v) = N
        BY <1>3, <2>2, <3>1 DEF Inv, LinesOf
      <3>3. rows = SubSeq(Canonicals(v), 1, n)
        BY <2>2, <3>1, <3>2, DecodedClaims
      <3>4. N \in Nat
        BY <3>2, CanonicalsAreClaims
      <3>5. ~cut => n = N
        <4>1. cut <=> n < N
          BY <2>2, <3>2
        <4> HIDE DEF cut, n, N
        <4> QED
          BY <3>1, <3>2, <3>4, <4>1
      <3> QED
        BY <3>1, <3>2, <3>3, <3>5 DEF RowsOfEdition
    <2> QED
      BY <2>1, <2>2
  <1> HIDE DEF rows, mixed, cut
  <1>4. /\ DOMAIN k = DOMAIN j /\ k.op = j.op /\ k.seen = j.seen /\ k.stable = j.stable
        /\ k.step = "loaded" /\ k.rows = rows /\ k.mixed = mixed /\ k.cut = cut
    BY <1>2 DEF ReaderOK
  <1> HIDE DEF k
  <1>5. ReaderOK(k, editions)
    <2>1. ~k.mixed => \E v \in editions : RowsOfEdition(k.rows, v, k.cut)
      BY <1>3, <1>4
    <2> QED
      BY <1>2, <1>4, <2>1 DEF ReaderOK
  <1>6. JobOK(k, editions) /\ k.op # "fill"
    BY <1>1, <1>4, <1>5 DEF JobOK
  <1> QED
    BY <1>1, <1>6, JobChanges

LEMMA TellKeeps ==
    ASSUME Inv, NEW t \in Typists, NEW answer, Tell(t, answer)
    PROVE  Inv'
  <1>1. JobOK(Unemployed, editions) /\ Unemployed.op # "fill"
    BY DEF JobOK, Unemployed
  <1>2. typist' = [typist EXCEPT ![t] = Unemployed] /\ UNCHANGED <<sheet, editions, pressed, compiled, promoted>>
    BY DEF Tell, KeepFiles
  <1> QED
    BY <1>1, <1>2, JobChanges

LEMMA AskKeeps ==
    ASSUME Inv, NEW t \in Typists, Ask(t) \/ Promote(t)
    PROVE  Inv'
  <1>1. UNCHANGED <<sheet, editions, pressed, compiled, promoted>>
    BY DEF Ask, Promote, Inquire
  <1>2. CASE Ask(t)
    BY <1>1, <1>2, ActivateKeeps DEF Ask
  <1>3. CASE Promote(t)
    BY <1>1, <1>3, ActivateKeeps DEF Promote
  <1> QED
    BY <1>2, <1>3

-----------------------------------------------------------------------------
(* What follows of claims.                                                 *)

Low(c) == [f \in 1..3 |-> Lower[c[f]]]

LEMMA FollowsOf ==
    ASSUME NEW claims, NEW x
    PROVE  /\ \A c \in claims : Low(c) = Low(x) => Follows(claims, x)
           /\ \A c \in claims : Backs(<<Low(c)>>, Low(x)) => Follows(claims, x)
           /\ \A c, d \in claims : Backs(<<Low(c), Low(d)>>, Low(x)) => Follows(claims, x)
  BY DEF Follows, Low

\* Of more claims as much follows.
LEMMA FollowsOfMore ==
    ASSUME NEW claims, NEW more, claims \subseteq more, NEW x, Follows(claims, x)
    PROVE  Follows(more, x)
  <1> DEFINE given == {Low(c) : c \in claims}
  <1>1. \/ Low(x) \in given
        \/ \E c \in given : Backs(<<c>>, Low(x))
        \/ \E c, d \in given : Backs(<<c, d>>, Low(x))
    BY DEF Follows, Low
  <1>2. \A y \in given : \E c \in more : y = Low(c)
    OBVIOUS
  <1> HIDE DEF given
  <1>3. CASE Low(x) \in given
    BY <1>2, <1>3, FollowsOf
  <1>4. CASE \E c \in given : Backs(<<c>>, Low(x))
    BY <1>2, <1>4, FollowsOf
  <1>5. CASE \E c, d \in given : Backs(<<c, d>>, Low(x))
    BY <1>2, <1>5, FollowsOf
  <1> QED
    BY <1>1, <1>3, <1>4, <1>5

LEMMA LowIsSame ==
    ASSUME NEW c, NEW d
    PROVE  Low(c) = Low(d) <=> SameClaim(c, d)
  BY DEF Low, SameClaim

LEMMA LowOf ==
    ASSUME NEW x, NEW y, NEW z
    PROVE  Low(<<x, y, z>>) = <<Lower[x], Lower[y], Lower[z]>>
  BY DEF Low

\* What is inferred: its sources, and what it is.
LEMMA InferredFrom ==
    ASSUME NEW claims, NEW i \in Inferred(claims)
    PROVE  /\ i.claim \notin claims /\ i.by \in {"inverse", "transitive"}
           /\ Backs(i.from, i.claim) /\ ToSet(i.from) \subseteq claims /\ i.from # << >>
           /\ \E c, d \in claims : \E r \in {"capital_of", "located_in_region"} :
                 (i.claim = <<c[3], r, d[1]>> \/ i.claim = <<c[1], r, d[3]>>) /\ i.claim[2] = r
  <1>1. CASE i \in InferInverse(claims)
    <2>1. PICK c \in claims : c[2] = "has_capital" /\ <<c[3], "capital_of", c[1]>> \notin claims
                              /\ i = [claim |-> <<c[3], "capital_of", c[1]>>, from |-> <<c>>, by |-> "inverse"]
      BY <1>1 DEF InferInverse
    <2>2. ToSet(<<c>>) = {c}
      BY DEF ToSet
    <2> QED
      BY <2>1, <2>2 DEF Backs
  <1>2. CASE i \in InferTransitive(claims)
    <2>1. PICK p \in claims \X claims :
             /\ ChainsTo(p[1], p[2]) /\ <<p[1][1], "located_in_region", p[2][3]>> \notin claims
             /\ i = [claim |-> <<p[1][1], "located_in_region", p[2][3]>>, from |-> p, by |-> "transitive"]
      BY <1>2 DEF InferTransitive
    <2>2. p = <<p[1], p[2]>> /\ p[1] \in claims /\ p[2] \in claims /\ Len(p) = 2 /\ p # << >>
      BY <2>1
    <2>3. ToSet(p) = {p[1], p[2]}
      <3> DEFINE a == p[1]
                 b == p[2]
      <3>1. p = <<a, b>>
        BY <2>2
      <3> HIDE DEF a, b
      <3>2. ToSet(<<a, b>>) = {a, b}
        BY DEF ToSet
      <3> QED
        BY <3>1, <3>2 DEF a, b
    <2>4. Backs(p, i.claim)
      BY <2>1, <2>2 DEF Backs, ChainsTo
    <2> QED
      BY <2>1, <2>2, <2>3, <2>4
  <1> QED
    BY <1>1, <1>2 DEF Inferred

\* It follows, in any case of letters.
LEMMA InferredFollows ==
    ASSUME NEW claims, NEW i \in Inferred(claims), NEW x, SameClaim(i.claim, x)
    PROVE  Follows(claims, x)
  <1>1. Low(x) = Low(i.claim)
    BY LowIsSame
  <1>2. \A r \in NamedRelations : Lower[r] = r
    BY LowerKnows
  <1>3. CASE i \in InferInverse(claims)
    <2>1. PICK c \in claims : c[2] = "has_capital"
                              /\ i = [claim |-> <<c[3], "capital_of", c[1]>>, from |-> <<c>>, by |-> "inverse"]
      BY <1>3 DEF InferInverse
    <2>2. Low(x) = <<Lower[c[3]], "capital_of", Lower[c[1]]>>
      BY <1>1, <1>2, <2>1, LowOf DEF NamedRelations
    <2>3. Low(c)[1] = Lower[c[1]] /\ Low(c)[2] = "has_capital" /\ Low(c)[3] = Lower[c[3]]
      BY <1>2, <2>1 DEF Low, NamedRelations
    <2>4. Backs(<<Low(c)>>, Low(x))
      BY <2>2, <2>3 DEF Backs
    <2> QED
      BY <2>4, FollowsOf
  <1>4. CASE i \in InferTransitive(claims)
    <2>1. PICK p \in claims \X claims :
             /\ ChainsTo(p[1], p[2])
             /\ i = [claim |-> <<p[1][1], "located_in_region", p[2][3]>>, from |-> p, by |-> "transitive"]
      BY <1>4 DEF InferTransitive
    <2> DEFINE a == p[1]
               b == p[2]
    <2>2. a \in claims /\ b \in claims /\ ChainsTo(a, b) /\ i.claim = <<a[1], "located_in_region", b[3]>>
      BY <2>1
    <2> HIDE DEF a, b
    <2>3. Low(x) = <<Lower[a[1]], "located_in_region", Lower[b[3]]>>
      BY <1>1, <1>2, <2>2, LowOf DEF NamedRelations
    <2>4. /\ Low(a)[1] = Lower[a[1]] /\ Low(a)[2] = "located_in_country" /\ Low(a)[3] = Lower[a[3]]
          /\ Low(b)[1] = Lower[b[1]] /\ Low(b)[2] = Lower[b[2]] /\ Low(b)[3] = Lower[b[3]]
      BY <1>2, <2>2 DEF Low, NamedRelations, ChainsTo
    <2>5. Lower[Low(b)[2]] \in {"part_of", "located_in_region"} /\ Lower[Low(a)[3]] = Lower[Low(b)[1]]
      BY <1>2, <2>2, <2>4 DEF NamedRelations, ChainsTo
    <2>6. Backs(<<Low(a), Low(b)>>, Low(x))
      BY <2>3, <2>4, <2>5 DEF Backs
    <2> QED
      BY <2>2, <2>6, FollowsOf
  <1> QED
    BY <1>3, <1>4 DEF Inferred

LEMMA ClassifiedFollows ==
    ASSUME NEW claims, NEW c, Classified(claims, c) # {}
    PROVE  Follows(claims, c)
  BY InferredFollows DEF Classified

-----------------------------------------------------------------------------
(* The steps of a promotion.                                               *)

LEMMA ObserveKeeps ==
    ASSUME Inv, NEW t \in Typists, Observe(t)
    PROVE  Inv'
  <1> DEFINE j == typist[t]
             by(c) == IF "inverse" \in Classified(Usable(j.rows), c) THEN "inverse" ELSE "transitive"
             kept(wanted) == {[claim |-> c, by |-> by(c)] : c \in {d \in wanted : Classified(Usable(j.rows), d) # {}}}
  <1>1. PICK wanted \in Benchmarks : Activate(t, "promote", j.rows, kept(wanted))
    BY DEF Observe
  <1>2. UNCHANGED <<sheet, editions, pressed, compiled, promoted>>
    BY DEF Observe, KeepFiles
  <1>3. Implied(j.rows, kept(wanted))
    BY ClassifiedFollows DEF Implied
  <1> HIDE DEF kept
  <1> QED
    BY <1>1, <1>2, <1>3, ActivateKeeps

\* What is sourced by the claims of the second load.
LEMMA SourcedIsFounded ==
    ASSUME NEW first, NEW second, NEW stable, Implied(first, stable),
           NEW list, list \subseteq Sourced(Usable(second), stable)
    PROVE  Founded(list, {first, second})
  <1> SUFFICES ASSUME NEW x \in list
      PROVE  /\ \E rows \in {first, second} : Follows(Usable(rows), x.claim)
             /\ x.from # << >> => Backs(x.from, x.claim)
                                  /\ \E rows \in {first, second} : ToSet(x.from) \subseteq Usable(rows)
    BY DEF Founded
  <1>1. PICK s \in stable : x \in {[claim |-> s.claim, by |-> s.by, from |-> from] : from \in SourcesOf(Usable(second), s)}
    BY DEF Sourced
  <1>2. PICK from \in SourcesOf(Usable(second), s) : x = [claim |-> s.claim, by |-> s.by, from |-> from]
    BY <1>1
  <1>3. x.claim = s.claim /\ x.from = from
    BY <1>2
  <1>4. Follows(Usable(first), x.claim)
    BY <1>3 DEF Implied
  <1>5. ASSUME x.from # << >>
        PROVE  Backs(x.from, x.claim) /\ ToSet(x.from) \subseteq Usable(second)
    <2>1. PICK i \in Inferred(Usable(second)) : i.claim = s.claim /\ x.from = i.from
      BY <1>2, <1>3, <1>5 DEF SourcesOf
    <2> QED
      BY <1>3, <2>1, InferredFrom
  <1> QED
    BY <1>4, <1>5

LEMMA MakeKeeps ==
    ASSUME Inv, NEW t \in Typists, MakePromoted(t)
    PROVE  Inv'
  <1> DEFINE j == typist[t]
  <1>1. CASE promoted.made
    <2>1. Tell(t, [kind |-> "exists"])
      BY <1>1 DEF MakePromoted
    <2> QED
      BY <2>1, TellKeeps
  <1>2. CASE ~promoted.made
    <2> DEFINE pack == [made |-> TRUE, claims |-> None, provenance |-> None, meta |-> FALSE, of |-> {j.seen, j.rows}]
    <2>1. PICK list \in SUBSET Sourced(Usable(j.rows), j.stable) :
             /\ promoted' = pack
             /\ typist' = [typist EXCEPT ![t] = [op |-> "fill", file |-> "claims", list |-> list]]
      BY <1>2 DEF MakePromoted
    <2> DEFINE k == [op |-> "fill", file |-> "claims", list |-> list]
    <2>2. UNCHANGED <<sheet, editions, pressed, compiled>>
      BY <1>2 DEF MakePromoted, KeepFiles
    <2>3. Implied(j.seen, j.stable)
      BY DEF MakePromoted, Inv, JobOK, ReaderOK
    <2>4. Founded(list, {j.seen, j.rows})
      BY <2>3, SourcedIsFounded
    <2>5. FillOK(k, pack)
      BY <2>4 DEF FillOK
    <2>6. ~pack.meta /\ k.op = "fill"
      OBVIOUS
    <2>7. JobOK(k, editions)
      BY DEF JobOK
    <2> HIDE DEF k, pack
    <2>8. DOMAIN typist = Typists /\ \A u \in Typists : JobOK(typist[u], editions) /\ typist[u].op # "fill"
      BY <1>2 DEF Inv, PackOK, FillOK
    <2>9. DOMAIN typist' = Typists /\ typist'[t] = k /\ \A u \in Typists : u # t => typist'[u] = typist[u]
      BY <2>1, <2>8 DEF k
    <2>10. PackOK(promoted', typist')
      BY <2>1, <2>5, <2>6, <2>8, <2>9 DEF PackOK
    <2> QED
      BY <2>2, <2>7, <2>8, <2>9, <2>10 DEF Inv
  <1> QED
    BY <1>1, <1>2

LEMMA FillKeeps ==
    ASSUME Inv, NEW t \in Typists, FillPromoted(t)
    PROVE  Inv'
  <1> DEFINE j == typist[t]
             pack == promoted'
             k == typist'[t]
  <1>1. j.op = "fill" /\ UNCHANGED <<sheet, editions, pressed, compiled>>
    BY DEF FillPromoted, KeepFiles
  <1>2. FillOK(j, promoted) /\ DOMAIN typist = Typists /\ \A u \in Typists : u # t => typist[u].op # "fill"
    BY <1>1 DEF Inv, PackOK
  <1>3. DOMAIN typist' = Typists /\ \A u \in Typists : u # t => typist'[u] = typist[u]
    BY <1>2 DEF FillPromoted
  <1>4. /\ JobOK(k, editions) /\ (k.op = "fill" => FillOK(k, pack))
        /\ (pack.made /\ pack.meta) => pack.claims = pack.provenance /\ Founded(pack.claims, pack.of)
    <2>1. CASE j.file = "claims"
      <3>1. pack = [promoted EXCEPT !.claims = j.list] /\ k = [j EXCEPT !.file = "provenance"]
        BY <1>2, <2>1 DEF FillPromoted
      <3>2. DOMAIN pack = DOMAIN promoted /\ pack.claims = j.list /\ pack.made = promoted.made
            /\ pack.meta = promoted.meta /\ pack.of = promoted.of
        BY <1>2, <3>1 DEF FillOK
      <3>3. DOMAIN k = DOMAIN j /\ k.op = "fill" /\ k.file = "provenance" /\ k.list = j.list
        BY <1>1, <1>2, <3>1 DEF FillOK
      <3> HIDE DEF pack, k, j
      <3>4. FillOK(k, pack)
        BY <1>2, <3>2, <3>3 DEF FillOK
      <3>5. ~pack.meta
        BY <1>2, <3>2 DEF FillOK
      <3> QED
        BY <3>3, <3>4, <3>5 DEF JobOK
    <2>2. CASE j.file = "provenance"
      <3>1. pack = [promoted EXCEPT !.provenance = j.list] /\ k = [j EXCEPT !.file = "meta"]
        BY <1>2, <2>2 DEF FillPromoted
      <3>2. DOMAIN pack = DOMAIN promoted /\ pack.claims = promoted.claims /\ pack.made = promoted.made
            /\ pack.meta = promoted.meta /\ pack.of = promoted.of /\ pack.provenance = j.list
        BY <1>2, <3>1 DEF FillOK
      <3>3. DOMAIN k = DOMAIN j /\ k.op = "fill" /\ k.file = "meta" /\ k.list = j.list
        BY <1>1, <1>2, <3>1 DEF FillOK
      <3> HIDE DEF pack, k, j
      <3>4. FillOK(k, pack)
        BY <1>2, <2>2, <3>2, <3>3 DEF FillOK
      <3>5. ~pack.meta
        BY <1>2, <3>2 DEF FillOK
      <3> QED
        BY <3>3, <3>4, <3>5 DEF JobOK
    <2>3. CASE j.file = "meta"
      <3>1. pack = [promoted EXCEPT !.meta = TRUE] /\ k = Unemployed
        BY <1>2, <2>3 DEF FillPromoted
      <3>2. pack.claims = promoted.claims /\ pack.of = promoted.of /\ pack.provenance = promoted.provenance
        BY <1>2, <3>1 DEF FillOK
      <3>3. JobOK(k, editions) /\ k.op # "fill"
        BY <3>1 DEF JobOK, Unemployed
      <3> HIDE DEF pack, k, j
      <3> QED
        BY <1>2, <2>3, <3>2, <3>3 DEF FillOK
    <2> QED
      BY <1>2, <2>1, <2>2, <2>3 DEF FillOK
  <1>5. PackOK(promoted', typist')
    <2> HIDE DEF k, pack
    <2>1. \A u \in Typists : typist'[u].op = "fill" => u = t
      BY <1>2, <1>3
    <2> QED
      BY <1>4, <2>1 DEF PackOK, k, pack
  <1>6. \A u \in Typists : JobOK(typist'[u], editions)
    BY <1>3, <1>4 DEF Inv
  <1> QED
    BY <1>1, <1>3, <1>5, <1>6 DEF Inv

LEMMA KillPromoterKeeps ==
    ASSUME Inv, NEW t \in Typists, KillPromoter(t)
    PROVE  Inv'
  <1>1. JobOK(Unemployed, editions) /\ Unemployed.op # "fill"
    BY DEF JobOK, Unemployed
  <1>2. typist' = [typist EXCEPT ![t] = Unemployed] /\ UNCHANGED <<sheet, editions, pressed, compiled, promoted>>
    BY DEF KillPromoter
  <1> QED
    BY <1>1, <1>2, JobChanges

-----------------------------------------------------------------------------
(* What the stages of a question find follows of the claims, and what they *)
(* say is inferred is.                                                     *)

FactOf(claims, f) ==
    /\ \E c \in Reworded(f.claim) : Follows(claims, c)
    /\ f.how \in {"inverse", "transitive"} => \E i \in Inferred(claims) : f.claim = i.claim

LEMMA RewordedHas ==
    ASSUME NEW x, NEW y, NEW z
    PROVE  /\ <<x, y, z>> \in Reworded(<<x, y, z>>) /\ <<x, "part_of", z>> \in Reworded(<<x, y, z>>)
           /\ y = "has_capital" => <<z, "capital_of", x>> \in Reworded(<<x, y, z>>)
  BY DEF Reworded

LEMMA LowerOfRelation ==
    ASSUME NEW c \in Claims
    PROVE  Lower[Lower[c[2]]] = Lower[c[2]]
  <1>1. c[2] \in Names
    BY DEF Claims
  <1> QED
    BY <1>1, LowerKnows

\* A claim with the relation as it is lowered.
LEMMA StatedFollows ==
    ASSUME NEW claims \in SUBSET Claims, NEW c \in claims, NEW x, Lower[x] = Lower[c[1]],
           NEW z, Lower[z] = Lower[c[3]]
    PROVE  Follows(claims, <<x, Lower[c[2]], z>>)
  <1>1. Lower[Lower[c[2]]] = Lower[c[2]]
    BY LowerOfRelation
  <1>2. Low(<<x, Lower[c[2]], z>>) = <<Lower[x], Lower[c[2]], Lower[z]>>
    BY <1>1, LowOf
  <1>3. Low(c) = <<Lower[c[1]], Lower[c[2]], Lower[c[3]]>>
    BY DEF Low
  <1> QED
    BY <1>2, <1>3, FollowsOf

\* So are inferred claims' relations.
LEMMA InferredAs ==
    ASSUME NEW claims, NEW i \in Inferred(claims), NEW x, Lower[x] = Lower[i.claim[1]]
    PROVE  Follows(claims, <<x, Lower[i.claim[2]], i.claim[3]>>)
  <1>1. i.claim[2] \in {"capital_of", "located_in_region"}
    BY InferredFrom
  <1>2. Lower[i.claim[2]] = i.claim[2]
    BY <1>1, LowerKnows DEF NamedRelations
  <1>3. SameClaim(i.claim, <<x, i.claim[2], i.claim[3]>>)
    BY DEF SameClaim
  <1> QED
    BY <1>2, <1>3, InferredFollows

LEMMA ValuesFollow ==
    ASSUME NEW claims \in SUBSET Claims, NEW x, NEW r, NEW z \in Values(claims, x, r)
    PROVE  Follows(claims, <<x, r, z>>)
  <1>1. CASE z \in Stated(claims, x, {r})
    <2>1. PICK c \in claims : Lower[c[1]] = Lower[x] /\ Lower[c[2]] = r /\ z = c[3]
      BY <1>1 DEF Stated
    <2> QED
      BY <2>1, StatedFollows
  <1>2. CASE z \in Stated({i.claim : i \in Inferred(claims)}, x, {r})
    <2>1. PICK i \in Inferred(claims) : Lower[i.claim[1]] = Lower[x] /\ Lower[i.claim[2]] = r /\ z = i.claim[3]
      BY <1>2 DEF Stated
    <2> QED
      BY <2>1, InferredAs
  <1> QED
    BY <1>1, <1>2 DEF Values

LEMMA SingleIsSome ==
    ASSUME NEW S, NEW x \in Single(S)
    PROVE  x \in S
  BY DEF Single

LEMMA LookupFinds ==
    ASSUME NEW claims \in SUBSET Claims, NEW x, NEW relations, NEW target, NEW inferred \in SUBSET Inferred(claims),
           NEW f \in Lookup(claims, x, relations, target, inferred),
           relations \subseteq {"part_of", target}
    PROVE  FactOf(claims, f)
  <1>1. CASE Single(Stated(claims, x, relations)) # {}
    <2>1. PICK o \in Single(Stated(claims, x, relations)) : f = GivenFact(<<x, target, o>>, "explicit")
      BY <1>1 DEF Lookup
    <2>2. PICK c \in claims : Lower[c[1]] = Lower[x] /\ Lower[c[2]] \in relations /\ o = c[3]
      BY <2>1, SingleIsSome DEF Stated
    <2>3. Follows(claims, <<x, Lower[c[2]], o>>)
      BY <2>2, StatedFollows
    <2>4. f.claim = <<x, target, o>> /\ f.how = "explicit"
      BY <2>1 DEF GivenFact
    <2>5. <<x, Lower[c[2]], o>> \in Reworded(f.claim)
      BY <2>2, <2>4, RewordedHas
    <2> QED
      BY <2>3, <2>4, <2>5 DEF FactOf
  <1>2. CASE Single(Stated(claims, x, relations)) = {}
    <2>1. PICK i \in inferred : f = GivenFact(i.claim, i.by)
      BY <1>2 DEF Lookup
    <2>2. f.claim = i.claim /\ i \in Inferred(claims)
      BY <2>1 DEF GivenFact
    <2>3. Follows(claims, i.claim)
      BY <2>2, InferredFollows DEF SameClaim
    <2>4. i.claim \in Reworded(f.claim)
      BY <2>2 DEF Reworded
    <2> QED
      BY <2>2, <2>3, <2>4 DEF FactOf
  <1> QED
    BY <1>1, <1>2

LEMMA CapitalIsChecked ==
    ASSUME NEW claims, NEW city, NEW country, NEW f \in CapitalCheck(claims, city, country)
    PROVE  FactOf(claims, f)
  <1> DEFINE says(c) == SameClaim(c, <<city, "capital_of", country>>) \/ SameClaim(c, <<country, "has_capital", city>>)
  <1>1. \/ \E c \in claims : \E how \in {"explicit", "unknown"} : f = GivenFact(c, how)
        \/ \E i \in InferInverse(claims) : f = GivenFact(i.claim, "inverse")
    BY DEF CapitalCheck
  <1>2. f.claim \in Reworded(f.claim)
    BY DEF Reworded
  <1>3. CASE \E c \in claims : \E how \in {"explicit", "unknown"} : f = GivenFact(c, how)
    BY <1>2, <1>3, FollowsOf DEF FactOf, GivenFact
  <1>4. CASE \E i \in InferInverse(claims) : f = GivenFact(i.claim, "inverse")
    <2>1. PICK i \in InferInverse(claims) : f = GivenFact(i.claim, "inverse")
      BY <1>4
    <2>2. i \in Inferred(claims) /\ f.claim = i.claim
      BY <2>1 DEF Inferred, GivenFact
    <2>3. Follows(claims, i.claim)
      BY <2>2, InferredFollows DEF SameClaim
    <2> QED
      BY <1>2, <2>2, <2>3 DEF FactOf
  <1> QED
    BY <1>1, <1>3, <1>4

LEMMA GoalsFollow ==
    ASSUME NEW claims \in SUBSET Claims, NEW q, NEW g \in NormalizedGoals(claims, q)
    PROVE  \E c \in Reworded(g) : Follows(claims, c)
  <1> DEFINE tries == Fallbacks(q.relation)
             direct(r) == {<<q.subject, r, o>> : o \in Single(Values(claims, q.subject, r))}
             hits == {n \in DOMAIN tries : direct(tries[n]) # {}}
             countries == Single(Stated({i.claim : i \in Inferred(claims)}, q.subject, {"capital_of"}))
             speakers == {c[1] : c \in {c \in claims : Lower[c[2]] = "language_of"
                                                      /\ SameClaim(c, <<c[1], c[2], q.subject>>)}}
             classes == Values(claims, q.subject, "instance_of")
  <1>1. \/ g \in {<<l, "language_of", q.subject>> : l \in Single(speakers)}
        \/ \E o \in classes : g = <<q.subject, "instance_of", o>>
        \/ \E r : g \in direct(r)
        \/ g \in {<<c, "has_capital", q.subject>> : c \in countries}
    BY DEF NormalizedGoals
  <1>2. CASE g \in {<<l, "language_of", q.subject>> : l \in Single(speakers)}
    <2>1. PICK l \in speakers : g = <<l, "language_of", q.subject>>
      BY <1>2, SingleIsSome
    <2>2. PICK c \in claims : Lower[c[2]] = "language_of" /\ SameClaim(c, <<c[1], c[2], q.subject>>) /\ l = c[1]
      BY <2>1
    <2>3. Lower[c[3]] = Lower[q.subject]
      BY <2>2 DEF SameClaim
    <2> QED
      BY <2>1, <2>2, <2>3, StatedFollows, RewordedHas
  <1>3. CASE \E o \in classes : g = <<q.subject, "instance_of", o>>
    BY <1>3, ValuesFollow, RewordedHas
  <1>4. CASE \E r : g \in direct(r)
    <2>1. PICK r : g \in direct(r)
      BY <1>4
    <2>2. PICK o \in Values(claims, q.subject, r) : g = <<q.subject, r, o>>
      BY <2>1, SingleIsSome
    <2> QED
      BY <2>2, ValuesFollow, RewordedHas
  <1>5. CASE g \in {<<c, "has_capital", q.subject>> : c \in countries}
    <2>1. PICK x \in Stated({i.claim : i \in Inferred(claims)}, q.subject, {"capital_of"}) :
             g = <<x, "has_capital", q.subject>>
      BY <1>5, SingleIsSome
    <2>2. PICK i \in Inferred(claims) :
             Lower[i.claim[1]] = Lower[q.subject] /\ Lower[i.claim[2]] = "capital_of" /\ x = i.claim[3]
      BY <2>1 DEF Stated
    <2>3. Follows(claims, <<q.subject, "capital_of", x>>)
      BY <2>2, InferredAs
    <2> QED
      BY <2>1, <2>3, RewordedHas
  <1> QED
    BY <1>1, <1>2, <1>3, <1>4, <1>5

LEMMA StagesFind ==
    ASSUME NEW claims \in SUBSET Claims, NEW q, NEW f \in StagesOf(claims, q)
    PROVE  FactOf(claims, f)
  <1>1. InferTransitive(claims) \in SUBSET Inferred(claims) /\ InferInverse(claims) \in SUBSET Inferred(claims)
    BY DEF Inferred
  <1>2. CASE q.kind = "continent"
    <2>1. f \in Lookup(claims, q.subject, {"part_of", "located_in_region"}, "located_in_region", InferTransitive(claims))
      BY <1>2 DEF StagesOf
    <2> QED
      BY <1>1, <2>1, LookupFinds
  <1>3. CASE q.kind = "capital of what"
    <2>1. f \in Lookup(claims, q.subject, {"capital_of"}, "capital_of", InferInverse(claims))
      BY <1>3 DEF StagesOf
    <2>2. {"capital_of"} \subseteq {"part_of", "capital_of"}
      OBVIOUS
    <2> QED
      BY <1>1, <2>1, <2>2, LookupFinds
  <1>4. CASE q.kind = "is capital"
    BY <1>4, CapitalIsChecked DEF StagesOf
  <1>5. CASE q.kind = "normalized"
    <2>1. PICK g \in NormalizedGoals(claims, q) : f = GivenFact(g, "unknown")
      BY <1>5 DEF StagesOf
    <2>2. f.claim = g /\ f.how = "unknown"
      BY <2>1 DEF GivenFact
    <2> QED
      BY <2>2, GoalsFollow DEF FactOf
  <1>6. CASE q.kind \notin {"continent", "capital of what", "is capital", "normalized"}
    BY <1>6 DEF StagesOf
  <1> QED
    BY <1>2, <1>3, <1>4, <1>5, <1>6

\* The store says it, or two of its rows imply it.
LEMMA PlansFind ==
    ASSUME NEW rows, NEW q, NEW f \in PlannedFacts(rows, q)
    PROVE  Follows(ToSet(rows), f.claim) /\ f.how = "explicit"
  <1>1. \/ \E c \in ToSet(rows) : f = GivenFact(c, "explicit")
        \/ \E i \in InferTransitive(ToSet(rows)) : f = GivenFact(i.claim, "explicit")
    BY DEF PlannedFacts, StoreClaims
  <1>2. CASE \E c \in ToSet(rows) : f = GivenFact(c, "explicit")
    BY <1>2, FollowsOf DEF GivenFact
  <1>3. CASE \E i \in InferTransitive(ToSet(rows)) : f = GivenFact(i.claim, "explicit")
    <2>1. PICK i \in Inferred(ToSet(rows)) : f = GivenFact(i.claim, "explicit")
      BY <1>3 DEF Inferred
    <2>2. Follows(ToSet(rows), i.claim)
      BY InferredFollows DEF SameClaim
    <2> QED
      BY <2>1, <2>2 DEF GivenFact
  <1> QED
    BY <1>1, <1>2, <1>3

-----------------------------------------------------------------------------
(* What was loaded is usable as the edition is.                            *)

LEMMA UsableRows ==
    ASSUME NEW rows \in Editions
    PROVE  Usable(rows) \in SUBSET Claims /\ Usable(rows) = {rows[i] : i \in Kept(rows)}
  BY EditionRows DEF Usable, Kept, ToSet

\* Canonical claims are lowered, and stay what they are.
LEMMA CanonicalsAreLowered ==
    ASSUME NEW rows \in Editions, NEW c \in ToSet(Canonicals(rows))
    PROVE  c \in Claims /\ Lower[c[1]] = c[1] /\ Lower[c[3]] = c[3]
  <1>1. PICK i \in Kept(rows) : c = Canonical(rows[i])
    BY CanonicalsAreClaims
  <1>2. rows[i] \in Claims
    BY EditionRows DEF Kept
  <1>3. rows[i][1] \in Names /\ rows[i][3] \in Names
    BY <1>2 DEF Claims
  <1>4. c \in Claims
    BY <1>1, <1>2, CanonicalIsClaim
  <1>5. c[1] = Lower[rows[i][1]] /\ c[3] = Lower[rows[i][3]]
    BY <1>1 DEF Canonical
  <1> QED
    BY <1>3, <1>4, <1>5, LowerKnows

\* What is inferred of all canonical claims is not stated by a row either.
LEMMA InferredIsNew ==
    ASSUME NEW v \in Editions, NEW i \in Inferred(ToSet(Canonicals(v)))
    PROVE  i.claim \notin Usable(v)
  <1> DEFINE claims == ToSet(Canonicals(v))
             x == i.claim
  <1>1. x \notin claims
        /\ \E c, d \in claims : \E r \in {"capital_of", "located_in_region"} :
                 (x = <<c[3], r, d[1]>> \/ x = <<c[1], r, d[3]>>) /\ x[2] = r
    BY InferredFrom
  <1>2. x[2] \in {"capital_of", "located_in_region"} /\ x = <<x[1], x[2], x[3]>>
        /\ Lower[x[1]] = x[1] /\ Lower[x[3]] = x[3]
    BY <1>1, CanonicalsAreLowered
  <1>3. Lower[x[2]] = x[2] /\ CanonicalRelation(x[2]) = x[2]
    BY <1>2, LowerKnows DEF NamedRelations, CanonicalRelation
  <1>4. Canonical(x) = <<x[1], x[2], x[3]>>
    <2> HIDE DEF x
    <2> QED
      BY <1>2, <1>3 DEF Canonical
  <1>5. ASSUME x \in Usable(v) PROVE FALSE
    <2>1. PICK n \in Kept(v) : x = v[n]
      BY <1>5, UsableRows
    <2>2. Canonical(x) \in claims
      BY <2>1, CanonicalsAreClaims
    <2> QED
      BY <1>1, <1>2, <1>4, <2>2
  <1> QED
    BY <1>5

LEMMA LoadedFacts ==
    ASSUME NEW v \in Editions, NEW rows, NEW cut, RowsOfEdition(rows, v, cut), NEW q, NEW f \in StagesOf(Usable(rows), q)
    PROVE  /\ \E c \in Reworded(f.claim) : Says(v, c)
           /\ (f.how \in {"inverse", "transitive"} /\ ~cut) => f.claim \notin Usable(v)
  <1> DEFINE claims == Canonicals(v)
  <1>1. CASE rows = v
    <2>1. FactOf(Usable(v), f)
      BY <1>1, UsableRows, StagesFind
    <2> QED
      BY <2>1, InferredFrom DEF FactOf, Says
  <1>2. CASE rows # v
    <2>1. PICK k \in 0..Len(claims) : rows = SubSeq(claims, 1, k) /\ (~cut => k = Len(claims))
      BY <1>2 DEF RowsOfEdition
    <2>2. Len(claims) \in Nat /\ DOMAIN claims = 1..Len(claims)
          /\ \A n \in DOMAIN claims : claims[n] \in Claims /\ WellFormed(claims[n])
      BY CanonicalsAreClaims
    <2> DEFINE N == Len(claims)
    <2>0. N \in Nat /\ k \in 0..N /\ DOMAIN claims = 1..N
      BY <2>1, <2>2
    <2> HIDE DEF claims, N
    <2>3. rows = [n \in 1..k |-> claims[n]]
      <3>1. \A s : SubSeq(s, 1, k) = [n \in 1..k |-> s[n]]
        <4>1. k \in Nat
          BY <2>0
        <4> QED
          BY <4>1
      <3> QED
        BY <2>1, <3>1
    <2>4. \A n \in 1..k : n \in DOMAIN claims
      BY <2>0
    <2>5. ToSet(rows) = {claims[n] : n \in 1..k}
      BY <2>3 DEF ToSet
    <2>6. Usable(rows) = {claims[n] : n \in 1..k}
      BY <2>2, <2>4, <2>5 DEF Usable
    <2>7. Usable(rows) \in SUBSET Claims /\ Usable(rows) \subseteq ToSet(claims)
      BY <2>2, <2>4, <2>6 DEF ToSet
    <2>8. ~cut => Usable(rows) = ToSet(claims)
      BY <2>1, <2>2, <2>6 DEF ToSet
    <2>9. FactOf(Usable(rows), f)
      BY <2>7, StagesFind
    <2>10. \E c \in Reworded(f.claim) : Follows(ToSet(claims), c)
      BY <2>7, <2>9, FollowsOfMore DEF FactOf
    <2>11. (f.how \in {"inverse", "transitive"} /\ ~cut) => f.claim \notin Usable(v)
      BY <2>8, <2>9, InferredIsNew DEF FactOf, claims
    <2> QED
      BY <2>10, <2>11 DEF Says, claims
  <1> QED
    BY <1>1, <1>2

-----------------------------------------------------------------------------
(* What is told.                                                           *)

AnswerOK(answer, eds) ==
    (answer.kind = "fact" /\ ~answer.mixed) =>
      \E v \in eds :
         /\ \E c \in Reworded(answer.claim) : Says(v, c) \/ (answer.planned /\ Follows(ToSet(v), c))
         /\ (answer.how \in {"inverse", "transitive"} /\ ~answer.cut) => answer.claim \notin Usable(v)

LEMMA RespondTells ==
    ASSUME Inv, NEW t \in Typists, Respond(t)
    PROVE  Inv' /\ AnswerOK(told', editions)
  <1> DEFINE j == typist[t]
             claims == Usable(j.rows)
             stored(q, planned) == IF planned /\ compiled # None /\ q.kind = "normalized"
                                   THEN PlannedFacts(compiled, q) ELSE {}
             answer(f, s) == [kind |-> "fact", claim |-> f.claim, how |-> f.how, planned |-> s # {},
                              mixed |-> j.mixed /\ s = {}, cut |-> j.cut /\ s = {}]
  <1>1. PICK q \in Inquiries, planned \in BOOLEAN :
           IF stored(q, planned) \cup StagesOf(claims, q) = {} THEN Tell(t, [kind |-> "session"])
           ELSE \E f \in (IF stored(q, planned) # {} THEN stored(q, planned) ELSE StagesOf(claims, q)) :
                  Tell(t, answer(f, stored(q, planned)))
    BY DEF Respond
  <1> DEFINE s == stored(q, planned)
  <1>2. ReaderOK(j, editions) /\ j.step = "loaded"
    BY DEF Respond, Inv, JobOK
  <1>3. CASE s \cup StagesOf(claims, q) = {}
    <2>1. Tell(t, [kind |-> "session"])
      BY <1>1, <1>3
    <2>2. told' = [kind |-> "session"]
      BY <2>1 DEF Tell
    <2> QED
      BY <2>1, <2>2, TellKeeps DEF AnswerOK
  <1>4. CASE s \cup StagesOf(claims, q) # {}
    <2>1. PICK f \in (IF s # {} THEN s ELSE StagesOf(claims, q)) : Tell(t, answer(f, s))
      BY <1>1, <1>4
    <2>2. Inv'
      BY <2>1, TellKeeps
    <2>3. told' = answer(f, s)
      BY <2>1 DEF Tell
    <2> HIDE DEF s, stored
    <2>4. told'.claim = f.claim /\ told'.how = f.how /\ (told'.planned = (s # {})) /\ (told'.mixed = (j.mixed /\ s = {}))
          /\ (told'.cut = (j.cut /\ s = {}))
      BY <2>3
    <2> HIDE DEF answer
    <2>5. CASE s # {}
      <3>1. compiled # None /\ f \in PlannedFacts(compiled, q)
        BY <2>1, <2>5 DEF s, stored
      <3>2. compiled \in editions
        BY <3>1 DEF Inv
      <3>3. Follows(ToSet(compiled), told'.claim) /\ told'.how = "explicit"
        BY <2>4, <3>1, PlansFind
      <3>4. told'.claim \in Reworded(told'.claim)
        BY DEF Reworded
      <3>5. told'.planned
        BY <2>4, <2>5
      <3> QED
        BY <2>2, <3>2, <3>3, <3>4, <3>5 DEF AnswerOK
    <2>6. CASE s = {}
      <3>1. f \in StagesOf(claims, q)
        BY <2>1, <2>6
      <3>2. (told'.mixed <=> j.mixed) /\ (told'.cut <=> j.cut)
        BY <2>4, <2>6
      <3>3. ASSUME ~j.mixed
            PROVE  \E v \in editions : /\ \E c \in Reworded(f.claim) : Says(v, c)
                                       /\ (f.how \in {"inverse", "transitive"} /\ ~j.cut) => f.claim \notin Usable(v)
        <4>1. PICK v \in editions : RowsOfEdition(j.rows, v, j.cut)
          BY <1>2, <3>3 DEF ReaderOK
        <4>2. v \in Editions
          BY DEF Inv
        <4> QED
          BY <3>1, <4>1, <4>2, LoadedFacts
      <3> QED
        BY <2>2, <2>4, <3>2, <3>3 DEF AnswerOK
    <2> QED
      BY <2>5, <2>6
  <1> QED
    BY <1>3, <1>4

\* Every other step tells nothing or is none.
LEMMA StepTells ==
    ASSUME Inv, AnswerOK(told, editions), AnswerNext
    PROVE  Inv' /\ AnswerOK(told', editions')
  <1>1. told' = NoAnswerYet => AnswerOK(told', editions')
    BY DEF AnswerOK, NoAnswerYet
  <1>2. CASE CompressionNext /\ told' = NoAnswerYet /\ UNCHANGED <<compiled, promoted>>
    <2>1. CASE Reedit
      BY <1>1, <1>2, <2>1, ReeditKeeps
    <2>2. CASE \E t \in Typists : CompressPack(t)
      BY <1>1, <1>2, <2>2, CompressPackKeeps
    <2>3. CASE \E t \in Typists : WriteNext(t) \/ KillWriter(t)
      BY <1>1, <1>2, <2>3, WriteKeeps
    <2> QED
      BY <1>2, <2>1, <2>2, <2>3 DEF CompressionNext
  <1>3. CASE CompileStore
    BY <1>1, <1>3, CompileKeeps DEF CompileStore
  <1>4. CASE Rest
    <2>1. told' = told /\ editions' = editions
      BY <1>4 DEF Rest, answerVars
    <2> QED
      BY <1>4, <2>1, CompileKeeps
  <1>5. ASSUME NEW t \in Typists, Respond(t) PROVE Inv' /\ AnswerOK(told', editions')
    <2>1. editions' = editions
      BY <1>5 DEF Respond, Tell, KeepFiles
    <2> QED
      BY <1>5, <2>1, RespondTells
  <1>6. ASSUME NEW t \in Typists, Ask(t) \/ Promote(t) PROVE Inv' /\ AnswerOK(told', editions')
    BY <1>1, <1>6, AskKeeps DEF Ask, Promote, Inquire
  <1>7. ASSUME NEW t \in Typists, LoadClaims(t) PROVE Inv' /\ AnswerOK(told', editions')
    BY <1>1, <1>7, LoadKeeps DEF LoadClaims
  <1>8. ASSUME NEW t \in Typists, Observe(t) PROVE Inv' /\ AnswerOK(told', editions')
    BY <1>1, <1>8, ObserveKeeps DEF Observe
  <1>9. ASSUME NEW t \in Typists, MakePromoted(t) PROVE Inv' /\ AnswerOK(told', editions')
    <2>1. told' = NoAnswerYet \/ told' = [kind |-> "exists"]
      BY <1>9 DEF MakePromoted, Tell
    <2> QED
      BY <1>1, <1>9, <2>1, MakeKeeps DEF AnswerOK
  <1>10. ASSUME NEW t \in Typists, FillPromoted(t) PROVE Inv' /\ AnswerOK(told', editions')
    BY <1>1, <1>10, FillKeeps DEF FillPromoted
  <1>11. ASSUME NEW t \in Typists, KillPromoter(t) PROVE Inv' /\ AnswerOK(told', editions')
    BY <1>1, <1>11, KillPromoterKeeps DEF KillPromoter
  <1> QED
    BY <1>2, <1>3, <1>4, <1>5, <1>6, <1>7, <1>8, <1>9, <1>10, <1>11 DEF AnswerNext

InvAndAnswer == Inv /\ AnswerOK(told, editions)

LEMMA AnswersKeep == AnswerSpec => []InvAndAnswer
  <1>1. AnswerInit => InvAndAnswer
    BY InitInv DEF InvAndAnswer, AnswerInit, AnswerOK, NoAnswerYet
  <1>2. InvAndAnswer /\ [AnswerNext]_answerVars => InvAndAnswer'
    <2>1. ASSUME InvAndAnswer, UNCHANGED answerVars PROVE InvAndAnswer'
      BY <2>1 DEF InvAndAnswer, Inv, answerVars
    <2> QED
      BY <2>1, StepTells DEF InvAndAnswer
  <1> QED
    BY <1>1, <1>2, PTL DEF AnswerSpec

-----------------------------------------------------------------------------
(* The theorems.                                                           *)

\* What a pack is asked and what is promoted of it comes from its claims, for
\* any editions, questions and benchmarks, whatever is compressed, killed or
\* edited in between (cli.py: run_ask, run_infer_promote).
THEOREM PackAnswersHold == AnswerSpec => []FactsComeFromPack
  <1>1. InvAndAnswer => FactsComeFromPack
    <2> SUFFICES ASSUME InvAndAnswer PROVE FactsComeFromPack
      OBVIOUS
    <2>1. (promoted.made /\ promoted.meta) => promoted.claims = promoted.provenance /\ Founded(promoted.claims, promoted.of)
      BY DEF InvAndAnswer, Inv, PackOK
    <2>2. AnswerOK(told, editions)
      BY DEF InvAndAnswer
    <2> QED
      BY <2>1, <2>2 DEF FactsComeFromPack, AnswerOK, Founded
  <1> QED
    BY <1>1, AnswersKeep, PTL

\* Files of one compression, written whole, stand for the canonical claims,
\* for packs of any number of claims and names (compression/compressor.py).
THEOREM CompressionRestores == AnswerSpec => []ValidRestores
  <1>1. InvAndAnswer => ValidRestores
    <2> DEFINE originals == pressed["originals"].of
    <2> SUFFICES ASSUME Inv, \A f \in {"table", "encoded", "originals"} : pressed[f] = Contents(f, originals),
                        VerifiesIntact
        PROVE  /\ Decoded(pressed["table"], pressed["encoded"]) = Canonicals(originals)
               /\ (\A i \in DOMAIN originals : WellFormed(originals[i])) => Decompresses
      BY DEF InvAndAnswer, ValidRestores
    <2> DEFINE table == pressed["table"]
               encoded == pressed["encoded"]
               claims == Canonicals(originals)
    <2>1. /\ table = Written(originals, 1) /\ encoded = Written(originals, Len(claims))
          /\ pressed["originals"] = Written(originals, Len(originals))
      BY DEF Contents, LinesOf
    <2>2. originals \in Editions
      <3>1. pressed["originals"].kind = "whole"
        BY <2>1 DEF Written
      <3>2. originals \in editions
        BY <3>1 DEF Inv, FilesOK, Compared
      <3> QED
        BY <3>2 DEF Inv
    <2> HIDE DEF originals
    <2>3. table.of = originals /\ encoded.of = originals /\ encoded.lines = Len(claims)
          /\ pressed["originals"].of = originals /\ pressed["originals"].lines = Len(originals)
      BY <2>1 DEF Written
    <2>4. claims \in Seq(Claims) /\ Len(claims) \in Nat /\ DOMAIN claims = 1..Len(claims)
      BY <2>2, CanonicalsAreClaims
    <2>5. Decoded(table, encoded) = SubSeq(claims, 1, Len(claims))
      BY <2>2, <2>3, <2>4, DecodedClaims
    <2> HIDE DEF claims, table, encoded
    <2>6. Decoded(table, encoded) = claims
      <3>1. SubSeq(claims, 1, Len(claims)) = claims
        BY <2>4
      <3> QED
        BY <2>5, <3>1
    <2>7. ASSUME \A i \in DOMAIN originals : WellFormed(originals[i]) PROVE Decompresses
      <3>1. Len(originals) \in Nat /\ DOMAIN originals = 1..Len(originals) /\ originals \in Seq(Claims)
        BY <2>2, EditionRows
      <3>2. Len(claims) = Len(originals) /\ \A i \in DOMAIN originals : claims[i] = Canonical(originals[i])
        BY <2>2, <2>7, CanonicalsOfWhole DEF claims
      <3>3. SubSeq(originals, 1, Len(originals)) = originals
        BY <3>1
      <3>4. \A i \in DOMAIN originals : i \in DOMAIN claims /\ claims[i] = Canonical(originals[i])
        BY <2>4, <3>1, <3>2
      <3> QED
        BY <2>3, <2>6, <3>3, <3>4 DEF Decompresses, table, encoded
    <2> QED
      BY <2>6, <2>7 DEF claims, table, encoded
  <1> QED
    BY <1>1, AnswersKeep, PTL

=============================================================================
