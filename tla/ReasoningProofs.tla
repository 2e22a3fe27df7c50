-------------------------- MODULE ReasoningProofs --------------------------
(***************************************************************************)
(* Proofs about Reasoning, for every set of names, facts, constraints,     *)
(* goals and interpretations and every bound: the memory, then the         *)
(* soundness of what it holds and of the answer VERIFIED.  This holds of   *)
(* every node of every search, because a search only composes steps of     *)
(* Reasoning.                                                              *)
(***************************************************************************)
EXTENDS Reasoning, SequenceTheorems, TLAPS

----------------------------------------------------------------------------
(* Lemmas about the operations of the memory.                              *)

\* The claim add_claim stores.
NewClaim(s, r, o, status, deps) ==
    [subject |-> s, relation |-> r, object |-> o, status |-> status, deps |-> deps]

LEMMA NewClaimFields ==
    ASSUME NEW s \in Names, NEW r \in Relations, NEW o \in Names,
           NEW status \in TruthStatus, NEW deps \in Seq(Nat)
    PROVE  /\ NewClaim(s, r, o, status, deps) \in Claim
           /\ TripleOf(NewClaim(s, r, o, status, deps)) = <<s, r, o>>
           /\ NewClaim(s, r, o, status, deps).status = status
           /\ NewClaim(s, r, o, status, deps).deps = deps
  BY DEF NewClaim, Claim, TripleOf

\* add_claim on a key that is absent appends one claim and touches nothing else.
LEMMA AddClaimFresh ==
    ASSUME NEW m \in Memory, NEW s \in Names, NEW r \in Relations, NEW o \in Names,
           NEW status \in TruthStatus, NEW deps \in Seq(Nat), ~Holds(m, s, r, o)
    PROVE  /\ AddClaim(m, s, r, o, status, deps) \in Memory
           /\ AddClaim(m, s, r, o, status, deps).transitive = m.transitive
           /\ AddClaim(m, s, r, o, status, deps).schemas = m.schemas
           /\ AddClaim(m, s, r, o, status, deps).bindings = m.bindings
           /\ AddClaim(m, s, r, o, status, deps).contradictions = m.contradictions
           /\ AddClaim(m, s, r, o, status, deps).constraints = m.constraints
           /\ AddClaim(m, s, r, o, status, deps).claims
                = Append(m.claims, NewClaim(s, r, o, status, deps))
  <1> DEFINE c == NewClaim(s, r, o, status, deps)
  <1>1. c \in Claim
    BY NewClaimFields
  <1>2. AddClaim(m, s, r, o, status, deps) = [m EXCEPT !.claims = Append(m.claims, c)]
    BY DEF AddClaim, NewClaim
  <1> HIDE DEF c
  <1>3. m.claims \in Seq(Claim)
    BY DEF Memory
  <1>4. Append(m.claims, c) \in Seq(Claim)
    BY <1>1, <1>3
  <1>5. [m EXCEPT !.claims = Append(m.claims, c)] \in Memory
    BY <1>4 DEF Memory
  <1>6. /\ AddClaim(m, s, r, o, status, deps).claims = Append(m.claims, c)
        /\ AddClaim(m, s, r, o, status, deps).transitive = m.transitive
        /\ AddClaim(m, s, r, o, status, deps).schemas = m.schemas
        /\ AddClaim(m, s, r, o, status, deps).bindings = m.bindings
        /\ AddClaim(m, s, r, o, status, deps).contradictions = m.contradictions
        /\ AddClaim(m, s, r, o, status, deps).constraints = m.constraints
    BY <1>2 DEF Memory
  <1> QED
    BY <1>2, <1>5, <1>6 DEF c

\* What appending one claim means index by index.
LEMMA AppendClaim ==
    ASSUME NEW q \in Seq(Claim), NEW c \in Claim
    PROVE  /\ Len(q) \in Nat /\ DOMAIN q = 1..Len(q)
           /\ Len(Append(q, c)) = Len(q) + 1
           /\ DOMAIN Append(q, c) = 1..(Len(q) + 1)
           /\ \A i \in DOMAIN q : Append(q, c)[i] = q[i]
           /\ Append(q, c)[Len(q) + 1] = c
  OBVIOUS

----------------------------------------------------------------------------
(* The inductive invariant.                                                *)

\* Until reasoning starts every claim is a fact of the case, no symbol is
\* bound and no verifier has run.
NothingDerived ==
    ~started => /\ given = Len(mem.claims)
                /\ \A n \in Names : ~IsBound(mem, n)

Inv ==
    /\ TypeOK
    /\ UniqueClaims
    /\ DependenciesEarlier
    /\ Justified
    /\ BindingsJustified
    /\ NothingDerived

\* What no step may undo: stored claims and recorded contradictions.
Grows ==
    /\ Len(mem'.claims) \in {Len(mem.claims), Len(mem.claims) + 1}
    /\ \A i \in DOMAIN mem.claims : mem'.claims[i] = mem.claims[i]
    /\ mem.contradictions \subseteq mem'.contradictions

\* A step of reasoning also leaves the case alone.
Derives ==
    /\ Grows
    /\ started /\ UNCHANGED <<given, started>>
    /\ mem'.transitive = mem.transitive

\* The memory grows by one supported claim c, whose two dependencies are
\* earlier claims it follows from.
LEMMA GrowthStep ==
    ASSUME Inv, given' = given, started' = started, started,
           NEW n \in Nat, DOMAIN mem.claims = 1..n, Len(mem.claims) = n,
           NEW c \in Claim, c.status = "SUPPORTED", Len(c.deps) = 2,
           NEW a \in 1..n, NEW b \in 1..n, c.deps[1] = a, c.deps[2] = b,
           ByRule(TripleOf(c), a, b), TripleOf(c) \notin Triples(mem),
           mem' \in Memory, Len(mem'.claims) = n + 1, DOMAIN mem'.claims = 1..(n + 1),
           \A i \in 1..n : mem'.claims[i] = mem.claims[i],
           mem'.claims[n + 1] = c,
           mem'.transitive = mem.transitive, mem'.bindings = mem.bindings
    PROVE  Inv'
  <1>1. given \in 0..n /\ mem.claims \in Seq(Claim)
    BY DEF Inv, TypeOK, Memory
  <1>2. c.deps \in Seq(Nat) /\ DOMAIN c.deps = 1..2 /\ c.deps # << >>
    BY DEF Claim
  <1>3. TypeOK'
    BY <1>1 DEF Inv, TypeOK
  <1>4. UniqueClaims'
    <2>1. \A i \in 1..n : TripleOf(mem.claims[i]) # TripleOf(c)
      BY DEF Triples
    <2>2. \A i, j \in 1..n : TripleOf(mem.claims[i]) = TripleOf(mem.claims[j]) => i = j
      BY DEF Inv, UniqueClaims
    <2> QED
      BY <2>1, <2>2 DEF UniqueClaims
  <1>5. \A i \in 1..n : DepsOf(i)' = DepsOf(i) /\ DepsOf(i) \subseteq 1..n
    <2>1. \A i \in 1..n : DepsOf(i) \subseteq 1..n
      BY DEF Inv, DependenciesEarlier
    <2> QED
      BY <2>1 DEF DepsOf
  <1>6. DependenciesEarlier'
    <2>1. DepsOf(n + 1)' \subseteq 1..n
      BY <1>2 DEF DepsOf
    <2>2. \A i \in 1..n : /\ mem.claims[i].deps = << >> <=> i <= given
                         /\ \A d \in DepsOf(i) : d \in 1..(i - 1)
      BY DEF Inv, DependenciesEarlier
    <2> SUFFICES ASSUME NEW i \in 1..(n + 1)
                 PROVE  /\ mem'.claims[i].deps = << >> <=> i <= given
                        /\ \A d \in DepsOf(i)' : d \in 1..(i - 1)
      BY DEF DependenciesEarlier
    <2>3. CASE i \in 1..n
      <3>1. mem'.claims[i] = mem.claims[i] /\ DepsOf(i)' = DepsOf(i)
        BY <1>5, <2>3
      <3> QED
        BY <2>2, <2>3, <3>1
    <2>4. CASE i = n + 1
      <3>1. mem'.claims[i].deps # << >> /\ ~(i <= given)
        BY <1>1, <1>2, <2>4
      <3> QED
        BY <2>1, <2>4, <3>1
    <2> QED
      BY <2>3, <2>4
  <1>7. Justified'
    <2>1. ASSUME NEW u, NEW x \in 1..n, NEW y \in 1..n, ByRule(u, x, y)
          PROVE  ByRule(u, x, y)'
      <3>1. mem'.claims[x] = mem.claims[x] /\ mem'.claims[y] = mem.claims[y]
        OBVIOUS
      <3>2. ByTransitivity(u, x, y) => ByTransitivity(u, x, y)'
        BY <3>1 DEF ByTransitivity, TransitiveTriple
      <3>3. ByRewrite(u, x, y) => ByRewrite(u, x, y)'
        BY <3>1 DEF ByRewrite, SubjectTriple, ObjectTriple
      <3>4. ByRewrite(u, y, x) => ByRewrite(u, y, x)'
        BY <3>1 DEF ByRewrite, SubjectTriple, ObjectTriple
      <3>5. ByImplication(u, x, y) => ByImplication(u, x, y)'
        BY <3>1 DEF ByImplication, ImplicationTriple
      <3> QED
        BY <2>1, <3>2, <3>3, <3>4, <3>5 DEF ByRule
    <2>2. ASSUME NEW i \in 1..n, given < i
          PROVE  /\ mem.claims[i].status = "SUPPORTED"
                 /\ Len(mem.claims[i].deps) = 2
                 /\ ByRule(TripleOf(mem.claims[i]), mem.claims[i].deps[1], mem.claims[i].deps[2])'
      <3>1. /\ mem.claims[i].status = "SUPPORTED"
            /\ Len(mem.claims[i].deps) = 2
            /\ ByRule(TripleOf(mem.claims[i]), mem.claims[i].deps[1], mem.claims[i].deps[2])
        BY <1>1, <2>2 DEF Inv, Justified, Derived
      <3>2. mem.claims[i] \in Claim
        BY <1>1
      <3>3. mem.claims[i].deps \in Seq(Nat)
        BY <3>2 DEF Claim
      <3>4. mem.claims[i].deps[1] \in DepsOf(i) /\ mem.claims[i].deps[2] \in DepsOf(i)
        BY <3>1, <3>3 DEF DepsOf
      <3> QED
        BY <1>5, <2>1, <3>1, <3>4
    <2>3. ByRule(TripleOf(c), c.deps[1], c.deps[2])'
      BY <2>1
    <2>4. \A i \in Derived' : i \in 1..(n + 1) /\ given < i
      BY <1>1 DEF Derived
    <2> SUFFICES ASSUME NEW i \in 1..(n + 1), given < i
                 PROVE  /\ mem'.claims[i].status = "SUPPORTED"
                        /\ Len(mem'.claims[i].deps) = 2
                        /\ ByRule(TripleOf(mem.claims[i]), mem.claims[i].deps[1],
                                  mem.claims[i].deps[2])'
      BY <2>4 DEF Justified
    <2>5. CASE i \in 1..n
      <3>1. mem'.claims[i] = mem.claims[i]
        BY <2>5
      <3> QED
        BY <2>2, <2>5, <3>1
    <2>6. CASE i = n + 1
      <3>1. mem'.claims[i] = c
        BY <2>6
      <3> QED
        BY <2>3, <3>1
    <2> QED
      BY <2>5, <2>6
  <1>8. BindingsJustified'
    <2> SUFFICES ASSUME NEW name \in {x \in Names : IsBound(mem', x)}
                 PROVE  \E i \in DOMAIN mem'.claims :
                            /\ AcceptedEquality(mem', i)
                            /\ mem'.claims[i].subject = name
                            /\ mem'.claims[i].object \in Numerals
                            /\ mem'.bindings[name] = NumeralValue[mem'.claims[i].object]
      BY DEF BindingsJustified
    <2>0. name \in Names /\ mem.bindings[name] # Unbound
      BY DEF IsBound
    <2>1. PICK i \in 1..n : /\ AcceptedEquality(mem, i)
                            /\ mem.claims[i].subject = name
                            /\ mem.claims[i].object \in Numerals
                            /\ mem.bindings[name] = NumeralValue[mem.claims[i].object]
      BY DEF Inv, BindingsJustified, IsBound
    <2>2. mem'.claims[i] = mem.claims[i] /\ i \in 1..(n + 1)
      OBVIOUS
    <2> QED
      BY <2>1, <2>2 DEF AcceptedEquality, AcceptedClaim
  <1>9. NothingDerived'
    BY DEF NothingDerived
  <1> QED
    BY <1>3, <1>4, <1>6, <1>7, <1>8, <1>9 DEF Inv

\* Justifications depend on the claims and on which relations are transitive.
LEMMA JustifiedStable ==
    ASSUME Justified, mem'.claims = mem.claims, mem'.transitive = mem.transitive, given' = given
    PROVE  Justified'
  <1>1. ASSUME NEW u, NEW x, NEW y, ByRule(u, x, y)
        PROVE  ByRule(u, x, y)'
    <2>1. ByTransitivity(u, x, y) => ByTransitivity(u, x, y)'
      BY DEF ByTransitivity, TransitiveTriple
    <2>2. ByRewrite(u, x, y) => ByRewrite(u, x, y)'
      BY DEF ByRewrite, SubjectTriple, ObjectTriple
    <2>3. ByRewrite(u, y, x) => ByRewrite(u, y, x)'
      BY DEF ByRewrite, SubjectTriple, ObjectTriple
    <2>4. ByImplication(u, x, y) => ByImplication(u, x, y)'
      BY DEF ByImplication, ImplicationTriple
    <2> QED
      BY <1>1, <2>1, <2>2, <2>3, <2>4 DEF ByRule
  <1>2. Derived' = Derived
    BY DEF Derived
  <1> SUFFICES ASSUME NEW i \in Derived
               PROVE  /\ mem.claims[i].status = "SUPPORTED"
                      /\ Len(mem.claims[i].deps) = 2
                      /\ ByRule(TripleOf(mem.claims[i]), mem.claims[i].deps[1],
                                mem.claims[i].deps[2])'
    BY <1>2 DEF Justified
  <1> QED
    BY <1>1 DEF Justified

\* A step that touches neither claims, transitivity nor bindings.
LEMMA StableStep ==
    ASSUME Inv, mem' \in Memory, mem'.claims = mem.claims,
           mem'.transitive = mem.transitive, mem'.bindings = mem.bindings,
           mem.contradictions \subseteq mem'.contradictions,
           given' = given, started' \in BOOLEAN, started => started'
    PROVE  Inv' /\ Grows
  <1>1. TypeOK' /\ UniqueClaims' /\ NothingDerived'
    BY DEF Inv, TypeOK, UniqueClaims, NothingDerived, IsBound
  <1>2. DependenciesEarlier'
    BY DEF Inv, DependenciesEarlier, DepsOf
  <1>3. Justified'
    BY JustifiedStable DEF Inv
  <1>4. BindingsJustified'
    BY DEF Inv, BindingsJustified, IsBound, AcceptedEquality, AcceptedClaim
  <1> QED
    BY <1>1, <1>2, <1>3, <1>4 DEF Inv, Grows

----------------------------------------------------------------------------
(* Loading a case.                                                         *)

LEMMA AddSchemaType ==
    ASSUME NEW m \in Memory, NEW r \in Relations, NEW tr \in BOOLEAN
    PROVE  /\ AddSchema(m, r, tr) \in Memory
           /\ AddSchema(m, r, tr).claims = m.claims
           /\ AddSchema(m, r, tr).bindings = m.bindings
           /\ AddSchema(m, r, tr).contradictions = m.contradictions
  BY DEF AddSchema, Memory

LEMMA EmptyMemoryType == EmptyMemory \in Memory
  BY DEF EmptyMemory, Memory

LEMMA InitInv == Init => Inv
  <1> SUFFICES ASSUME Init PROVE Inv
    OBVIOUS
  <1>1. "is_a" \in Relations
    BY NamesAssumption
  <1>2. /\ mem \in Memory /\ mem.claims = EmptyMemory.claims
        /\ mem.bindings = EmptyMemory.bindings
    BY <1>1, EmptyMemoryType, AddSchemaType DEF Init
  <1>3. mem.claims = << >> /\ mem.bindings = [n \in Names |-> Unbound]
    BY <1>2 DEF EmptyMemory
  <1>4. DOMAIN mem.claims = {} /\ Len(mem.claims) = 0
    BY <1>3
  <1>5. given = 0 /\ started = FALSE
    BY DEF Init
  <1>6. TypeOK
    <2>1. given \in 0..Len(mem.claims)
      BY <1>4, <1>5
    <2>2. started \in BOOLEAN
      BY <1>5
    <2> QED
      BY <1>2, <2>1, <2>2 DEF TypeOK
  <1>7. UniqueClaims /\ DependenciesEarlier
    BY <1>4 DEF UniqueClaims, DependenciesEarlier
  <1>8. Justified
    <2>1. Derived = {}
      BY <1>4, <1>5 DEF Derived
    <2> QED
      BY <2>1 DEF Justified
  <1>9. \A n \in Names : ~IsBound(mem, n)
    BY <1>3 DEF IsBound
  <1>10. BindingsJustified /\ NothingDerived
    BY <1>4, <1>5, <1>9 DEF BindingsJustified, NothingDerived
  <1> QED
    BY <1>6, <1>7, <1>8, <1>10 DEF Inv

\* While nothing is derived and no symbol is bound, the parts of Inv that
\* speak of derived claims and of bindings hold vacuously.
LEMMA LoadStep ==
    ASSUME Inv, ~started, started' = FALSE, mem' \in Memory,
           mem'.bindings = mem.bindings, given' = Len(mem'.claims), UniqueClaims',
           \A i \in DOMAIN mem'.claims : mem'.claims[i].deps = << >>
    PROVE  Inv'
  <1>1. mem'.claims \in Seq(Claim)
    BY DEF Memory
  <1>2. Len(mem'.claims) \in Nat /\ DOMAIN mem'.claims = 1..Len(mem'.claims)
    BY <1>1
  <1>3. TypeOK'
    <2>1. given' \in 0..Len(mem'.claims)
      BY <1>2
    <2>2. started' \in BOOLEAN
      OBVIOUS
    <2> QED
      BY <2>1, <2>2 DEF TypeOK
  <1>4. DependenciesEarlier'
    <2>1. \A i \in DOMAIN mem'.claims : DepsOf(i)' = {}
      BY DEF DepsOf
    <2> QED
      BY <1>2, <2>1 DEF DependenciesEarlier
  <1>5. Justified'
    <2>1. Derived' = {}
      BY <1>2 DEF Derived
    <2> QED
      BY <2>1 DEF Justified
  <1>6. \A n \in Names : ~IsBound(mem', n)
    BY DEF Inv, NothingDerived, IsBound
  <1>7. BindingsJustified' /\ NothingDerived'
    BY <1>6 DEF BindingsJustified, NothingDerived
  <1> QED
    BY <1>3, <1>4, <1>5, <1>7 DEF Inv

\* What Inv says while a case is being loaded.
LEMMA LoadingFacts ==
    ASSUME Inv, ~started
    PROVE  /\ mem \in Memory
           /\ given = Len(mem.claims)
           /\ \A i \in DOMAIN mem.claims : mem.claims[i].deps = << >>
  <1>1. mem.claims \in Seq(Claim) /\ given = Len(mem.claims)
    BY DEF Inv, TypeOK, Memory, NothingDerived
  <1> QED
    BY <1>1 DEF Inv, TypeOK, NothingDerived, DependenciesEarlier

\* A loading step that leaves the claims alone.
LEMMA LoadElsewhere ==
    ASSUME Inv, ~started, UNCHANGED <<given, started>>, mem' \in Memory,
           mem'.claims = mem.claims, mem'.bindings = mem.bindings,
           mem'.contradictions = mem.contradictions
    PROVE  Inv' /\ Grows
  <1>1. UniqueClaims'
    BY DEF Inv, UniqueClaims
  <1>2. started' = FALSE
    BY DEF Inv, TypeOK
  <1>3. Inv'
    BY <1>1, <1>2, LoadingFacts, LoadStep
  <1> QED
    BY <1>3 DEF Grows

LEMMA LoadSchemaInv ==
    ASSUME Inv, NEW r \in BundleRelations, LoadSchema(r)
    PROVE  Inv' /\ Grows
  <1>1. r \in Relations
    BY CaseAssumption
  <1>2. mem \in Memory
    BY DEF Inv, TypeOK
  <1>3. /\ mem' \in Memory /\ mem'.claims = mem.claims
        /\ mem'.bindings = mem.bindings /\ mem'.contradictions = mem.contradictions
    BY <1>1, <1>2, AddSchemaType DEF LoadSchema
  <1> QED
    BY <1>3, LoadElsewhere DEF LoadSchema

\* One appended claim keeps the triples distinct, if its triple is new.
LEMMA UniqueAppend ==
    ASSUME UniqueClaims, NEW n \in Nat, DOMAIN mem.claims = 1..n,
           DOMAIN mem'.claims = 1..(n + 1),
           \A i \in 1..n : mem'.claims[i] = mem.claims[i],
           TripleOf(mem'.claims[n + 1]) \notin Triples(mem)
    PROVE  UniqueClaims'
  <1>1. \A i \in 1..n : TripleOf(mem.claims[i]) # TripleOf(mem'.claims[n + 1])
    BY DEF Triples
  <1>2. \A i, j \in 1..n : TripleOf(mem.claims[i]) = TripleOf(mem.claims[j]) => i = j
    BY DEF UniqueClaims
  <1> QED
    BY <1>1, <1>2 DEF UniqueClaims

LEMMA WithSchemaType ==
    ASSUME NEW m \in Memory, NEW r \in Relations, NEW n, n = WithSchema(m, r)
    PROVE  /\ n \in Memory /\ n.claims = m.claims
           /\ n.bindings = m.bindings /\ n.contradictions = m.contradictions
  <1>1. CASE r \in m.schemas
    BY <1>1 DEF WithSchema
  <1>2. CASE r \notin m.schemas
    <2>1. CASE r = "is_a"
      <3>1. n = AddSchema(m, r, TRUE)
        BY <1>2, <2>1 DEF WithSchema
      <3> QED
        BY <3>1, AddSchemaType
    <2>2. CASE r # "is_a"
      <3>1. n = AddSchema(m, r, FALSE)
        BY <1>2, <2>2 DEF WithSchema
      <3> QED
        BY <3>1, AddSchemaType
    <2> QED
      BY <2>1, <2>2
  <1> QED
    BY <1>1, <1>2

\* Loading a fact that is not there yet, after the schemas became those of w.
LEMMA LoadNewFact ==
    ASSUME Inv, ~started, started' = FALSE, given' = Len(mem'.claims),
           NEW w \in Memory, w.claims = mem.claims, w.bindings = mem.bindings,
           w.contradictions = mem.contradictions,
           NEW s \in Names, NEW r \in Relations, NEW o \in Names,
           NEW status \in TruthStatus, ~Holds(w, s, r, o),
           NEW deps, deps = << >>, mem' = AddClaim(w, s, r, o, status, deps)
    PROVE  Inv' /\ Grows
  <1> DEFINE c == NewClaim(s, r, o, status, deps)
             n == Len(w.claims)
  <1>1. deps \in Seq(Nat)
    OBVIOUS
  <1>a. /\ w \in Memory /\ s \in Names /\ r \in Relations /\ o \in Names
        /\ status \in TruthStatus /\ ~Holds(w, s, r, o)
        /\ mem' = AddClaim(w, s, r, o, status, deps)
    OBVIOUS
  <1>b. c \in Claim /\ c.deps = deps /\ TripleOf(c) = <<s, r, o>>
    BY ONLY <1>1, <1>a, NewClaimFields
  <1>2. c \in Claim /\ c.deps = << >> /\ TripleOf(c) = <<s, r, o>>
    BY <1>b
  <1>3. /\ mem' \in Memory /\ mem'.bindings = w.bindings
        /\ mem'.contradictions = w.contradictions /\ mem'.claims = Append(w.claims, c)
    BY ONLY <1>1, <1>a, AddClaimFresh
  <1> HIDE DEF c
  <1>4. w.claims \in Seq(Claim)
    BY DEF Memory
  <1>5. /\ n \in Nat /\ DOMAIN mem.claims = 1..n
        /\ Len(mem'.claims) = n + 1 /\ DOMAIN mem'.claims = 1..(n + 1)
        /\ \A i \in 1..n : mem'.claims[i] = mem.claims[i]
        /\ mem'.claims[n + 1] = c
    BY <1>2, <1>3, <1>4, AppendClaim
  <1> HIDE DEF n
  <1>6. UniqueClaims'
    <2>1. TripleOf(mem'.claims[n + 1]) \notin Triples(mem)
      BY <1>2, <1>5 DEF Holds, Triples
    <2>2. UniqueClaims
      BY DEF Inv
    <2> QED
      BY ONLY <1>5, <2>1, <2>2, UniqueAppend
  <1>7. \A i \in DOMAIN mem'.claims : mem'.claims[i].deps = << >>
    <2>1. \A i \in 1..n : mem.claims[i].deps = << >>
      BY <1>5, LoadingFacts
    <2> QED
      BY ONLY <1>2, <1>5, <2>1
  <1>8. Inv'
    BY <1>3, <1>6, <1>7, LoadStep
  <1>9. Grows
    <2>1. n = Len(mem.claims)
      BY DEF n
    <2> QED
      BY <1>3, <1>5, <2>1 DEF Grows
  <1> QED
    BY <1>8, <1>9

LEMMA LoadFactInv ==
    ASSUME Inv, NEW f \in Facts, LoadFact(f)
    PROVE  Inv' /\ Grows
  <1>1. f \in [subject : Names, relation : Relations, object : Names, status : TruthStatus]
    BY CaseAssumption
  <1>2. /\ f.subject \in Names /\ f.relation \in Relations
        /\ f.object \in Names /\ f.status \in TruthStatus
    BY <1>1
  <1>3. ~started /\ given' = Len(mem'.claims) /\ started' = FALSE
    BY DEF LoadFact, Inv, TypeOK
  <1>4. /\ mem \in Memory
        /\ \A i \in DOMAIN mem.claims : mem.claims[i].deps = << >>
    BY <1>3, LoadingFacts
  <1> DEFINE w == WithSchema(mem, f.relation)
  <1>5. /\ w \in Memory /\ w.claims = mem.claims
        /\ w.bindings = mem.bindings /\ w.contradictions = mem.contradictions
    BY <1>2, <1>4, WithSchemaType
  <1>6. mem' = AddClaim(w, f.subject, f.relation, f.object, f.status, << >>)
    BY DEF LoadFact
  <1> HIDE DEF w
  <1>7. CASE Holds(w, f.subject, f.relation, f.object)
    <2>1. mem' = w
      BY <1>6, <1>7 DEF AddClaim
    <2>2. UniqueClaims'
      BY <1>5, <2>1 DEF Inv, UniqueClaims
    <2>3. Inv'
      BY ONLY Inv, <1>3, <1>4, <1>5, <2>1, <2>2, LoadStep
    <2> QED
      BY <1>5, <2>1, <2>3 DEF Grows
  <1>8. CASE ~Holds(w, f.subject, f.relation, f.object)
    BY ONLY Inv, <1>2, <1>3, <1>5, <1>6, <1>8, LoadNewFact
  <1> QED
    BY <1>7, <1>8

LEMMA AppendElsewhere ==
    ASSUME NEW m \in Memory
    PROVE  /\ \A c \in Constraint : AddConstraint(m, c) \in Memory
           /\ \A g \in Goal : AddGoal(m, g) \in Memory
           /\ \A e \in ElementId : AddEvidence(m, e) \in Memory
  <1>1. m.constraints \in Seq(Constraint) /\ m.goals \in Seq(Goal) /\ m.evidence \in Seq(ElementId)
    BY DEF Memory
  <1>2. \A c \in Constraint : Append(m.constraints, c) \in Seq(Constraint)
    BY <1>1
  <1>3. \A g \in Goal : Append(m.goals, g) \in Seq(Goal)
    BY <1>1
  <1>4. \A e \in ElementId : Append(m.evidence, e) \in Seq(ElementId)
    BY <1>1
  <1>5. \A c \in Constraint : AddConstraint(m, c) \in Memory
    BY <1>2 DEF AddConstraint, Memory
  <1>6. \A g \in Goal : AddGoal(m, g) \in Memory
    BY <1>3 DEF AddGoal, Memory
  <1>7. \A e \in ElementId : AddEvidence(m, e) \in Memory
    BY <1>4 DEF AddEvidence, Memory
  <1> QED
    BY <1>5, <1>6, <1>7

LEMMA LoadConstraintInv ==
    ASSUME Inv, NEW c \in CaseConstraints, LoadConstraint(c)
    PROVE  Inv' /\ Grows
  <1>1. mem \in Memory /\ c \in Constraint
    BY CaseAssumption DEF Inv, TypeOK
  <1>2. mem' \in Memory
    BY <1>1, AppendElsewhere DEF LoadConstraint
  <1>3. /\ mem'.claims = mem.claims /\ mem'.bindings = mem.bindings
        /\ mem'.contradictions = mem.contradictions
    BY <1>1 DEF LoadConstraint, AddConstraint, Memory
  <1> QED
    BY <1>2, <1>3, LoadElsewhere DEF LoadConstraint

LEMMA LoadGoalInv ==
    ASSUME Inv, NEW g \in CaseGoals, LoadGoal(g)
    PROVE  Inv' /\ Grows
  <1>1. mem \in Memory /\ g \in Goal
    BY CaseAssumption DEF Inv, TypeOK
  <1>2. mem' \in Memory
    BY <1>1, AppendElsewhere DEF LoadGoal
  <1>3. /\ mem'.claims = mem.claims /\ mem'.bindings = mem.bindings
        /\ mem'.contradictions = mem.contradictions
    BY <1>1 DEF LoadGoal, AddGoal, Memory
  <1> QED
    BY <1>2, <1>3, LoadElsewhere DEF LoadGoal

LEMMA StartInv == Inv /\ Start => Inv' /\ Grows
  <1> SUFFICES ASSUME Inv, Start PROVE Inv' /\ Grows
    OBVIOUS
  <1>1. mem' = mem /\ given' = given /\ started' = TRUE
    BY DEF Start
  <1>2. mem \in Memory
    BY DEF Inv, TypeOK
  <1> QED
    BY <1>1, <1>2, StableStep

----------------------------------------------------------------------------
(* Reasoning.                                                              *)

\* Applying a proposed claim adds it, or does nothing when it is refused.
LEMMA AppliedSupporting ==
    ASSUME NEW m, NEW t, NEW d
    PROVE  \/ Applied(m, Supporting(t, d)) = m
           \/ Applied(m, Supporting(t, d)) = AddClaim(m, t[1], t[2], t[3], "SUPPORTED", d)
  <1> DEFINE x == Supporting(t, d)
  <1>1. x.type = "AddClaim" /\ x.triple = t /\ x.deps = d
    BY DEF Supporting
  <1> HIDE DEF x
  <1>2. \/ Applied(m, x) = m
        \/ Applied(m, x) = AddClaim(m, x.triple[1], x.triple[2], x.triple[3], "SUPPORTED", x.deps)
    BY <1>1 DEF Applied
  <1> QED
    BY <1>1, <1>2 DEF x

\* A rule adds one claim that follows from the claims a and b.
LEMMA Conclude ==
    ASSUME Inv, started, UNCHANGED <<given, started>>,
           NEW s \in Names, NEW r \in Relations, NEW o \in Names,
           NEW a \in DOMAIN mem.claims, NEW b \in DOMAIN mem.claims,
           ByRule(<<s, r, o>>, a, b), <<s, r, o>> \notin Triples(mem),
           NEW deps, deps = <<a, b>>,
           mem' = AddClaim(mem, s, r, o, "SUPPORTED", deps)
    PROVE  Inv' /\ Derives
  <1> DEFINE c == NewClaim(s, r, o, "SUPPORTED", deps)
             n == Len(mem.claims)
  <1>1. mem \in Memory /\ mem.claims \in Seq(Claim)
    BY DEF Inv, TypeOK, Memory
  <1>2. n \in Nat /\ DOMAIN mem.claims = 1..n
    BY <1>1
  <1>3. deps \in Seq(Nat) /\ Len(deps) = 2 /\ deps[1] = a /\ deps[2] = b
    BY <1>2
  <1>4. /\ s \in Names /\ r \in Relations /\ o \in Names
        /\ "SUPPORTED" \in TruthStatus /\ ~Holds(mem, s, r, o)
        /\ mem' = AddClaim(mem, s, r, o, "SUPPORTED", deps)
    BY DEF TruthStatus, Holds
  <1>5. /\ c \in Claim /\ c.deps = deps /\ TripleOf(c) = <<s, r, o>>
        /\ c.status = "SUPPORTED"
    BY ONLY <1>3, <1>4, NewClaimFields
  <1>6. /\ mem' \in Memory /\ mem'.bindings = mem.bindings
        /\ mem'.transitive = mem.transitive
        /\ mem'.contradictions = mem.contradictions
        /\ mem'.claims = Append(mem.claims, c)
    BY ONLY <1>1, <1>3, <1>4, AddClaimFresh
  <1> HIDE DEF c
  <1>7. /\ Len(mem'.claims) = n + 1 /\ DOMAIN mem'.claims = 1..(n + 1)
        /\ \A i \in 1..n : mem'.claims[i] = mem.claims[i]
        /\ mem'.claims[n + 1] = c
    BY ONLY <1>1, <1>2, <1>5, <1>6, AppendClaim
  <1>8. /\ Len(c.deps) = 2 /\ c.deps[1] = a /\ c.deps[2] = b
        /\ ByRule(TripleOf(c), a, b) /\ TripleOf(c) \notin Triples(mem)
    BY <1>3, <1>5
  <1>9. a \in 1..n /\ b \in 1..n /\ given' = given /\ started' = started /\ Len(mem.claims) = n
    BY <1>2
  <1> HIDE DEF n
  <1>10. Inv'
    BY ONLY Inv, started, <1>2, <1>5, <1>6, <1>7, <1>8, <1>9, GrowthStep
  <1>11. Grows
    BY ONLY <1>2, <1>6, <1>7, <1>9 DEF Grows
  <1> QED
    BY <1>6, <1>10, <1>11 DEF Derives

\* Proposing the conclusion of a rule keeps the invariant, refused or not.
LEMMA ProposeStep ==
    ASSUME Inv, NEW s \in Names, NEW r \in Relations, NEW o \in Names,
           NEW a \in DOMAIN mem.claims, NEW b \in DOMAIN mem.claims,
           NEW t, t = <<s, r, o>>, NEW d, d = <<a, b>>,
           ByRule(t, a, b), Fresh(mem, t), Apply(Supporting(t, d))
    PROVE  Inv' /\ Derives
  <1>1. started /\ UNCHANGED <<given, started>> /\ mem' = Applied(mem, Supporting(t, d))
    BY DEF Apply
  <1>2. CASE mem' = mem
    <2>1. mem' \in Memory /\ started' \in BOOLEAN
      BY <1>1, <1>2 DEF Inv, TypeOK
    <2> QED
      BY ONLY Inv, <1>1, <1>2, <2>1, StableStep DEF Derives
  <1>3. CASE mem' = AddClaim(mem, t[1], t[2], t[3], "SUPPORTED", d)
    <2>1. mem' = AddClaim(mem, s, r, o, "SUPPORTED", d)
      BY <1>3
    <2>2. ByRule(<<s, r, o>>, a, b) /\ <<s, r, o>> \notin Triples(mem) /\ d = <<a, b>>
      BY DEF Fresh
    <2>3. /\ s \in Names /\ r \in Relations /\ o \in Names
          /\ a \in DOMAIN mem.claims /\ b \in DOMAIN mem.claims
      OBVIOUS
    <2> QED
      BY ONLY Inv, <1>1, <2>1, <2>2, <2>3, Conclude
  <1> QED
    BY ONLY <1>1, <1>2, <1>3, AppliedSupporting

\* The parts of a stored claim have their types.
LEMMA ClaimParts ==
    ASSUME Inv, NEW i \in DOMAIN mem.claims
    PROVE  /\ mem.claims[i].subject \in Names
           /\ mem.claims[i].relation \in Relations
           /\ mem.claims[i].object \in Names
  <1>1. mem.claims \in Seq(Claim)
    BY DEF Inv, TypeOK, Memory
  <1>2. mem.claims[i] \in Claim
    BY <1>1
  <1> QED
    BY <1>2 DEF Claim

LEMMA TransitiveClosureInv == Inv /\ TransitiveClosure => Inv' /\ Derives
  <1> SUFFICES ASSUME Inv, NEW p \in TransitivePairs(mem), Apply(TransitiveStep(mem, p))
               PROVE  Inv' /\ Derives
    BY DEF TransitiveClosure
  <1> DEFINE a == p[1]
             b == p[2]
             t == TransitiveTriple(mem, p)
  <1>1. /\ a \in DOMAIN mem.claims /\ b \in DOMAIN mem.claims /\ p = <<a, b>>
        /\ mem.claims[a].relation \in mem.transitive
        /\ mem.claims[b].relation = mem.claims[a].relation
        /\ mem.claims[a].object = mem.claims[b].subject
        /\ Fresh(mem, t)
    BY DEF TransitivePairs
  <1>2. t = <<mem.claims[a].subject, mem.claims[a].relation, mem.claims[b].object>>
    BY DEF TransitiveTriple
  <1>3. ByRule(t, a, b)
    BY <1>1 DEF ByRule, ByTransitivity
  <1>4. Apply(Supporting(t, p))
    BY DEF TransitiveStep
  <1>5. mem.claims[a].subject \in Names /\ mem.claims[a].relation \in Relations
    BY <1>1, ClaimParts
  <1>6. mem.claims[b].object \in Names
    BY <1>1, ClaimParts
  <1> HIDE DEF a, b, t
  <1> QED
    BY ONLY Inv, <1>1, <1>2, <1>3, <1>4, <1>5, <1>6, ProposeStep

LEMMA RewriteSubjectInv == Inv /\ RewriteSubject => Inv' /\ Derives
  <1> SUFFICES ASSUME Inv, NEW p \in SubjectPairs(mem), Apply(SubjectStep(mem, p))
               PROVE  Inv' /\ Derives
    BY DEF RewriteSubject
  <1> DEFINE a == p[1]
             b == p[2]
             t == SubjectTriple(mem, p)
  <1>1. /\ a \in DOMAIN mem.claims /\ b \in DOMAIN mem.claims /\ p = <<a, b>>
        /\ mem.claims[a].relation = "equals" /\ mem.claims[b].relation # "equals"
        /\ mem.claims[b].subject = mem.claims[a].object
        /\ Fresh(mem, t)
    BY DEF SubjectPairs, AcceptedEquality
  <1>2. t = <<mem.claims[a].subject, mem.claims[b].relation, mem.claims[b].object>>
    BY DEF SubjectTriple
  <1>3. ByRule(t, a, b)
    BY <1>1 DEF ByRule, ByRewrite
  <1>4. Apply(Supporting(t, p))
    BY DEF SubjectStep
  <1>5. mem.claims[a].subject \in Names
    BY <1>1, ClaimParts
  <1>6. mem.claims[b].relation \in Relations /\ mem.claims[b].object \in Names
    BY <1>1, ClaimParts
  <1> HIDE DEF a, b, t
  <1> QED
    BY ONLY Inv, <1>1, <1>2, <1>3, <1>4, <1>5, <1>6, ProposeStep

LEMMA RewriteObjectInv == Inv /\ RewriteObject => Inv' /\ Derives
  <1> SUFFICES ASSUME Inv, NEW p \in ObjectPairs(mem), Apply(ObjectStep(mem, p))
               PROVE  Inv' /\ Derives
    BY DEF RewriteObject
  <1> DEFINE a == p[1]
             b == p[2]
             t == ObjectTriple(mem, p)
             d == <<b, a>>
  <1>1. /\ a \in DOMAIN mem.claims /\ b \in DOMAIN mem.claims /\ p = <<a, b>>
        /\ mem.claims[a].relation = "equals" /\ mem.claims[b].relation # "equals"
        /\ mem.claims[b].object = mem.claims[a].subject
        /\ Fresh(mem, t)
    BY DEF ObjectPairs, AcceptedEquality
  <1>2. t = <<mem.claims[b].subject, mem.claims[b].relation, mem.claims[a].object>>
    BY DEF ObjectTriple
  <1>3. ByRule(t, b, a)
    BY <1>1 DEF ByRule, ByRewrite
  <1>4. Apply(Supporting(t, d))
    BY DEF ObjectStep
  <1>5. mem.claims[a].object \in Names
    BY <1>1, ClaimParts
  <1>6. mem.claims[b].subject \in Names /\ mem.claims[b].relation \in Relations
    BY <1>1, ClaimParts
  <1>7. d = <<b, a>>
    OBVIOUS
  <1> HIDE DEF a, b, t, d
  <1> QED
    BY ONLY Inv, <1>1, <1>2, <1>3, <1>4, <1>5, <1>6, <1>7, ProposeStep

LEMMA ApplyImplicationInv == Inv /\ ApplyImplication => Inv' /\ Derives
  <1> SUFFICES ASSUME Inv, NEW p \in ImplicationPairs(mem), Apply(ImplicationStep(mem, p))
               PROVE  Inv' /\ Derives
    BY DEF ApplyImplication
  <1> DEFINE a == p[1]
             b == p[2]
             t == ImplicationTriple(mem, p)
  <1>1. /\ a \in DOMAIN mem.claims /\ b \in DOMAIN mem.claims /\ p = <<a, b>>
        /\ mem.claims[a].relation = "is_true" /\ mem.claims[b].relation = "implies"
        /\ mem.claims[a].subject = mem.claims[b].subject
        /\ Fresh(mem, t)
    BY DEF ImplicationPairs, IsPremise, TruePremises
  <1>2. t = <<mem.claims[b].object, "is_true", "true">>
    BY DEF ImplicationTriple
  <1>3. ByRule(t, a, b)
    BY <1>1 DEF ByRule, ByImplication
  <1>4. Apply(Supporting(t, p))
    BY DEF ImplicationStep
  <1>5. mem.claims[b].object \in Names /\ "true" \in Names /\ "is_true" \in Relations
    BY <1>1, ClaimParts, NamesAssumption
  <1> HIDE DEF a, b, t
  <1> QED
    BY ONLY Inv, <1>1, <1>2, <1>3, <1>4, <1>5, ProposeStep

LEMMA AppliedBinding ==
    ASSUME NEW m, NEW x, NEW v
    PROVE  Applied(m, Binding(x, v)) = BindSymbol(m, x, v)
  <1> DEFINE t == Binding(x, v)
  <1>1. t.type = "BindSymbol" /\ t.name = x /\ t.value = v
    BY DEF Binding
  <1> HIDE DEF t
  <1> QED
    BY <1>1 DEF Applied, Valid, t

LEMMA AppliedEvidence ==
    ASSUME NEW m, NEW e
    PROVE  Applied(m, Evidence(e)) = AddEvidence(m, e)
  <1> DEFINE t == Evidence(e)
  <1>1. t.type = "AddEvidence" /\ t.target = e
    BY DEF Evidence
  <1> HIDE DEF t
  <1> QED
    BY <1>1 DEF Applied, Valid, t

LEMMA AppliedConflict ==
    ASSUME NEW m, NEW es, NEW sev
    PROVE  Applied(m, Conflict(es, sev)) = RecordContradiction(m, es, sev)
  <1> DEFINE t == Conflict(es, sev)
  <1>1. t.type = "RecordContradiction" /\ t.elements = es /\ t.severity = sev
    BY DEF Conflict
  <1> HIDE DEF t
  <1> QED
    BY <1>1 DEF Applied, Valid, t

LEMMA BindType ==
    ASSUME NEW m \in Memory, NEW x \in Names, NEW v \in Int
    PROVE  /\ BindSymbol(m, x, v) \in Memory
           /\ BindSymbol(m, x, v).claims = m.claims
           /\ BindSymbol(m, x, v).transitive = m.transitive
           /\ BindSymbol(m, x, v).constraints = m.constraints
           /\ BindSymbol(m, x, v).contradictions = m.contradictions
           /\ BindSymbol(m, x, v).bindings[x] = v
           /\ \A y \in Names \ {x} : BindSymbol(m, x, v).bindings[y] = m.bindings[y]
  <1>1. m.bindings \in [Names -> Int \cup {Unbound}]
    BY DEF Memory
  <1>2. [m.bindings EXCEPT ![x] = v] \in [Names -> Int \cup {Unbound}]
    BY <1>1
  <1>3. BindSymbol(m, x, v) = [m EXCEPT !.bindings = [m.bindings EXCEPT ![x] = v]]
    BY DEF BindSymbol
  <1>4. /\ BindSymbol(m, x, v) \in Memory
        /\ BindSymbol(m, x, v).claims = m.claims
        /\ BindSymbol(m, x, v).transitive = m.transitive
        /\ BindSymbol(m, x, v).constraints = m.constraints
        /\ BindSymbol(m, x, v).contradictions = m.contradictions
        /\ BindSymbol(m, x, v).bindings = [m.bindings EXCEPT ![x] = v]
    BY <1>2, <1>3 DEF Memory
  <1> QED
    BY <1>1, <1>4

\* Recording contradictions about elements of the memory.
Recorded(m, K) == [m EXCEPT !.contradictions = @ \cup K]

LEMMA RecordedFields ==
    ASSUME NEW m \in Memory, NEW K \in SUBSET Contradiction
    PROVE  /\ Recorded(m, K) \in Memory
           /\ Recorded(m, K).claims = m.claims
           /\ Recorded(m, K).transitive = m.transitive
           /\ Recorded(m, K).bindings = m.bindings
           /\ Recorded(m, K).constraints = m.constraints
           /\ Recorded(m, K).contradictions = m.contradictions \cup K
  <1>1. m.contradictions \cup K \in SUBSET Contradiction
    BY DEF Memory
  <1>2. Recorded(m, K) = [m EXCEPT !.contradictions = m.contradictions \cup K]
    BY DEF Recorded
  <1> QED
    BY <1>1, <1>2 DEF Memory

LEMMA BindNumeralInv == Inv /\ BindNumeral => Inv' /\ Derives
  <1> SUFFICES ASSUME Inv, NEW i \in BindableClaims(mem), Apply(BindStep(mem, i))
               PROVE  Inv' /\ Derives
    BY DEF BindNumeral
  <1> DEFINE x == mem.claims[i].subject
             v == NumeralValue[mem.claims[i].object]
  <1>1. /\ i \in DOMAIN mem.claims /\ AcceptedEquality(mem, i)
        /\ mem.claims[i].object \in Numerals
    BY DEF BindableClaims
  <1>2. mem \in Memory /\ x \in Names /\ v \in Int
    BY <1>1, ClaimParts, NamesAssumption DEF Inv, TypeOK
  <1>3. started /\ started' = started /\ given' = given
    BY DEF Apply
  <1>4. mem' = BindSymbol(mem, x, v)
    BY AppliedBinding DEF Apply, BindStep
  <1>a. x = mem.claims[i].subject /\ v = NumeralValue[mem.claims[i].object]
    OBVIOUS
  <1> HIDE DEF x, v
  <1>5. /\ mem' \in Memory /\ mem'.claims = mem.claims /\ mem'.transitive = mem.transitive
        /\ mem'.contradictions = mem.contradictions
        /\ mem'.bindings[x] = v
        /\ \A y \in Names \ {x} : mem'.bindings[y] = mem.bindings[y]
    BY <1>2, <1>4, BindType
  <1>6. TypeOK' /\ UniqueClaims' /\ NothingDerived'
    BY ONLY Inv, <1>3, <1>5 DEF Inv, TypeOK, UniqueClaims, NothingDerived
  <1>7. DependenciesEarlier'
    BY ONLY Inv, <1>3, <1>5 DEF Inv, DependenciesEarlier, DepsOf
  <1>8. Justified'
    BY ONLY Inv, <1>3, <1>5, JustifiedStable DEF Inv
  <1>9. BindingsJustified'
    <2> SUFFICES ASSUME NEW y \in Names, mem'.bindings[y] # Unbound
                 PROVE  \E j \in DOMAIN mem.claims :
                            /\ AcceptedEquality(mem, j)
                            /\ mem.claims[j].subject = y
                            /\ mem.claims[j].object \in Numerals
                            /\ mem'.bindings[y] = NumeralValue[mem.claims[j].object]
      BY <1>5 DEF BindingsJustified, IsBound, AcceptedEquality, AcceptedClaim
    <2>1. CASE y = x
      BY <1>1, <1>5, <1>a, <2>1
    <2>2. CASE y # x
      <3>1. mem'.bindings[y] = mem.bindings[y]
        BY <1>5, <2>2
      <3> QED
        BY <3>1 DEF Inv, BindingsJustified, IsBound
    <2> QED
      BY <2>1, <2>2
  <1>10. Derives
    BY <1>3, <1>5 DEF Derives, Grows
  <1> QED
    BY <1>6, <1>7, <1>8, <1>9, <1>10 DEF Inv

LEMMA DecideConstraintInv == Inv /\ DecideConstraint => Inv' /\ Derives
  <1> SUFFICES ASSUME Inv, NEW k \in DecidedConstraints(mem), Apply(ConstraintStep(mem, k))
               PROVE  Inv' /\ Derives
    BY DEF DecideConstraint
  <1> DEFINE x == mem.constraints[k].target
  <1>1. mem \in Memory /\ mem.constraints \in Seq(Constraint)
    BY DEF Inv, TypeOK, Memory
  <1>2. k \in Nat /\ mem.constraints[k] \in Constraint
    BY <1>1 DEF DecidedConstraints
  <1>3. x \in Names
    BY <1>2 DEF Constraint
  <1> HIDE DEF x
  <1>4. started /\ UNCHANGED <<given, started>> /\ started' \in BOOLEAN
    BY DEF Apply, Inv, TypeOK
  <1>5. CASE SatisfiedConstraint(mem, k)
    <2>1. mem' = AddEvidence(mem, <<"constraint", k>>)
      BY <1>5, AppliedEvidence DEF Apply, ConstraintStep
    <2>2. <<"constraint", k>> \in ElementId
      BY <1>2 DEF ElementId
    <2>3. mem' \in Memory
      BY <1>1, <2>1, <2>2, AppendElsewhere
    <2>4. /\ mem'.claims = mem.claims /\ mem'.transitive = mem.transitive
          /\ mem'.bindings = mem.bindings /\ mem'.contradictions = mem.contradictions
      BY <1>1, <2>1 DEF AddEvidence, Memory
    <2> QED
      BY <1>4, <2>3, <2>4, StableStep DEF Derives
  <1>6. CASE ~SatisfiedConstraint(mem, k)
    <2> DEFINE es == {<<"constraint", k>>, <<"symbol", x>>}
    <2>1. mem' = RecordContradiction(mem, es, "unsat")
      BY <1>6, AppliedConflict DEF Apply, ConstraintStep, x
    <2>2. es \subseteq ElementId
      BY <1>2, <1>3 DEF ElementId
    <2> HIDE DEF es
    <2>3. {[elements |-> es, severity |-> "unsat"]} \in SUBSET Contradiction
      BY <2>2 DEF Contradiction
    <2>4. mem' = Recorded(mem, {[elements |-> es, severity |-> "unsat"]})
      BY <2>1 DEF RecordContradiction, Recorded
    <2>5. /\ mem' \in Memory /\ mem'.claims = mem.claims
          /\ mem'.transitive = mem.transitive /\ mem'.bindings = mem.bindings
          /\ mem.contradictions \subseteq mem'.contradictions
      BY <1>1, <2>3, <2>4, RecordedFields
    <2> QED
      BY ONLY Inv, <1>4, <2>5, StableStep DEF Derives
  <1> QED
    BY <1>5, <1>6

LEMMA RecordConflictInv == Inv /\ RecordConflict => Inv' /\ Derives
  <1> SUFFICES ASSUME Inv, NEW p \in ConflictPairs(mem), Apply(ConflictStep(p))
               PROVE  Inv' /\ Derives
    BY DEF RecordConflict
  <1> DEFINE es == {<<"claim", p[1]>>, <<"claim", p[2]>>}
  <1>1. mem \in Memory /\ mem.claims \in Seq(Claim)
    BY DEF Inv, TypeOK, Memory
  <1>2. p[1] \in Nat /\ p[2] \in Nat
    BY <1>1 DEF ConflictPairs, EqualityConflicts
  <1>3. es \subseteq ElementId
    BY <1>2 DEF ElementId
  <1>4. mem' = RecordContradiction(mem, es, "high")
    BY AppliedConflict DEF Apply, ConflictStep
  <1> HIDE DEF es
  <1>5. {[elements |-> es, severity |-> "high"]} \in SUBSET Contradiction
    BY <1>3 DEF Contradiction
  <1>6. mem' = Recorded(mem, {[elements |-> es, severity |-> "high"]})
    BY <1>4 DEF RecordContradiction, Recorded
  <1>7. /\ mem' \in Memory /\ mem'.claims = mem.claims
        /\ mem'.transitive = mem.transitive /\ mem'.bindings = mem.bindings
        /\ mem.contradictions \subseteq mem'.contradictions
    BY <1>1, <1>5, <1>6, RecordedFields
  <1>8. started /\ UNCHANGED <<given, started>> /\ started' \in BOOLEAN
    BY DEF Apply, Inv, TypeOK
  <1> QED
    BY ONLY Inv, <1>7, <1>8, StableStep DEF Derives

\* What the verifiers record has the type of a contradiction.
LEMMA VerifierRecordType ==
    ASSUME NEW m \in Memory
    PROVE  ConstraintContradictions(m) \cup DetectedContradictions(m) \in SUBSET Contradiction
  <1>1. m.claims \in Seq(Claim) /\ m.constraints \in Seq(Constraint)
    BY DEF Memory
  <1>2. \A p \in EqualityConflicts(m) : {<<"claim", p[1]>>, <<"claim", p[2]>>} \subseteq ElementId
    BY <1>1 DEF EqualityConflicts, ElementId
  <1>3. \A p \in BoundConflicts(m) :
            {<<"constraint", p[1]>>, <<"constraint", p[2]>>} \subseteq ElementId
    BY <1>1 DEF BoundConflicts, ElementId
  <1>4. \A k \in ViolatedConstraints(m) :
            {<<"constraint", k>>, <<"symbol", m.constraints[k].target>>} \subseteq ElementId
    <2> SUFFICES ASSUME NEW k \in ViolatedConstraints(m)
                 PROVE  {<<"constraint", k>>, <<"symbol", m.constraints[k].target>>}
                           \subseteq ElementId
      OBVIOUS
    <2>1. k \in Nat /\ m.constraints[k] \in Constraint
      BY <1>1 DEF ViolatedConstraints, ScannedConstraints
    <2>2. m.constraints[k].target \in Names
      BY <2>1 DEF Constraint
    <2> QED
      BY <2>1, <2>2 DEF ElementId
  <1>5. \A es \in SUBSET ElementId : \A sev \in {"high", "unsat"} :
            [elements |-> es, severity |-> sev] \in Contradiction
    BY DEF Contradiction
  <1>6. \A p \in EqualityConflicts(m) :
            [elements |-> {<<"claim", p[1]>>, <<"claim", p[2]>>}, severity |-> "high"]
               \in Contradiction
    BY <1>2, <1>5
  <1>7. \A p \in BoundConflicts(m) :
            [elements |-> {<<"constraint", p[1]>>, <<"constraint", p[2]>>}, severity |-> "unsat"]
               \in Contradiction
    BY <1>3, <1>5
  <1>8. \A k \in ViolatedConstraints(m) :
            [elements |-> {<<"constraint", k>>, <<"symbol", m.constraints[k].target>>},
             severity |-> "unsat"] \in Contradiction
    BY <1>4, <1>5
  <1>9. DetectedContradictions(m) \subseteq Contradiction
    BY <1>6, <1>7 DEF DetectedContradictions
  <1>10. ConstraintContradictions(m) \subseteq Contradiction
    BY <1>8 DEF ConstraintContradictions
  <1> QED
    BY <1>9, <1>10

LEMMA RunVerifiersInv == Inv /\ RunVerifiers => Inv' /\ Derives
  <1> SUFFICES ASSUME Inv, RunVerifiers PROVE Inv' /\ Derives
    OBVIOUS
  <1> DEFINE K == ConstraintContradictions(mem) \cup DetectedContradictions(mem)
  <1>1. mem \in Memory
    BY DEF Inv, TypeOK
  <1>2. K \in SUBSET Contradiction
    BY <1>1, VerifierRecordType
  <1>3. mem' = Recorded(mem, K)
    <2>1. mem.contradictions \cup ConstraintContradictions(mem) \cup DetectedContradictions(mem)
             = mem.contradictions \cup K
      OBVIOUS
    <2> QED
      BY <2>1 DEF RunVerifiers, VerifiedMemory, Recorded
  <1> HIDE DEF K
  <1>4. /\ mem' \in Memory /\ mem'.claims = mem.claims
        /\ mem'.transitive = mem.transitive /\ mem'.bindings = mem.bindings
        /\ mem.contradictions \subseteq mem'.contradictions
    BY <1>1, <1>2, <1>3, RecordedFields
  <1>5. started /\ UNCHANGED <<given, started>> /\ started' \in BOOLEAN
    BY DEF RunVerifiers, Inv, TypeOK
  <1> QED
    BY ONLY Inv, <1>4, <1>5, StableStep DEF Derives

----------------------------------------------------------------------------
(* The theorems.                                                           *)

LEMMA ReasonInv == Inv /\ Reason => Inv' /\ Derives
  BY TransitiveClosureInv, RewriteSubjectInv, RewriteObjectInv, ApplyImplicationInv,
     BindNumeralInv, DecideConstraintInv, RecordConflictInv, RunVerifiersInv DEF Reason

LEMMA LoadInv == Inv /\ Load => Inv' /\ Grows
  BY LoadSchemaInv, LoadFactInv, LoadConstraintInv, LoadGoalInv DEF Load

LEMMA StutterInv == Inv /\ UNCHANGED vars => Inv' /\ Grows
  <1> SUFFICES ASSUME Inv, UNCHANGED vars PROVE Inv' /\ Grows
    OBVIOUS
  <1>1. mem' = mem /\ given' = given /\ started' = started
    BY DEF vars
  <1>2. mem \in Memory /\ started \in BOOLEAN
    BY DEF Inv, TypeOK
  <1> QED
    BY ONLY Inv, <1>1, <1>2, StableStep

LEMMA NextInv == Inv /\ [Next]_vars => Inv' /\ Grows
  BY LoadInv, StartInv, ReasonInv, StutterInv DEF Next, Derives

LEMMA Invariance == Spec => []Inv
  <1>1. Init => Inv
    BY InitInv
  <1>2. Inv /\ [Next]_vars => Inv'
    BY NextInv
  <1> QED
    BY <1>1, <1>2, PTL DEF Spec

\* Every value the memory takes has the type its dataclasses declare.
THEOREM TypeCorrect == Spec => []TypeOK
  <1>1. Inv => TypeOK
    BY DEF Inv
  <1> QED
    BY <1>1, Invariance, PTL

\* Every derived claim of every memory a search can build carries a real
\* proof: it names the two premises a rule concludes it from, both stored
\* before it, and a claim is stored once.
THEOREM ProofsWellFounded == Spec => []WellFounded
  <1>1. Inv => WellFounded
    BY DEF Inv, WellFounded
  <1> QED
    BY <1>1, Invariance, PTL

\* A symbol is only ever bound to the value of an accepted equality.
THEOREM BindingsAreEqualities == Spec => []BindingsJustified
  <1>1. Inv => BindingsJustified
    BY DEF Inv
  <1> QED
    BY <1>1, Invariance, PTL

\* No operation of the memory rewrites or forgets a claim, or forgets a
\* contradiction.
THEOREM MemoryGrows == Spec => AppendOnly
  <1>1. Inv /\ [Next]_vars =>
          [/\ Len(mem.claims) <= Len(mem'.claims)
           /\ \A i \in DOMAIN mem.claims : mem'.claims[i] = mem.claims[i]
           /\ mem.contradictions \subseteq mem'.contradictions]_vars
    <2> SUFFICES ASSUME Inv, [Next]_vars
                 PROVE  /\ Len(mem.claims) <= Len(mem'.claims)
                        /\ \A i \in DOMAIN mem.claims : mem'.claims[i] = mem.claims[i]
                        /\ mem.contradictions \subseteq mem'.contradictions
      OBVIOUS
    <2>1. Grows
      BY NextInv
    <2>2. mem.claims \in Seq(Claim)
      BY DEF Inv, TypeOK, Memory
    <2>3. Len(mem.claims) \in Nat
      BY <2>2
    <2> QED
      BY <2>1, <2>3 DEF Grows
  <1> QED
    BY <1>1, Invariance, PTL DEF Spec, AppendOnly

----------------------------------------------------------------------------
(* Soundness.                                                              *)

\* The conclusion of a rule over triples of a closed set is in the set
\* (stated of the memory after a step).
LEMMA RuleClosed ==
    ASSUME NEW M, Closed(M, mem'.transitive),
           NEW t, NEW a, NEW b, ByRule(t, a, b)',
           TripleOf(mem'.claims[a]) \in M, TripleOf(mem'.claims[b]) \in M
    PROVE  t \in M
  <1> DEFINE u == TripleOf(mem'.claims[a])
             v == TripleOf(mem'.claims[b])
  <1>1. /\ u[1] = mem'.claims[a].subject /\ u[2] = mem'.claims[a].relation
        /\ u[3] = mem'.claims[a].object
        /\ v[1] = mem'.claims[b].subject /\ v[2] = mem'.claims[b].relation
        /\ v[3] = mem'.claims[b].object
    BY DEF TripleOf
  <1>2. u \in M /\ v \in M
    OBVIOUS
  <1> HIDE DEF u, v
  <1>3. /\ u[2] \in mem'.transitive /\ v[2] = u[2] /\ u[3] = v[1] => <<u[1], u[2], v[3]>> \in M
        /\ u[2] = "equals" /\ v[2] # "equals" =>
              /\ v[1] = u[3] => <<u[1], v[2], v[3]>> \in M
              /\ v[3] = u[1] => <<v[1], v[2], u[3]>> \in M
        /\ u[2] = "is_true" /\ v[2] = "implies" /\ u[1] = v[1] => <<v[3], "is_true", "true">> \in M
    BY <1>2 DEF Closed
  <1>4. v[2] = "equals" /\ u[2] # "equals" =>
              /\ u[1] = v[3] => <<v[1], u[2], u[3]>> \in M
              /\ u[3] = v[1] => <<u[1], u[2], v[3]>> \in M
    BY <1>2 DEF Closed
  <1>5. ByTransitivity(t, a, b)' => t \in M
    BY ONLY <1>1, <1>3 DEF ByTransitivity, TransitiveTriple
  <1>6. ByRewrite(t, a, b)' => t \in M
    BY ONLY <1>1, <1>3 DEF ByRewrite, SubjectTriple, ObjectTriple
  <1>7. ByRewrite(t, b, a)' => t \in M
    BY ONLY <1>1, <1>4 DEF ByRewrite, SubjectTriple, ObjectTriple
  <1>8. ByImplication(t, a, b)' => t \in M
    BY ONLY <1>1, <1>3 DEF ByImplication, ImplicationTriple
  <1> QED
    BY <1>5, <1>6, <1>7, <1>8 DEF ByRule

\* Before anything is derived the memory holds the facts of the case only.
LEMMA SoundWhileLoading == Inv /\ ~started => Sound
  <1> SUFFICES ASSUME Inv, ~started PROVE Triples(mem) = GivenTriples
    BY DEF Sound, IsModel
  <1>1. mem.claims \in Seq(Claim) /\ given = Len(mem.claims)
    BY DEF Inv, TypeOK, Memory, NothingDerived
  <1>2. DOMAIN mem.claims = 1..given
    BY <1>1
  <1> QED
    BY <1>2 DEF Triples, GivenTriples

\* A step of reasoning adds at most one triple, and that one is a conclusion.
LEMMA SoundDerives ==
    ASSUME Inv, Inv', Sound, Derives
    PROVE  Sound'
  <1> DEFINE n == Len(mem.claims)
  <1>1. mem.claims \in Seq(Claim) /\ mem'.claims \in Seq(Claim)
    BY DEF Inv, TypeOK, Memory
  <1>2. /\ n \in Nat /\ DOMAIN mem.claims = 1..n /\ Len(mem'.claims) \in {n, n + 1}
        /\ DOMAIN mem'.claims = 1..Len(mem'.claims)
    BY <1>1 DEF Derives, Grows
  <1>3. given \in 0..n /\ given' = given
    BY DEF Inv, TypeOK, Derives
  <1> HIDE DEF n
  <1>4. \A i \in 1..n : mem'.claims[i] = mem.claims[i]
    BY <1>2 DEF Derives, Grows
  <1> SUFFICES ASSUME NEW M \in Interpretations, IsModel(M)', NEW i \in DOMAIN mem'.claims
               PROVE  TripleOf(mem'.claims[i]) \in M
    BY DEF Sound, Triples
  <1>5. GivenTriples' = GivenTriples
    <2>1. \A j \in 1..given : mem'.claims[j] = mem.claims[j]
      BY <1>2, <1>3, <1>4
    <2> QED
      BY <1>3, <2>1 DEF GivenTriples
  <1>6. IsModel(M)
    BY <1>5 DEF IsModel, Derives
  <1>7. \A j \in 1..n : TripleOf(mem'.claims[j]) \in M
    <2>1. Triples(mem) \subseteq M
      BY <1>6 DEF Sound
    <2>2. \A j \in 1..n : TripleOf(mem.claims[j]) \in M
      BY <1>2, <2>1 DEF Triples
    <2> QED
      BY <1>4, <2>2
  <1>8. CASE i \in 1..n
    BY <1>7, <1>8
  <1>9. CASE i = n + 1 /\ Len(mem'.claims) = n + 1
    <2> DEFINE a == mem'.claims[i].deps[1]
               b == mem'.claims[i].deps[2]
    <2>1. i \in Derived'
      BY <1>2, <1>3, <1>9 DEF Derived
    <2>2. Len(mem'.claims[i].deps) = 2 /\ ByRule(TripleOf(mem.claims[i]), mem.claims[i].deps[1],
                                                mem.claims[i].deps[2])'
      BY <2>1 DEF Inv, Justified
    <2>3. mem'.claims[i].deps \in Seq(Nat)
      <3>1. mem'.claims[i] \in Claim
        BY <1>1
      <3> QED
        BY <3>1 DEF Claim
    <2>4. a \in 1..n /\ b \in 1..n
      <3>1. a \in DepsOf(i)' /\ b \in DepsOf(i)'
        BY <2>2, <2>3 DEF DepsOf
      <3>2. \A d \in DepsOf(i)' : d \in 1..(i - 1)
        BY DEF Inv, DependenciesEarlier
      <3> QED
        BY <1>2, <1>9, <3>1, <3>2
    <2>5. TripleOf(mem'.claims[a]) \in M /\ TripleOf(mem'.claims[b]) \in M
      BY <1>7, <2>4
    <2>6. Closed(M, mem'.transitive)
      BY DEF IsModel
    <2> QED
      BY <2>2, <2>5, <2>6, RuleClosed
  <1> QED
    BY <1>2, <1>8, <1>9

LEMMA SoundSame ==
    ASSUME Sound, mem'.claims = mem.claims, mem'.transitive = mem.transitive, given' = given
    PROVE  Sound'
  <1>1. GivenTriples' = GivenTriples /\ Triples(mem)' = Triples(mem)
    BY DEF GivenTriples, Triples
  <1>2. \A M : IsModel(M)' <=> IsModel(M)
    BY <1>1 DEF IsModel
  <1> QED
    BY <1>1, <1>2 DEF Sound

\* Soundness: whatever the rules, the verifiers and the bindings do, and in
\* whatever order, the memory holds only what every model of the case holds.
THEOREM Soundness == Spec => []Sound
  <1>1. Init => Sound
    BY InitInv, SoundWhileLoading DEF Init
  <1>2. Inv /\ Inv' /\ Sound /\ [Next]_vars => Sound'
    <2> SUFFICES ASSUME Inv, Inv', Sound, [Next]_vars PROVE Sound'
      OBVIOUS
    <2>1. CASE Load
      <3>1. ~started'
        BY <2>1 DEF Load, LoadSchema, LoadFact, LoadConstraint, LoadGoal
      <3>2. (Inv /\ ~started => Sound)'
        BY SoundWhileLoading, PTL
      <3> QED
        BY <3>1, <3>2
    <2>2. CASE Start
      BY <2>2, SoundSame DEF Start
    <2>3. CASE Reason
      BY <2>3, ReasonInv, SoundDerives
    <2>4. CASE UNCHANGED vars
      BY <2>4, SoundSame DEF vars
    <2> QED
      BY <2>1, <2>2, <2>3, <2>4 DEF Next
  <1> QED
    BY <1>1, <1>2, Invariance, PTL DEF Spec

----------------------------------------------------------------------------
(* The answer.                                                             *)

\* The verifiers touch nothing but the contradictions.
LEMMA VerifiedFields ==
    ASSUME NEW m \in Memory, NEW v, v = VerifiedMemory(m)
    PROVE  /\ v.claims = m.claims /\ v.constraints = m.constraints
           /\ v.bindings = m.bindings /\ v.goals = m.goals
           /\ m.contradictions \subseteq v.contradictions
  BY DEF VerifiedMemory, Memory

\* What the evaluator asks of a memory before it says VERIFIED.
LEMMA EvaluationVerified ==
    ASSUME NEW v, NEW score, Evaluation(v, score) = "VERIFIED"
    PROVE  /\ v.contradictions = {}
           /\ IF IsConstraintGoal(v.goals[1])
              THEN IsBound(v, v.goals[1].subject)
              ELSE \E i \in DOMAIN v.claims :
                      /\ TripleOf(v.claims[i])
                           = <<v.goals[1].subject, v.goals[1].relation, v.goals[1].object>>
                      /\ AcceptedClaim(v, i)
  <1> DEFINE g == v.goals[1]
  <1>1. v.goals # << >>
    BY DEF Evaluation, ConflictStatus
  <1>2. CASE IsConstraintGoal(g)
    <2>1. ConstraintGoalStatus(v, g, score) = "VERIFIED"
      BY <1>1, <1>2 DEF Evaluation
    <2> QED
      BY <1>2, <2>1 DEF ConstraintGoalStatus, ConflictStatus
  <1>3. CASE ~IsConstraintGoal(g)
    <2> DEFINE i == ClaimIdOf(v, g.subject, g.relation, g.object)
    <2>1. Holds(v, g.subject, g.relation, g.object)
      BY <1>1, <1>3 DEF Evaluation, ConflictStatus
    <2>2. ClaimGoalStatus(v, i, score) = "VERIFIED"
      BY <1>1, <1>3, <2>1 DEF Evaluation
    <2>3. i \in DOMAIN v.claims /\ TripleOf(v.claims[i]) = <<g.subject, g.relation, g.object>>
      BY <2>1 DEF Holds, Triples, ClaimIdOf
    <2> HIDE DEF i
    <2>4. v.contradictions = {} /\ AcceptedClaim(v, i)
      BY <2>2 DEF ClaimGoalStatus, ConflictStatus
    <2> QED
      BY <1>3, <2>3, <2>4
  <1> QED
    BY <1>2, <1>3

\* When the constraint verifier passes, every numeric constraint of a bound
\* symbol is satisfied.
LEMMA ConstraintsHold ==
    ASSUME NEW m, ConstraintsVerified(m), NEW k \in DOMAIN m.constraints,
           IsBound(m, m.constraints[k].target), m.constraints[k].kind = "numeric"
    PROVE  SatisfiedConstraint(m, k)
  <1>1. k \in ScannedConstraints(m) /\ k \notin ViolatedConstraints(m)
    BY DEF ConstraintsVerified
  <1>2. Applicable(m, m.constraints[k])
    BY DEF Applicable
  <1> QED
    BY <1>1, <1>2 DEF ViolatedConstraints, SatisfiedConstraint

\* VERIFIED on a memory the stack passed means what it says: no contradiction,
\* and a goal entailed by the case or a bound symbol within its constraints.
THEOREM VerifiedAnswers == Spec => []VerifiedIsSupported
  <1>1. Inv /\ Sound => VerifiedIsSupported
    <2> DEFINE v == VerifiedMemory(mem)
               g == mem.goals[1]
    <2> SUFFICES ASSUME Inv, Sound, StackPassed(mem), Judgement(mem) = "VERIFIED"
                 PROVE  /\ mem.contradictions = {}
                        /\ IF IsConstraintGoal(g)
                           THEN /\ IsBound(mem, g.subject)
                                /\ \A k \in ConstraintsOn(mem, g.subject) :
                                      mem.constraints[k].kind = "numeric" =>
                                         SatisfiedConstraint(mem, k)
                           ELSE /\ \E i \in DOMAIN mem.claims :
                                      /\ TripleOf(mem.claims[i])
                                           = <<g.subject, g.relation, g.object>>
                                      /\ AcceptedClaim(mem, i)
                                /\ \A M \in Interpretations :
                                      IsModel(M) => <<g.subject, g.relation, g.object>> \in M
      BY DEF VerifiedIsSupported
    <2>1. mem \in Memory
      BY DEF Inv, TypeOK
    <2>2. /\ v.claims = mem.claims /\ v.bindings = mem.bindings /\ v.goals = mem.goals
          /\ mem.contradictions \subseteq v.contradictions
      BY <2>1, VerifiedFields
    <2>3. Evaluation(v, StackScore(mem)) = "VERIFIED"
      BY DEF Judgement
    <2> HIDE DEF v
    <2>4. /\ v.contradictions = {}
          /\ IF IsConstraintGoal(v.goals[1])
             THEN IsBound(v, v.goals[1].subject)
             ELSE \E i \in DOMAIN v.claims :
                     /\ TripleOf(v.claims[i])
                          = <<v.goals[1].subject, v.goals[1].relation, v.goals[1].object>>
                     /\ AcceptedClaim(v, i)
      BY <2>3, EvaluationVerified
    <2>5. mem.contradictions = {}
      BY <2>2, <2>4
    <2>6. CASE IsConstraintGoal(g)
      <3>1. IsBound(mem, g.subject)
        BY <2>2, <2>4, <2>6 DEF IsBound
      <3>2. \A k \in ConstraintsOn(mem, g.subject) :
               mem.constraints[k].kind = "numeric" => SatisfiedConstraint(mem, k)
        BY <3>1, ConstraintsHold DEF StackPassed, ConstraintsOn
      <3> QED
        BY <2>5, <2>6, <3>1, <3>2
    <2>7. CASE ~IsConstraintGoal(g)
      <3>1. PICK i \in DOMAIN mem.claims :
               /\ TripleOf(mem.claims[i]) = <<g.subject, g.relation, g.object>>
               /\ AcceptedClaim(mem, i)
        BY <2>2, <2>4, <2>7 DEF AcceptedClaim
      <3>2. <<g.subject, g.relation, g.object>> \in Triples(mem)
        BY <3>1 DEF Triples
      <3> QED
        BY <2>5, <2>7, <3>1, <3>2 DEF Sound
    <2> QED
      BY <2>6, <2>7
  <1> QED
    BY <1>1, Invariance, Soundness, PTL

----------------------------------------------------------------------------
(* Contradictions.                                                         *)

\* Whatever its goals, a memory with a contradiction on record is judged
\* contradictory or unsatisfiable.
LEMMA ContradictionDecides ==
    ASSUME NEW v, NEW score, v.contradictions # {}
    PROVE  Evaluation(v, score) \in {"CONTRADICTORY", "UNSATISFIABLE"}
  <1> DEFINE g == v.goals[1]
             i == ClaimIdOf(v, g.subject, g.relation, g.object)
  <1>1. ConflictStatus(v) \in {"CONTRADICTORY", "UNSATISFIABLE"}
    BY DEF ConflictStatus
  <1>2. ConstraintGoalStatus(v, g, score) \in {"CONTRADICTORY", "UNSATISFIABLE"}
    BY <1>1 DEF ConstraintGoalStatus
  <1>3. ClaimGoalStatus(v, i, score) \in {"CONTRADICTORY", "UNSATISFIABLE"}
    <2> HIDE DEF i
    <2>1. CASE HasContradictionOnPath(v, DependencyPath(v, i))
      BY <2>1 DEF ClaimGoalStatus
    <2>2. CASE ~HasContradictionOnPath(v, DependencyPath(v, i))
      BY <1>1, <2>2 DEF ClaimGoalStatus
    <2> QED
      BY <2>1, <2>2
  <1> QED
    BY <1>1, <1>2, <1>3 DEF Evaluation

\* Cutting a node with a recorded contradiction loses no answer.
THEOREM ConflictFinal == Spec => ConflictIsFinal
  <1>1. Inv /\ [Next]_vars /\ Inv' =>
            [started /\ mem.contradictions # {} => Conflicted(mem')]_vars
    <2> SUFFICES ASSUME Inv, [Next]_vars, Inv', mem.contradictions # {}
                 PROVE  Conflicted(mem')
      OBVIOUS
    <2>1. mem.contradictions \subseteq mem'.contradictions
      BY NextInv DEF Grows
    <2>2. mem' \in Memory
      BY DEF Inv, TypeOK
    <2>3. VerifiedMemory(mem').contradictions # {}
      BY <2>1, <2>2, VerifiedFields
    <2> QED
      BY <2>3, ContradictionDecides DEF Conflicted, Judgement
  <1> QED
    BY <1>1, Invariance, PTL DEF Spec, ConflictIsFinal
----------------------------------------------------------------------------
(* No false alarm.                                                         *)

\* What a step of reasoning leaves as it was, and what it may put on record.
Conserves ==
    /\ mem'.schemas = mem.schemas /\ mem'.constraints = mem.constraints
    /\ \A n \in Names : IsBound(mem, n) => mem'.bindings[n] = mem.bindings[n]
    /\ mem'.contradictions \subseteq mem.contradictions \cup StandingContradictions
    /\ \A i \in DOMAIN mem'.claims :
          i \in DOMAIN mem.claims \/ KnownRelation(mem, mem'.claims[i].relation)

\* Of a derived claim the verifier also asks the relation's schema; and a
\* contradiction is recorded only once reasoning has begun.
AlarmInv ==
    /\ started => \A i \in Derived : KnownRelation(mem, mem.claims[i].relation)
    /\ ~started => mem.contradictions = {}
    /\ ContradictionsReal

LEMMA AppendLast ==
    ASSUME NEW S, NEW q \in Seq(S), NEW c, NEW i \in DOMAIN Append(q, c)
    PROVE  i \in DOMAIN q \/ Append(q, c)[i] = c
  OBVIOUS

\* A proposed claim is stored only if its relation has a schema.
LEMMA SupportConserves ==
    ASSUME Inv, NEW t, NEW d, Apply(Supporting(t, d))
    PROVE  Conserves
  <1> DEFINE x == Supporting(t, d)
             c == [subject |-> t[1], relation |-> t[2], object |-> t[3],
                   status |-> "SUPPORTED", deps |-> d]
  <1>1. mem \in Memory /\ mem.claims \in Seq(Claim)
    BY DEF Inv, TypeOK, Memory
  <1>2. x.type = "AddClaim" /\ x.triple = t /\ x.deps = d
    BY DEF Supporting
  <1>3. mem' = Applied(mem, x)
    BY DEF Apply
  <1> HIDE DEF x
  <1>4. CASE mem' = mem
    BY <1>4 DEF Conserves
  <1>5. CASE mem' # mem
    <2>1. Valid(mem, x) /\ mem' = AddClaim(mem, t[1], t[2], t[3], "SUPPORTED", d)
      BY <1>2, <1>3, <1>5 DEF Applied
    <2>2. mem' = [mem EXCEPT !.claims = Append(mem.claims, c)]
      BY <1>5, <2>1 DEF AddClaim
    <2>3. KnownRelation(mem, c.relation)
      BY <1>2, <2>1 DEF Valid
    <2> HIDE DEF c
    <2>4. /\ mem'.claims = Append(mem.claims, c) /\ mem'.schemas = mem.schemas
          /\ mem'.constraints = mem.constraints /\ mem'.bindings = mem.bindings
          /\ mem'.contradictions = mem.contradictions
      BY <1>1, <2>2 DEF Memory
    <2>5. \A i \in DOMAIN mem'.claims : i \in DOMAIN mem.claims \/ mem'.claims[i] = c
      BY <1>1, <2>4, AppendLast
    <2> QED
      BY <2>3, <2>4, <2>5 DEF Conserves
  <1> QED
    BY <1>4, <1>5

\* What only records contradictions that stand conserves the rest.
LEMMA RecordingConserves ==
    ASSUME Inv, NEW K, K \subseteq StandingContradictions,
           mem' = [mem EXCEPT !.contradictions = mem.contradictions \cup K]
    PROVE  Conserves
  <1>1. mem \in Memory
    BY DEF Inv, TypeOK
  <1>2. /\ mem'.claims = mem.claims /\ mem'.schemas = mem.schemas
        /\ mem'.constraints = mem.constraints /\ mem'.bindings = mem.bindings
        /\ mem'.contradictions = mem.contradictions \cup K
    BY <1>1 DEF Memory
  <1> QED
    BY <1>2 DEF Conserves

LEMMA BindConserves == Inv /\ BindNumeral => Conserves
  <1> SUFFICES ASSUME Inv, NEW i \in BindableClaims(mem), Apply(BindStep(mem, i))
               PROVE  Conserves
    BY DEF BindNumeral
  <1> DEFINE s == mem.claims[i].subject
             v == NumeralValue[mem.claims[i].object]
  <1>1. i \in DOMAIN mem.claims /\ mem.claims[i].object \in Numerals /\ ~IsBound(mem, s)
    BY DEF BindableClaims
  <1>2. mem \in Memory /\ s \in Names /\ v \in Int
    BY <1>1, ClaimParts, NamesAssumption DEF Inv, TypeOK
  <1>3. mem' = BindSymbol(mem, s, v)
    BY AppliedBinding DEF Apply, BindStep
  <1> HIDE DEF s, v
  <1>4. /\ mem'.claims = mem.claims /\ mem'.constraints = mem.constraints
        /\ mem'.contradictions = mem.contradictions
        /\ \A y \in Names \ {s} : mem'.bindings[y] = mem.bindings[y]
    BY <1>2, <1>3, BindType
  <1>5. mem'.schemas = mem.schemas
    BY <1>2, <1>3 DEF BindSymbol, Memory
  <1> QED
    BY <1>1, <1>4, <1>5 DEF Conserves

LEMMA DecideConserves == Inv /\ DecideConstraint => Conserves
  <1> SUFFICES ASSUME Inv, NEW k \in DecidedConstraints(mem), Apply(ConstraintStep(mem, k))
               PROVE  Conserves
    BY DEF DecideConstraint
  <1>1. mem \in Memory
    BY DEF Inv, TypeOK
  <1>2. CASE SatisfiedConstraint(mem, k)
    <2>1. mem' = AddEvidence(mem, <<"constraint", k>>)
      BY <1>2, AppliedEvidence DEF Apply, ConstraintStep
    <2>2. /\ mem'.claims = mem.claims /\ mem'.schemas = mem.schemas
          /\ mem'.constraints = mem.constraints /\ mem'.bindings = mem.bindings
          /\ mem'.contradictions = mem.contradictions
      BY <1>1, <2>1 DEF AddEvidence, Memory
    <2> QED
      BY <2>2 DEF Conserves
  <1>3. CASE ~SatisfiedConstraint(mem, k)
    <2> DEFINE r == [elements |-> {<<"constraint", k>>, <<"symbol", mem.constraints[k].target>>},
                     severity |-> "unsat"]
    <2>0. mem' = RecordContradiction(mem, r.elements, r.severity)
      BY <1>3, AppliedConflict DEF Apply, ConstraintStep
    <2>1. mem' = [mem EXCEPT !.contradictions = mem.contradictions \cup {r}]
      BY <2>0 DEF RecordContradiction
    <2>2. {r} \subseteq StandingContradictions
      BY <1>3 DEF StandingContradictions
    <2> HIDE DEF r
    <2> QED
      BY <2>1, <2>2, RecordingConserves
  <1> QED
    BY <1>2, <1>3

LEMMA ConflictConserves == Inv /\ RecordConflict => Conserves
  <1> SUFFICES ASSUME Inv, NEW p \in ConflictPairs(mem), Apply(ConflictStep(p))
               PROVE  Conserves
    BY DEF RecordConflict
  <1> DEFINE r == [elements |-> {<<"claim", p[1]>>, <<"claim", p[2]>>}, severity |-> "high"]
  <1>0. mem' = RecordContradiction(mem, r.elements, r.severity)
    BY AppliedConflict DEF Apply, ConflictStep
  <1>1. mem' = [mem EXCEPT !.contradictions = mem.contradictions \cup {r}]
    BY <1>0 DEF RecordContradiction
  <1>2. {r} \subseteq StandingContradictions
    BY DEF StandingContradictions, DetectedContradictions, ConflictPairs
  <1> HIDE DEF r
  <1> QED
    BY <1>1, <1>2, RecordingConserves

LEMMA VerifiersConserve == Inv /\ RunVerifiers => Conserves
  <1> SUFFICES ASSUME Inv, RunVerifiers PROVE Conserves
    OBVIOUS
  <1> DEFINE K == ConstraintContradictions(mem) \cup DetectedContradictions(mem)
  <1>1. mem' = [mem EXCEPT !.contradictions = mem.contradictions \cup K]
    <2>1. mem.contradictions \cup ConstraintContradictions(mem) \cup DetectedContradictions(mem)
             = mem.contradictions \cup K
      OBVIOUS
    <2> QED
      BY <2>1 DEF RunVerifiers, VerifiedMemory
  <1>2. ViolatedConstraints(mem) \subseteq {j \in DecidedConstraints(mem) : ~SatisfiedConstraint(mem, j)}
    <2> SUFFICES ASSUME NEW k \in ViolatedConstraints(mem)
                 PROVE  k \in DecidedConstraints(mem) /\ ~SatisfiedConstraint(mem, k)
      OBVIOUS
    <2>1. k \in DOMAIN mem.constraints /\ k \in 1..k
      <3>1. mem.constraints \in Seq(Constraint)
        BY DEF Inv, TypeOK, Memory
      <3>2. k \in DOMAIN mem.constraints
        BY DEF ViolatedConstraints, ScannedConstraints
      <3> QED
        BY <3>1, <3>2
    <2> QED
      BY <2>1 DEF ViolatedConstraints, ScannedConstraints, DecidedConstraints, SatisfiedConstraint
  <1>3. K \subseteq StandingContradictions
    BY <1>2 DEF ConstraintContradictions, StandingContradictions
  <1> HIDE DEF K
  <1> QED
    BY <1>1, <1>3, RecordingConserves

LEMMA ReasonConserves == Inv /\ Reason => Conserves
  <1> SUFFICES ASSUME Inv, Reason PROVE Conserves
    OBVIOUS
  <1>1. CASE TransitiveClosure
    BY <1>1, SupportConserves DEF TransitiveClosure, TransitiveStep
  <1>2. CASE RewriteSubject
    BY <1>2, SupportConserves DEF RewriteSubject, SubjectStep
  <1>3. CASE RewriteObject
    BY <1>3, SupportConserves DEF RewriteObject, ObjectStep
  <1>4. CASE ApplyImplication
    BY <1>4, SupportConserves DEF ApplyImplication, ImplicationStep
  <1> QED
    BY <1>1, <1>2, <1>3, <1>4, BindConserves, DecideConserves, ConflictConserves,
       VerifiersConserve DEF Reason

\* What is a conflict remains one: claims, bindings and constraints stay.
LEMMA StandingStable ==
    ASSUME Inv, Inv', Derives, Conserves
    PROVE  StandingContradictions \subseteq StandingContradictions'
  <1>1. /\ mem.claims \in Seq(Claim) /\ mem'.claims \in Seq(Claim)
        /\ mem.constraints \in Seq(Constraint)
    BY DEF Inv, TypeOK, Memory
  <1>2. /\ \A i \in DOMAIN mem.claims : i \in DOMAIN mem'.claims /\ mem'.claims[i] = mem.claims[i]
        /\ mem'.constraints = mem.constraints
    <2>1. DOMAIN mem.claims = 1..Len(mem.claims) /\ Len(mem.claims) \in Nat
      BY <1>1
    <2>2. DOMAIN mem'.claims = 1..Len(mem'.claims) /\ Len(mem'.claims) \in Nat
      BY <1>1
    <2> QED
      BY <2>1, <2>2 DEF Derives, Grows, Conserves
  <1>3. EqualityConflicts(mem) \subseteq EqualityConflicts(mem')
    BY <1>2 DEF EqualityConflicts, AcceptedClaim
  <1>4. BoundConflicts(mem') = BoundConflicts(mem)
    BY <1>2 DEF BoundConflicts
  <1>5. \A k \in DecidedConstraints(mem) :
          ~SatisfiedConstraint(mem, k) => /\ k \in DecidedConstraints(mem')
                                          /\ ~SatisfiedConstraint(mem', k)
    <2> SUFFICES ASSUME NEW k \in DecidedConstraints(mem), ~SatisfiedConstraint(mem, k)
                 PROVE  k \in DecidedConstraints(mem') /\ ~SatisfiedConstraint(mem', k)
      OBVIOUS
    <2>1. k \in DOMAIN mem.constraints /\ IsBound(mem, mem.constraints[k].target)
      BY DEF DecidedConstraints, Applicable
    <2>2. mem.constraints[k] \in Constraint
      BY <1>1, <2>1
    <2>a. mem.constraints[k].target \in Names
      BY <2>2 DEF Constraint
    <2>3. mem'.bindings[mem.constraints[k].target] = mem.bindings[mem.constraints[k].target]
      BY <2>1, <2>a DEF Conserves
    <2> QED
      BY <1>2, <2>3 DEF DecidedConstraints, Applicable, IsBound, SatisfiedConstraint
  <1>6. DetectedContradictions(mem) \subseteq DetectedContradictions(mem')
    BY <1>3, <1>4 DEF DetectedContradictions
  <1> QED
    BY <1>2, <1>5, <1>6 DEF StandingContradictions

LEMMA AlarmReason == Inv /\ Inv' /\ AlarmInv /\ Reason => AlarmInv'
  <1> SUFFICES ASSUME Inv, Inv', AlarmInv, Reason PROVE AlarmInv'
    OBVIOUS
  <1>1. Derives /\ Conserves
    BY ReasonInv, ReasonConserves
  <1>2. StandingContradictions \subseteq StandingContradictions'
    BY <1>1, StandingStable
  <1>3. ContradictionsReal'
    BY <1>1, <1>2 DEF AlarmInv, ContradictionsReal, Conserves
  <1>4. started' /\ started /\ given' = given
    BY <1>1 DEF Derives
  <1>5. mem.claims \in Seq(Claim) /\ mem'.claims \in Seq(Claim) /\ given \in Nat
    BY DEF Inv, TypeOK, Memory
  <1>6. \A i \in Derived' : KnownRelation(mem', mem'.claims[i].relation)
    <2> SUFFICES ASSUME NEW i \in (given + 1)..Len(mem'.claims)
                 PROVE  KnownRelation(mem, mem'.claims[i].relation)
      BY <1>1, <1>4 DEF Derived, Conserves, KnownRelation
    <2>1. i \in DOMAIN mem'.claims
      BY <1>5
    <2>2. CASE i \in DOMAIN mem.claims
      <3>1. i \in Derived /\ mem'.claims[i] = mem.claims[i]
        BY <1>1, <1>5, <2>2 DEF Derived, Derives, Grows
      <3> QED
        BY <1>4, <3>1 DEF AlarmInv
    <2>3. CASE i \notin DOMAIN mem.claims
      BY <1>1, <2>1, <2>3 DEF Conserves
    <2> QED
      BY <2>2, <2>3
  <1> QED
    BY <1>3, <1>4, <1>6 DEF AlarmInv

\* Loading records nothing.
LEMMA LoadRecordsNothing == Inv /\ Load => mem'.contradictions = mem.contradictions
  <1> SUFFICES ASSUME Inv, Load PROVE mem'.contradictions = mem.contradictions
    OBVIOUS
  <1>1. mem \in Memory
    BY DEF Inv, TypeOK
  <1>2. ASSUME NEW r \in BundleRelations, LoadSchema(r)
        PROVE  mem'.contradictions = mem.contradictions
    BY <1>1, <1>2 DEF LoadSchema, AddSchema, Memory
  <1>3. ASSUME NEW f \in Facts, LoadFact(f)
        PROVE  mem'.contradictions = mem.contradictions
    <2> DEFINE w == WithSchema(mem, f.relation)
    <2>1. f.relation \in Relations
      BY CaseAssumption
    <2>2. w \in Memory /\ w.contradictions = mem.contradictions
      BY <1>1, <2>1, WithSchemaType
    <2>3. mem' = AddClaim(w, f.subject, f.relation, f.object, f.status, << >>)
      BY <1>3 DEF LoadFact
    <2> HIDE DEF w
    <2> QED
      BY <2>2, <2>3 DEF AddClaim, Memory
  <1>4. ASSUME NEW c \in CaseConstraints, LoadConstraint(c)
        PROVE  mem'.contradictions = mem.contradictions
    BY <1>1, <1>4 DEF LoadConstraint, AddConstraint, Memory
  <1>5. ASSUME NEW g \in CaseGoals, LoadGoal(g)
        PROVE  mem'.contradictions = mem.contradictions
    BY <1>1, <1>5 DEF LoadGoal, AddGoal, Memory
  <1> QED
    BY <1>2, <1>3, <1>4, <1>5 DEF Load

LEMMA AlarmInvariance == Spec => []AlarmInv
  <1>1. Init => AlarmInv
    BY DEF Init, AlarmInv, ContradictionsReal, AddSchema, EmptyMemory
  <1>2. Inv /\ Inv' /\ AlarmInv /\ [Next]_vars => AlarmInv'
    <2> SUFFICES ASSUME Inv, Inv', AlarmInv, [Next]_vars PROVE AlarmInv'
      OBVIOUS
    <2>1. CASE Load
      <3>1. ~started /\ started' = started
        <4>1. \A r \in BundleRelations : LoadSchema(r) => ~started /\ started' = started
          BY DEF LoadSchema
        <4>2. \A f \in Facts : LoadFact(f) => ~started /\ started' = started
          BY DEF LoadFact
        <4>3. \A c \in CaseConstraints : LoadConstraint(c) => ~started /\ started' = started
          BY DEF LoadConstraint
        <4>4. \A g \in CaseGoals : LoadGoal(g) => ~started /\ started' = started
          BY DEF LoadGoal
        <4> QED
          BY <2>1, <4>1, <4>2, <4>3, <4>4 DEF Load
      <3>2. mem'.contradictions = {}
        BY <2>1, <3>1, LoadRecordsNothing DEF AlarmInv
      <3> QED
        BY <3>1, <3>2 DEF AlarmInv, ContradictionsReal
    <2>2. CASE Start
      <3>1. ~started /\ mem' = mem /\ given' = given
        BY <2>2 DEF Start
      <3>2. mem.contradictions = {} /\ given = Len(mem.claims)
        BY <3>1 DEF AlarmInv, Inv, NothingDerived
      <3>3. Len(mem.claims) \in Nat
        <4>1. mem.claims \in Seq(Claim)
          BY DEF Inv, TypeOK, Memory
        <4> QED
          BY <4>1
      <3>4. Derived' = {}
        BY <3>1, <3>2, <3>3 DEF Derived
      <3> QED
        BY <3>1, <3>2, <3>4 DEF AlarmInv, ContradictionsReal
    <2>3. CASE Reason
      BY <2>3, AlarmReason
    <2>4. CASE UNCHANGED vars
      <3>1. mem' = mem /\ given' = given /\ started' = started
        BY <2>4 DEF vars
      <3>2. StandingContradictions' = StandingContradictions /\ Derived' = Derived
        BY <3>1 DEF StandingContradictions, Derived
      <3> QED
        BY <3>1, <3>2 DEF AlarmInv, ContradictionsReal
    <2> QED
      BY <2>1, <2>2, <2>3, <2>4 DEF Next
  <1> QED
    BY <1>1, <1>2, Invariance, PTL DEF Spec

\* A derived claim that the verifier refuses was rewritten by an equality.
LEMMA RefusalExplained == Inv /\ AlarmInv => RefusedOnlyIfRewritten
  <1> SUFFICES ASSUME Inv, AlarmInv, NEW i \in Derived, ~ClaimVerified(mem, mem.claims[i])
               PROVE  /\ mem.claims[i].relation \in mem.transitive
                      /\ \E d \in DepsOf(i) : mem.claims[d].relation # mem.claims[i].relation
    BY DEF RefusedOnlyIfRewritten
  <1> DEFINE c == mem.claims[i]
             l == c.deps[1]
             r == c.deps[2]
  <1>1. mem.claims \in Seq(Claim) /\ given \in Nat /\ given <= Len(mem.claims)
    BY DEF Inv, TypeOK, Memory
  <1>2. i \in DOMAIN mem.claims /\ ~(i <= given) /\ started
    BY <1>1 DEF Derived, Inv, NothingDerived
  <1>a. c \in Claim
    BY <1>1, <1>2
  <1>3. c.deps \in Seq(Nat)
    BY <1>a DEF Claim
  <1>4. c.status = "SUPPORTED" /\ Len(c.deps) = 2 /\ ByRule(TripleOf(c), l, r)
    BY DEF Inv, Justified
  <1>5. /\ c.deps # << >> /\ DOMAIN c.deps = 1..2
        /\ DepsOf(i) = {l, r} /\ l \in DOMAIN mem.claims /\ r \in DOMAIN mem.claims
    <2>1. DOMAIN c.deps = 1..2 /\ c.deps # << >>
      BY <1>3, <1>4
    <2>2. DepsOf(i) = {l, r}
      BY <2>1 DEF DepsOf
    <2>3. \A d \in DepsOf(i) : d \in 1..(i - 1)
      BY <1>2 DEF Inv, DependenciesEarlier
    <2>4. \A d \in DepsOf(i) : d \in DOMAIN mem.claims
      BY <1>1, <1>2, <2>3
    <2> QED
      BY <2>1, <2>2, <2>4
  <1>6. KnownRelation(mem, c.relation)
    BY <1>2 DEF AlarmInv
  <1>7. ~DependencySupport(mem, c)
    BY <1>5, <1>6 DEF ClaimVerified
  <1>8. c.relation \in mem.transitive /\ ~Chains(mem, c)
    <2>1. \A k \in DOMAIN c.deps : Exists(mem, c.deps[k])
      BY <1>5 DEF Exists
    <2> QED
      BY <1>4, <1>7, <2>1 DEF DependencySupport
  <1> HIDE DEF c, l, r
  <1>9. mem.claims[l].relation # c.relation \/ mem.claims[r].relation # c.relation
    <2>1. CASE ByTransitivity(TripleOf(c), l, r)
      <3>1. /\ c.subject = mem.claims[l].subject /\ c.relation = mem.claims[l].relation
            /\ c.object = mem.claims[r].object
            /\ mem.claims[r].relation = mem.claims[l].relation
            /\ mem.claims[l].object = mem.claims[r].subject
        BY <2>1 DEF ByTransitivity, TransitiveTriple, TripleOf
      <3>2. Chains(mem, c)
        BY <1>5, <3>1 DEF Chains, Exists, l, r
      <3> QED
        BY <1>8, <3>2
    <2>2. CASE ByRewrite(TripleOf(c), l, r)
      BY <2>2 DEF ByRewrite, SubjectTriple, ObjectTriple, TripleOf
    <2>3. CASE ByRewrite(TripleOf(c), r, l)
      BY <2>3 DEF ByRewrite, SubjectTriple, ObjectTriple, TripleOf
    <2>4. CASE ByImplication(TripleOf(c), l, r)
      BY <2>4 DEF ByImplication, ImplicationTriple, TripleOf
    <2> QED
      BY <1>4, <2>1, <2>2, <2>3, <2>4 DEF ByRule
  <1> QED
    BY <1>5, <1>8, <1>9 DEF c

\* The verifiers raise no false alarm: a contradiction on record still has
\* its reason, however long ago it was recorded and whatever was bound since,
\* and a supported claim is refused only where an equality has rewritten one
\* over a transitive relation.
THEOREM NoAlarmIsFalse == Spec => []NoFalseAlarm
  <1>1. Inv /\ AlarmInv => NoFalseAlarm
    BY RefusalExplained DEF AlarmInv, NoFalseAlarm
  <1> QED
    BY <1>1, Invariance, AlarmInvariance, PTL
=============================================================================
