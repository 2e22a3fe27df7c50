---------------------------- MODULE MCReasoning ----------------------------
(***************************************************************************)
(* A small instance of Reasoning: every case of at most MaxCase facts and  *)
(* constraints out of a pool that mixes the three kinds of rules,          *)
(* disagreeing equalities, facts of most truth statuses, and constraints   *)
(* that hold, fail, exclude each other or have no numeric value.  Beside   *)
(* it, in behaviours of their own, questions to a pack (PackAnswers).      *)
(***************************************************************************)
EXTENDS Reasoning, PackAnswers, FiniteSets

VARIABLE part

MCNames == {"a", "b", "c", "1", "2", "true"}
MCRelations == {"is_a", "equals", "implies", "is_true"}
MCNumerals == {"1", "2"}
MCNumeralValue == [n \in MCNumerals |-> IF n = "1" THEN 1 ELSE 2]

Fact(s, r, o, status) == [subject |-> s, relation |-> r, object |-> o, status |-> status]

MCFacts == {
    Fact("a", "is_a", "b", "ASSERTED"),
    Fact("a", "is_a", "b", "SUPPORTED"),
    Fact("b", "is_a", "c", "REFUTED"),
    Fact("c", "equals", "a", "ASSERTED"),
    Fact("a", "equals", "1", "ASSERTED"),
    Fact("a", "equals", "2", "ASSERTED"),
    Fact("a", "is_true", "true", "ASSERTED"),
    Fact("a", "implies", "b", "ASSUMED")}

Limit(name, op, v) == [kind |-> "numeric", target |-> name, operator |-> op,
                       isNumber |-> TRUE, value |-> v]

MCConstraints == {Limit("a", ">", 1), Limit("a", "<=", 1),
                  [Limit("a", "==", 1) EXCEPT !.isNumber = FALSE],
                  [Limit("c", "==", 1) EXCEPT !.isNumber = FALSE]}

MCGoals == {[subject |-> "a", relation |-> "is_a", object |-> "b"],
            [subject |-> "a", relation |-> "is_a", object |-> "c"],
            [subject |-> "b", relation |-> "is_true", object |-> "true"],
            [subject |-> "a", relation |-> "satisfies", object |-> "constraints"]}

\* One round of the rules.
Round(T, trans) ==
    T \cup {<<p[1][1], p[1][2], p[2][3]>> : p \in {q \in T \X T :
              q[1][2] \in trans /\ q[2][2] = q[1][2] /\ q[1][3] = q[2][1]}}
      \cup {<<p[1][1], p[2][2], p[2][3]>> : p \in {q \in T \X T :
              q[1][2] = "equals" /\ q[2][2] # "equals" /\ q[2][1] = q[1][3]}}
      \cup {<<p[2][1], p[2][2], p[1][3]>> : p \in {q \in T \X T :
              q[1][2] = "equals" /\ q[2][2] # "equals" /\ q[2][3] = q[1][1]}}
      \cup {<<p[2][3], "is_true", "true">> : p \in {q \in T \X T :
              q[1][2] = "is_true" /\ q[2][2] = "implies" /\ q[1][1] = q[2][1]}}

\* The least set of triples with T in it that is closed under the rules: two
\* rounds saturate most cases of this pool, and eight every one of them.
Closure(T, trans) ==
    LET after[n \in 0..8] == IF n = 0 THEN T ELSE Round(after[n - 1], trans)
    IN  after[8]

\* The least model of every case: no interpretation refutes more.
LeastModels ==
    LET pool == {<<f.subject, f.relation, f.object>> : f \in MCFacts}
        cases == {S \in SUBSET pool : Cardinality(S) <= MaxCase}
    IN  {Closure(T, {"is_a"} \cup B) : T \in cases, B \in SUBSET BundleRelations}

\* A name of its own, so that TLC computes LeastModels once.
MCInterpretations == LeastModels

-----------------------------------------------------------------------------
(* Model values of PackAnswers: two editions of a pack, whose claims chain *)
(* in other letters, say a thing the other way round, or are malformed.      *)

MCLower ==
    LET names == {"Paris", "paris", "Lyon", "lyon", "France", "france", "Europe", "europe", "City", "city", "",
                  "has_capital", "capital_of", "located_in_country", "part_of", "has_part", "instance_of",
                  "located_in_region", "language_of", "french", "is_a", "precedes"}
    IN  [x \in names |->
            CASE x = "Paris" -> "paris" [] x = "Lyon" -> "lyon" [] x = "France" -> "france"
              [] x = "Europe" -> "europe" [] x = "City" -> "city" [] OTHER -> x]

MCEditions ==
    {<< <<"Paris", "located_in_country", "France">>, <<"France", "part_of", "Europe">>,
        <<"Lyon", "located_in_country", "">>, <<"France", "has_capital", "Paris">>, <<"Paris", "instance_of", "City">> >>,
     << <<"Lyon", "located_in_country", "france">>, <<"Europe", "has_part", "France">>,
        <<"France", "located_in_region", "Europe">>, <<"french", "language_of", "France">>,
        <<"france", "has_capital", "lyon">>, <<"lyon", "capital_of", "france">> >>}

MCInquiries ==
    {[kind |-> "continent", subject |-> "paris"], [kind |-> "capital of what", subject |-> "Paris"],
     [kind |-> "capital of what", subject |-> "Lyon"],
     [kind |-> "is capital", subject |-> "Paris", object |-> "france"], [kind |-> "other"]}
    \cup {[kind |-> "normalized", subject |-> x[1], relation |-> x[2], object |-> x[3]] :
            x \in {<<"France", "capital_of", "">>, <<"Paris", "capital_of", "">>, <<"Lyon", "located_in_country", "">>,
                   <<"Paris", "part_of", "">>, <<"france", "language_of", "">>, <<"Paris", "instance_of", "City">>,
                   <<"Lyon", "located_in_region", "">>}}

MCBenchmarks ==
    {{<<"Paris", "capital_of", "France">>, <<"paris", "located_in_region", "Europe">>,
      <<"Lyon", "located_in_region", "Europe">>, <<"Lyon", "capital_of", "France">>}}

\* Typists are interchangeable.
Alike == Permutations(Typists)

\* A behaviour is of one memory or of one pack.
CaseInit ==
    /\ Init /\ AnswerInit /\ part \in {"memory", "pack"}
    /\ part = "memory" => sheet = CHOOSE e \in Editions : TRUE

CaseNext ==
    \/ part = "memory" /\ Next /\ UNCHANGED <<answerVars, part>>
    \/ part = "pack" /\ AnswerNext /\ UNCHANGED <<vars, part>>

CaseSpec == CaseInit /\ [][CaseNext]_<<vars, answerVars, part>>
=============================================================================
