------------------------------- MODULE MCTask -------------------------------
(***************************************************************************)
(* The commands of a user: tasks that are run and resumed, the tools their *)
(* steps call, the workspace their files are in, sessions that are told    *)
(* and asked, documents that are imported, artifacts that are made, and    *)
(* suites of cases of all of these; the properties of the tasks, and the   *)
(* task record TaskExecution implements.                                   *)
(***************************************************************************)
EXTENDS TaskExecution, AgentTools, Workspace, Gauntlet

\* A run is of one task command at a time, of task commands at the same time,
\* of a workspace with one user or with several, of tools, of imports, of
\* artifacts, of suites, or of sessions: of short ones on all that may be
\* said, or longer ones.
VARIABLE part

taskVars == <<vars, conversationVars, toolVars, workspaceVars, importVars, generationVars, gauntletVars,
              part>>

\* What only some parts of a run are about.
otherVars == <<importVars, generationVars, gauntletVars>>

MCInvalidSets == {{}, {1}, {2}, {3}}

-----------------------------------------------------------------------------
\* Names of a conversation, and what normalising makes of them.
MCNames == {"", "socrates", "Socrates", "man", "men", "mortal", "paris", "city", "x", "1", "2", "he",
            "every man", "prove socrates", "what", "> 1", "part of man", "Man", "true"}
MCRelations == {"is_a", "equals", "implies", "is_true", "requires", "part_of", ">", "<", "=", ""}
MCNumeralValue == [n \in {"1", "2"} |-> IF n = "1" THEN 1 ELSE 2]
MCNumerals == DOMAIN MCNumeralValue
MCPlain == [n \in MCNames |-> CASE n = "Socrates" -> "socrates" [] n = "men" -> "man" [] OTHER -> n]
MCPhrase == [w \in {"every", "prove", "what", "more", "part of"} \X MCNames |->
                CASE w[1] = "every" -> "every man" [] w[1] = "prove" -> "prove socrates"
                  [] w[1] = "what" -> "what" [] w[1] = "more" -> "> 1" [] w[1] = "part of" -> "part of man"]

Statement(form, x, y) == [form |-> form, x |-> x, y |-> y]
Text(statements, mark) == [statements |-> statements, mark |-> mark]

\* Texts about Socrates and about x: said in every session.
MCTopics ==
    {Text(<<Statement("all are", "men", "mortal"), Statement("same as", "x", "1")>>, FALSE),
     Text(<<Statement("is", "Socrates", "man"), Statement("same as", "x", "2"), Statement(">", "x", "1")>>, FALSE),
     Text(<<Statement("can die", "socrates", "mortal")>>, TRUE)}

\* And others: in short ones only.
MCTexts ==
    MCTopics \cup
    {Text(<<Statement("is", "Socrates", "man"), Statement("all are", "men", "mortal"),
            Statement("can die", "Socrates", "mortal")>>, TRUE),
     Text(<<Statement("is", "Socrates", "man")>>, FALSE),
     Text(<<Statement("is", "paris", "city")>>, FALSE),
     Text(<<Statement("is", "he", "man"), Statement("dies", "socrates", "mortal")>>, FALSE),
     Text(<<Statement("every", "men", "mortal"), Statement("more", "x", "1"), Statement("equals", "x", "1"),
            Statement("part of", "x", "man"), Statement("prove", "Socrates", "mortal")>>, FALSE)}

MCBundle == [schemas |-> {"is_a", "equals"}, transitive |-> {"equals"}, asks |-> {"equals"}]

\* Who talks or runs a task command makes no difference.
ActorsAreAlike == Permutations(Talkers) \cup Permutations(Commands)

-----------------------------------------------------------------------------
\* Tasks for the tools: expressions of at most two operations, and facts and
\* claims about Socrates and x.
Number(n) == [op |-> "number", value |-> n]
Negatives(s) == {[op |-> "negative", a |-> e] : e \in s}
Operated(ops, s, t) == {[op |-> o, a |-> e, b |-> f] : o \in ops, e \in s, f \in t}

MCExpressions ==
    LET small == {Number(n) : n \in {0, 2, 4}} \cup Negatives({Number(2)})
        one == small \cup Operated({"+", "-", "*", "/", "//", "**"}, small, small)
    IN  one \cup Negatives(one) \cup Operated({"+", "/", "**"}, one, small) \cup Operated({"**", "-", "//"}, small, one)

Order(words) ==
    [words |-> words, inputs |-> FALSE, facts |-> << >>, goal |-> None, claim |-> None, query |-> FALSE,
     expression |-> None, path |-> None]

MCFacts == {<<"socrates", "is_a", "man">>, <<"man", "is_a", "mortal">>, <<"x", "equals", "1">>,
            <<"x", "equals", "2">>, <<"", "is_a", "man">>}
MCAsked == {<<"socrates", "is_a", "man">>, <<"socrates", "is_a", "mortal">>, <<"x", "equals", "1">>, <<"", "is_a", "man">>}

FileOrders == {[Order({w, "prove"}) EXCEPT !.path = p] : w \in {"read file", "write file"}, p \in Paths}

MCOrders ==
    LET lists == {<< >>} \cup {<<f>> : f \in MCFacts} \cup {<<f, g>> : f, g \in MCFacts}
    IN  {[Order({"mortal"}) EXCEPT !.inputs = i, !.facts = f, !.goal = g] : i \in BOOLEAN, f \in lists, g \in MCAsked}
        \cup {[Order({w}) EXCEPT !.claim = c, !.facts = f] : w \in {"assert", "verify"}, c \in MCAsked, f \in lists}
        \cup {[Order({"verify"}) EXCEPT !.goal = g] : g \in MCAsked \cup {None}}
        \cup {[Order({"solve", "ask"}) EXCEPT !.expression = e] : e \in MCExpressions \cup {None}}
        \cup FileOrders
        \cup {Order({}), Order({"ask"}), [Order({}) EXCEPT !.query = TRUE]}

-----------------------------------------------------------------------------
\* Documents about men and about x: of every type, with rows that are not
\* read, that make nothing, that are not valid, and that disagree.
MCSingular == [n \in MCNames |-> IF n = "men" THEN "man" ELSE n]
MCRequirement == [n \in MCNames |-> IF n = "man" THEN "Man" ELSE n]
MCOwnTemplate == [name |-> "parts", form |-> "is part of", relation |-> "part_of"]

Row(form, x, r, y) == [form |-> form, x |-> x, r |-> r, y |-> y]
Document(type, columns, rows) == [type |-> type, columns |-> columns, rows |-> rows]

MCDocuments ==
    [policy |-> Document("text", "", <<Row("all are", "men", "", "mortal"), Row("must be", "men", "", "man"),
                                       Row("equals", "x", "", "1")>>),
     parts |-> Document("text", "", <<Row("is part of", "men", "", "man"), Row("other", "x", "", "1"),
                                      Row("requires", "men", "", "man")>>),
     table |-> Document("csv", "triples", <<Row("row", "x", "equals", "2"), Row("row", "man", "is_a", "mortal")>>),
     entities |-> Document("csv", "entities", <<Row("row", "x", "equals", "1"), Row("row", "man", "is_a", "")>>),
     records |-> Document("json", "", <<Row("definition", "man", "is_a", "mortal"), Row("claim", "man", "is_a", "mortal"),
                                        Row("goal", "man", "is_a", "mortal"), Row("constraint", "x", "=", "1")>>),
     bounds |-> Document("json", "", <<Row("constraint", "x", ">", "2"), Row("constraint", "x", "<", "1"),
                                       Row("claim", "", "is_a", "man")>>),
     bad |-> Document("json", "", <<Row("claim", "man", "is_a", "mortal"), Row("claim", "man", "", "mortal")>>),
     missing |-> Document("unreadable", "", << >>),
     strange |-> Document("unsupported", "", << >>)]

\* Templates of a policy: the second requires a field, and has a word, that
\* the others do not; the third has no sections and goes first.
Template1(name, byName, rank, type, required, keys, words) ==
    [name |-> name, rank |-> rank, type |-> type, required |-> required, shown |-> required, keys |-> keys,
     words |-> words, place |-> byName, present |-> {}]

MCShelf ==
    {  [Template1("access", 1, 3, "policy", {"role"}, {"sections"}, {"access"}) EXCEPT !.present = {"role"}],
       Template1("approval", 2, 2, "policy", {"role", "approver"}, {"sections"}, {"approval"}),
       Template1("bare", 3, 1, "policy", {"role"}, {}, {"approval"}),
       Template1("code", 4, 4, "simple_code", {"body"}, {"code"}, {"def"}),
       Template1("fact", 5, 5, "config", {"subject"}, {"subject", "relation", "object"}, {}) }

Fields(given) ==
    [f \in given |-> CASE f = "relation" -> "equals" [] f = "subject" -> "x" [] f = "object" -> "1" [] OTHER -> f]

Wanted(type, given, criteria) ==
    [type |-> type, fields |-> Fields(given), criteria |-> criteria, present |-> {}, defaults |-> << >>,
     allowed |-> {}, known |-> {<<"x", "equals", "2">>}, valid |-> TRUE]

MCSpecs ==
    LET policies == {Wanted("policy", given, criteria) :
                        given \in SUBSET {"role", "approver", "duration"}, criteria \in {{"access"}, {"approval"}}}
    IN  policies
        \cup {[s EXCEPT !.allowed = {"access", "bare"}] : s \in policies}
        \cup {[s EXCEPT !.defaults = "approver" :> "boss"] : s \in policies}
        \cup {[s EXCEPT !.present = {"duration"}] : s \in policies}
        \cup {[s EXCEPT !.fields = @ @@ ("duration" :> "blank")] : s \in policies}
        \cup {[s EXCEPT !.valid = FALSE] : s \in policies}
        \cup {Wanted("simple_code", {"body"} \cup t, {"def"}) : t \in {{}, {"tests"}}}
        \cup {Wanted("config", given, {"x"}) : given \in {{"subject"}, {"subject", "relation", "object"}}}
        \cup {Wanted("plan", {"role"}, {"role"})}

\* Suites of up to two cases: texts and facts, documents, artifacts.
Case(id, mode, input, expected) ==
    [line |-> "case", id |-> id, mode |-> mode, input |-> input, expected |-> expected, answer |-> << >>, failures |-> {}]

MCCases ==
    LET socrates == <<"socrates", "is_a", "man">>
        mortal == <<"socrates", "is_a", "mortal">>
        entailed == Case("a", "facts", [facts |-> <<socrates, <<"man", "is_a", "mortal">> >>, goal |-> mortal], "VERIFIED")
    IN  {entailed, [entailed EXCEPT !.answer = mortal], [entailed EXCEPT !.answer = socrates],
         [entailed EXCEPT !.failures = {"VERIFIED"}],
         Case("b", "facts", [facts |-> <<socrates>>, goal |-> mortal], "INCONCLUSIVE"),
         Case("a", "facts", [facts |-> <<socrates>>, goal |-> mortal], "VERIFIED"),
         Case("c", "facts", [facts |-> <<socrates>>, goal |-> socrates], "INCONCLUSIVE"),
         Case("d", "facts", [facts |-> << <<"x", "equals", "1">>, <<"x", "equals", "2">> >>, goal |-> socrates], "CONTRADICTORY")}
        \cup {Case("e", "text", text, "VERIFIED") : text \in MCTexts}
        \cup {Case("f", "ingest", file, expected) : file \in {"table", "records", "bad"}, expected \in {"VERIFIED", "FAILED_ARTIFACT"}}
        \cup {Case("g", "generate", spec, "VERIFIED_ARTIFACT") :
                 spec \in {Wanted("policy", {"role"}, {"access"}), [Wanted("policy", {"role"}, {"access"}) EXCEPT !.valid = FALSE]}}

OtherLines == {[line |-> "blank"], [line |-> "malformed"], Case("h", "unknown", "", "VERIFIED")}

MCCaseFiles ==
    {<< >>} \cup {<<c>> : c \in MCCases}
    \cup {<<c, d>> : c, d \in {e \in MCCases : e.mode # "text"}}
    \cup {<<c, l>> : c \in {e \in MCCases : e.id = "a"}, l \in OtherLines}

-----------------------------------------------------------------------------
\* One command less when they run at once.
TaskInit ==
    /\ part \in {"task", "tools", "workspace", "imports", "artifacts", "suites", "short talk", "long talk"}
    /\ alone \in BOOLEAN
    /\ invalid \in InvalidSets
    /\ part # "task" => invalid = {}
    /\ part \notin {"task", "workspace"} => alone
    /\ Start(IF alone THEN 0 ELSE 1)
    /\ ConversationInit
    /\ ToolInit
    /\ WorkspaceInit
    /\ ImportInit
    /\ GenerationInit
    /\ GauntletInit
    /\ place = IF part = "workspace" /\ ~alone THEN NewPlace ELSE Nowhere

TaskPart ==
    /\ Next
    /\ UNCHANGED <<conversationVars, toolVars, workspaceVars, otherVars>>

\* One step of a tool, or several with files.
ToolPart ==
    /\ IF tool.step = None THEN ToolNext
       ELSE /\ tool.step.tool \in {"file_read", "file_write"}
            /\ \E o \in FileOrders : RunTool(Template(o))
    /\ UNCHANGED <<vars, conversationVars, workspaceVars, otherVars>>

\* Several begin with a workspace there, and give two orders less than one does.
WorkspacePart ==
    /\ WorkspaceNext
    /\ IF alone THEN Cardinality({p \in Users : order'[p] # NoOrder} \cup {p \in Users : order[p] # NoOrder}) < 2
       ELSE spent'.orders < MaxOrders - 1
    /\ UNCHANGED <<vars, conversationVars, toolVars, otherVars>>

TalkPart ==
    /\ ConversationNext
    /\ IF part = "short talk" THEN Len(turns') < MaxTurns /\ answers' < MaxAnswers
       ELSE /\ answers' + Len(turns') < MaxTurns + MaxAnswers
            /\ turns' # turns => Last(turns').frames \in {Parsed(t) : t \in MCTopics}
    /\ UNCHANGED <<vars, toolVars, workspaceVars, otherVars>>

ImportPart == ImportNext /\ UNCHANGED <<vars, conversationVars, toolVars, workspaceVars, generationVars, gauntletVars>>

\* One artifact: none depends on another.
ArtifactPart ==
    /\ artifact = NoArtifact /\ Generate
    /\ UNCHANGED <<vars, conversationVars, toolVars, workspaceVars, importVars, gauntletVars>>

SuitePart == GauntletNext /\ UNCHANGED <<vars, conversationVars, toolVars, workspaceVars, importVars, generationVars>>

TaskNext ==
    /\ \/ part = "task" /\ TaskPart
       \/ part = "tools" /\ ToolPart
       \/ part = "workspace" /\ WorkspacePart
       \/ part = "imports" /\ ImportPart
       \/ part = "artifacts" /\ ArtifactPart
       \/ part = "suites" /\ SuitePart
       \/ part \in {"short talk", "long talk"} /\ TalkPart
    /\ UNCHANGED part

TaskSpec == TaskInit /\ [][TaskNext]_taskVars
=============================================================================
