----------------------------- MODULE AgentTools -----------------------------
(***************************************************************************)
(* What an agent's plan does (agent/planner.py, agent/tools.py): the       *)
(* template a task's words choose makes one step, the step's tool answers  *)
(* a query with a search of its own, verifies or asserts a claim, computes *)
(* an expression, or reads or writes a file.  TaskExecution takes a step   *)
(* for its outcome; these are the outcomes.                                *)
(***************************************************************************)
EXTENDS Conversation, Integers

CONSTANTS
    Orders,       \* tasks: the words of the description, and the inputs
    Paths,        \* files an agent may be asked for
    UnsafePaths,  \* absolute ones, and those with ".."
    None,
    MaxPowerBase, MaxPowerExponent, MaxNodes, MaxOperations, MaxPowerDepth

ASSUME UnsafePaths \subseteq Paths

VARIABLES files, tool    \* what files hold; the last step and its outcome

toolVars == <<files, tool>>

-----------------------------------------------------------------------------
(* math_solver.  A number is [op |-> "number", value |-> n], else there are *)
(* one or two operands; a value is a fraction <<n, d>>.                     *)

IsBinary(e) == e.op \in {"+", "-", "*", "/", "//", "**"}

Error == <<0, 0>>

RECURSIVE Size(_), Operations(_), Constant(_), Powers(_), Walk(_, _), Value(_)

Size(e) == 1 + (IF e.op = "number" THEN 0 ELSE IF IsBinary(e) THEN Size(e.a) + Size(e.b) ELSE Size(e.a))

Operations(e) ==
    IF e.op = "number" THEN 0 ELSE IF IsBinary(e) THEN 1 + Operations(e.a) + Operations(e.b) ELSE Operations(e.a)

\* _resolve_numeric_constant: a number with any signs.
Constant(e) ==
    CASE e.op = "number" -> {e.value}
      [] e.op = "negative" -> {-v : v \in Constant(e.a)}
      [] OTHER -> {}

\* A base that is no constant is evaluated by _eval_static_base, and refused
\* whatever it is.
PowerAllowed(e, depth) ==
    /\ depth <= MaxPowerDepth
    /\ \E x \in Constant(e.b) :
         /\ x \in -MaxPowerExponent .. MaxPowerExponent
         /\ \E b \in Constant(e.a) : b \in -MaxPowerBase .. MaxPowerBase /\ ~(b = 0 /\ x < 0)

\* _validate_math_ast.walk
Walk(e, depth) ==
    CASE e.op = "number" -> TRUE
      [] IsBinary(e) -> LET below == IF e.op = "**" THEN depth + 1 ELSE depth
                        IN  (e.op = "**" => PowerAllowed(e, below)) /\ Walk(e.a, below) /\ Walk(e.b, below)
      [] OTHER -> Walk(e.a, depth)

\* The root of the tree is a node too.
ExpressionAllowed(e) == Size(e) + 1 <= MaxNodes /\ Operations(e) <= MaxOperations /\ Walk(e, 0)

Fraction(n, d) == IF d > 0 THEN <<n, d>> ELSE <<-n, -d>>

Arithmetic(op, x, y) ==
    CASE op = "+" -> Fraction(x[1] * y[2] + y[1] * x[2], x[2] * y[2])
      [] op = "-" -> Fraction(x[1] * y[2] - y[1] * x[2], x[2] * y[2])
      [] op = "*" -> Fraction(x[1] * y[1], x[2] * y[2])
      [] op \in {"/", "//"} /\ y[1] = 0 -> Error
      [] op = "/" -> Fraction(x[1] * y[2], x[2] * y[1])
      [] op = "//" -> <<(x[1] * y[2] * y[1]) \div (x[2] * y[1] * y[1]), 1>>
      [] op = "**" /\ y[1] = 0 -> <<1, 1>>
      [] op = "**" -> IF y[1] >= 0 THEN <<x[1]^y[1], 1>> ELSE Fraction(1, x[1]^(-y[1]))

\* _eval_math_ast; a float's precision and its overflow are left out.
Value(e) ==
    CASE e.op = "number" -> <<e.value, 1>>
      [] IsBinary(e) -> LET x == Value(e.a) y == Value(e.b)
                        IN  IF Error \in {x, y} THEN Error ELSE Arithmetic(e.op, x, y)
      [] OTHER -> LET x == Value(e.a) IN <<-x[1], x[2]>>

-----------------------------------------------------------------------------
(* The tools: an answer, or Failed if the tool raises.                      *)

Failed == [kind |-> "failed"]

Named(triple) == triple[1] # "" /\ triple[3] # ""

Stating(m, triples, status) ==
    FoldLeft(LAMBDA x, t : IF Named(t) THEN AddClaim(x, t[1], t[2], t[3], status, << >>) ELSE x, m, triples)

Asked(m, t) == AddGoal(m, [subject |-> t[1], relation |-> t[2], object |-> t[3]])

FreshMemory == AddSchema(EmptyMemory, "is_a", TRUE)

\* _handle_vcse_query: the query's text is not looked at.
QueryTool(facts, goal) ==
    LET m == Stating(FreshMemory, facts, "ASSERTED")
    IN  [kind |-> "answer", status |-> Outcome(IF goal = None THEN m ELSE Asked(m, goal))]

Verified(m, claim) == [kind |-> "verified", is |-> Outcome(Asked(m, claim)) = "VERIFIED"]

\* _handle_assert_claim
AssertTool(claim) ==
    IF ~Named(claim) THEN [kind |-> "verified", is |-> FALSE]
    ELSE Verified(Stating(FreshMemory, <<claim>>, "ASSERTED"), claim)

\* Mutant: the claim to be verified is asserted.
VerifyAsserted(facts, claim) == AssertTool(claim)

\* _handle_verify_claim: the claim is in the memory as UNKNOWN, unless it is
\* one of the facts; one that only follows from them is never derived.
VerifyTool(facts, claim) ==
    IF ~Named(claim) THEN [kind |-> "verified", is |-> FALSE]
    ELSE Verified(Stating(Stating(FreshMemory, facts, "ASSERTED"), <<claim>>, "UNKNOWN"), claim)

\* _handle_math_solver: a text of other characters ("%" is one), or one that
\* does not parse, is no expression.
MathTool(e) ==
    IF e = None \/ ~ExpressionAllowed(e) \/ Value(e) = Error THEN Failed
    ELSE [kind |-> "result", value |-> Value(e)]

\* _handle_file_read
ReadTool(path) ==
    IF path \in UnsafePaths \/ files[path] = None THEN Failed ELSE [kind |-> "content", content |-> files[path]]

\* _handle_file_write
WriteTool(path) == IF path \in UnsafePaths THEN Failed ELSE [kind |-> "written"]

-----------------------------------------------------------------------------
\* _plan_task_from_template: the first template that has a word of the
\* description.  A query takes facts and goal only from a task with inputs,
\* and only the first template does; no template gives verify_claim facts.
Template(order) ==
    LET says(words) == order.words \cap words # {}
        step(name, facts, triple, what) == [tool |-> name, facts |-> facts, triple |-> triple, what |-> what]
        claim == IF order.claim # None THEN order.claim ELSE order.goal
    IN  CASE says({"die", "mortal", "death"}) ->
               IF order.inputs THEN step("vcse_query", order.facts, order.goal, None)
               ELSE step("vcse_query", << >>, None, None)
          [] says({"solve", "compute"}) -> step("math_solver", << >>, None, order.expression)
          [] says({"read file"}) -> step("file_read", << >>, None, order.path)
          [] says({"write file"}) -> step("file_write", << >>, None, order.path)
          [] says({"assert", "prove"}) -> step("assert_claim", << >>, claim, None)
          [] says({"verify", "check if"}) -> step("verify_claim", << >>, claim, None)
          [] order.query \/ says({"ask"}) -> step("vcse_query", << >>, None, None)
          [] OTHER -> step("none", << >>, None, None)

\* ToolRegistry.execute; a step of the planner's placeholder has no tool and
\* only repeats its inputs.
Executed(step) ==
    LET claim == IF step.triple = None THEN <<"", "is_a", "">> ELSE step.triple
    IN  CASE step.tool = "vcse_query" -> QueryTool(step.facts, step.triple)
          [] step.tool = "math_solver" -> MathTool(step.what)
          [] step.tool = "file_read" -> ReadTool(step.what)
          [] step.tool = "file_write" -> WriteTool(step.what)
          [] step.tool = "assert_claim" -> AssertTool(claim)
          [] step.tool = "verify_claim" -> VerifyTool(step.facts, claim)
          [] step.tool = "none" -> [kind |-> "inputs"]

ToolInit == files = [p \in Paths |-> None] /\ tool = [step |-> None]

\* execute_step: a step whose tool raised is FAILED, any other COMPLETED,
\* whatever its answer says.
RunTool(step) ==
    LET output == Executed(step)
    IN  /\ tool' = [step |-> step, output |-> output, status |-> IF output = Failed THEN "FAILED" ELSE "COMPLETED"]
        /\ files' = IF step.tool = "file_write" /\ output # Failed THEN [files EXCEPT ![step.what] = "content"] ELSE files

\* A task is planned and run, or a caller's own step is.
RunOrder == \E order \in Orders : RunTool(Template(order))

RunVerify == \E order \in Orders : order.claim # None /\ RunTool([Template(order) EXCEPT !.tool = "verify_claim", !.facts = order.facts, !.triple = order.claim])

ToolNext == RunOrder \/ RunVerify

-----------------------------------------------------------------------------
\* Every power in an expression, wherever it stands.
Powers(e) ==
    (IF e.op = "**" THEN {e} ELSE {})
    \cup (IF e.op = "number" THEN {} ELSE IF IsBinary(e) THEN Powers(e.a) \cup Powers(e.b) ELSE Powers(e.a))

\* A tool says VERIFIED only of what the step's own facts entail, and a
\* query of all that they do (of claims about classes); that facts disagree
\* is said, and nothing verified then.  An asserted claim is verified by
\* itself, and a claim to be verified only if it is one of the facts.  A
\* result is of an expression whose powers, wherever they stand, are of
\* plain numbers within the limits, so that no limit is passed by nesting
\* (agent.tools).
ToolsAnswerTruly ==
    (tool.step # None /\ tool.output # Failed) =>
        LET step == tool.step
            facts == {t \in ToSet(step.facts) : Named(t)}
            clash == \E a, b \in facts : a[2] = "equals" /\ b[2] = "equals" /\ a[1] = b[1] /\ a[3] # b[3]
        IN  /\ step.tool = "vcse_query" =>
                 tool.output.status = (IF clash THEN "CONTRADICTORY"
                                       ELSE IF step.triple \in Classes(facts) THEN "VERIFIED" ELSE "INCONCLUSIVE")
            /\ step.tool = "verify_claim" =>
                 tool.output.is = (~clash /\ step.triple \in facts
                                   /\ ~\E a \in facts : a[2] = "equals" /\ step.triple[2] = "equals"
                                                        /\ a[1] = step.triple[1] /\ a[3] # step.triple[3])
            /\ step.tool = "math_solver" =>
                 \A p \in Powers(step.what) :
                     \E b \in -MaxPowerBase .. MaxPowerBase, x \in -MaxPowerExponent .. MaxPowerExponent :
                         Value(p.a) = <<b, 1>> /\ Value(p.b) = <<x, 1>> /\ Powers(p.a) \cup Powers(p.b) = {}

\* What is answered, in a session or by a tool, follows from what was told
\* there (Session.solve, agent.tools).
AnswersAreEntailed == AnswersFollowFromTurns /\ ToolsAnswerTruly
=============================================================================
