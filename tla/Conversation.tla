---------------------------- MODULE Conversation ----------------------------
(***************************************************************************)
(* Sessions (interaction/*.py) and what is asked of them turn by turn: a   *)
(* text is normalised and parsed into frames, the frames of every turn are *)
(* applied to the session's memory again whenever it is to answer, and the *)
(* answer is a search's on that memory.  A fork shares the memory of its   *)
(* parent.                                                                 *)
(*                                                                         *)
(* A statement is its form and two names; a form stands for all texts that *)
(* the normaliser and the patterns treat alike.                            *)
(***************************************************************************)
EXTENDS Proposers, FiniteSets, SequencesExt

CONSTANTS
    Talkers,       \* sessions
    Texts,         \* what may be said: statements, and whether it has a "?"
    Plain,         \* what normalising makes of a name: lower case, synonyms
    Phrase,        \* the name that a word and a name make when read as one
    Asking,        \* names that end in a word of a question, as "Paris" in "is"
    Pronouns,      \* it, he, she, they, this, that
    Bundle,        \* a bundle's schemas and the relations it asks back about
    MaxTurns, MaxAnswers   \* bounds

ASSUME ConversationBounds == MaxTurns \in Nat /\ MaxAnswers \in Nat

VARIABLES
    session,     \* of each talker: memory, history and bundle, or NoSession
    memories,    \* every memory there is
    turns,       \* every turn there was: its frames, and whether it has the bundle
    audience,    \* the turns that sessions of each memory were told
    applied,     \* those that were applied to it, in order of the first time
    said,        \* the last answer
    answers      \* how many there were

conversationVars == <<session, memories, turns, audience, applied, said, answers>>

NoSession == [memory |-> 0]

Silence == [kind |-> "none"]

-----------------------------------------------------------------------------
(* From a text to frames. *)

Frame(kind, triple, words) == [kind |-> kind, triple |-> triple, words |-> words]

\* PatternParser on what SemanticNormalizer makes of a statement.  Of the
\* questions only "Can X die?" is one to the parser: "Is X Y?" matches
\* nothing once it is normalised.
QuestionFrames(st) ==
    IF st.form = "can die" THEN << Frame("goal", <<Plain[st.x], "is_a", "mortal">>, {st.x, st.y}) >> ELSE << >>

\* "X is part of Y" matches nothing either; "Every X is Y" and "Prove X is Y"
\* are about a name of their own, and so is what "X is more than n" says.
ClaimFrames(st) ==
    LET x == Plain[st.x]
        y == Plain[st.y]
        claim(a, r, b) == << Frame("claim", <<a, r, b>>, {st.x, st.y}) >>
    IN  CASE st.form \in {"is", "all are"} -> claim(x, "is_a", y)
          [] st.form \in {"every", "prove", "what"} -> claim(Phrase[st.form, x], "is_a", y)
          [] st.form = "more" -> claim(x, "is_a", Phrase["more", y])
          [] st.form = "dies" -> claim(x, "is_a", "mortal")
          [] st.form = "same as" -> claim(x, "equals", y)
          [] OTHER -> << >>

\* ">=" and "<=" are read as "=".
ConstraintFrames(st) ==
    LET operator == IF st.form \in {"equals", ">=", "<="} THEN "=" ELSE st.form
    IN  IF operator \in {"=", ">", "<"} /\ Plain[st.y] \in Numerals
        THEN << Frame("constraint", <<Plain[st.x], operator, Plain[st.y]>>, {st.x, st.y}) >> ELSE << >>

FramesOf(st) == QuestionFrames(st) \o ClaimFrames(st) \o ConstraintFrames(st)

\* NormalizedInput.is_question: the words of a question are looked for
\* anywhere, in the middle of other words too.
IsQuestion(text) ==
    \/ text.mark
    \/ \E i \in DOMAIN text.statements :
         LET st == text.statements[i]
         IN  st.form \in {"can die", "dies", "prove", "what"} \/ st.x \in Asking

\* In a question without a goal, the last claim about a class is the goal.
LastClassClaim(frames) ==
    {i \in DOMAIN frames :
        /\ frames[i].kind = "claim" /\ frames[i].triple[2] = "is_a"
        /\ \A j \in DOMAIN frames : j > i => frames[j].kind # "claim" \/ frames[j].triple[2] # "is_a"}

AsGoal(frames) ==
    [i \in DOMAIN frames |->
        IF i \in LastClassClaim(frames) THEN [frames[i] EXCEPT !.kind = "goal"] ELSE frames[i]]

\* Session.ingest: a text that is "Can X die?" and nothing else is taken as
\* it was typed.
Parsed(text) ==
    LET st == text.statements[1]
        frames == FlattenSeq([i \in DOMAIN text.statements |-> FramesOf(text.statements[i])])
    IN  IF Len(text.statements) = 1 /\ st.form = "can die"
        THEN << Frame("goal", <<st.x, "is_a", "mortal">>, {st.x}) >>
        ELSE IF IsQuestion(text) /\ \A i \in DOMAIN frames : frames[i].kind # "goal"
             THEN AsGoal(frames) ELSE frames

-----------------------------------------------------------------------------
(* From frames to a memory, and to an answer. *)

\* FrameApplicator._ensure_relation_schema
EnsureSchema(m, r) == IF r \in m.schemas /\ r # "is_a" THEN m ELSE AddSchema(m, r, r = "is_a")

\* FrameApplicator.apply of one frame: the value of a constraint is text, and
\* "=" is no operator of a constraint.
ApplyFrame(m, frame) ==
    LET t == frame.triple
    IN  CASE frame.kind = "claim" -> AddClaim(EnsureSchema(m, t[2]), t[1], t[2], t[3], "ASSERTED", << >>)
          [] frame.kind = "goal" -> AddGoal(EnsureSchema(m, t[2]), [subject |-> t[1], relation |-> t[2], object |-> t[3]])
          [] frame.kind = "constraint" /\ t[2] # "=" ->
               AddConstraint(m, [kind |-> "numeric", target |-> t[1], operator |-> t[2], isNumber |-> FALSE, value |-> 0])
          [] OTHER -> m

ApplyAll(m, frames) == FoldLeft(ApplyFrame, m, frames)

\* Only schemas the memory does not have.
WithBundle(m) ==
    LET new == Bundle.schemas \ m.schemas
    IN  [m EXCEPT !.schemas = @ \cup new, !.transitive = @ \cup (new \cap Bundle.transitive)]

\* ClarificationEngine.clarify: the rules of the bundle, then pronouns.
Unclear(frames, bundled) ==
    \E i \in DOMAIN frames :
        \/ bundled /\ frames[i].kind # "constraint" /\ frames[i].triple[2] \in Bundle.asks
        \/ frames[i].words \cap Pronouns # {}

\* Search backends keep a child that is valid, passed the stack and is in no
\* conflict (BeamSearch).
Offspring(m) ==
    LET steps == {TransitiveStep(m, p) : p \in TransitivePairs(m)}
                 \cup {SubjectStep(m, p) : p \in SubjectPairs(m)} \cup {ObjectStep(m, p) : p \in ObjectPairs(m)}
                 \cup {BindStep(m, i) : i \in BindableClaims(m)}
        children == {VerifiedMemory(Applied(m, t)) : t \in {t \in steps : Valid(m, t)}}
    IN  {c \in children : StackPassed(c) /\ Judgement(c) \notin {"CONTRADICTORY", "UNSATISFIABLE"}}

\* Memories a few proposals away.
Reach(m) ==
    LET after[n \in 0..3] ==
            IF n = 0 THEN {m} ELSE after[n - 1] \cup UNION {Offspring(x) : x \in after[n - 1]}
    IN  after[3]

\* SearchBackend.run on a memory whose search no limit cuts: the case's own
\* verdict, or VERIFIED if a memory it reaches is.
Outcome(m) ==
    IF Judgement(m) # "INCONCLUSIVE" THEN Judgement(m)
    ELSE IF \E x \in Reach(VerifiedMemory(m)) : Judgement(x) = "VERIFIED" THEN "VERIFIED" ELSE "INCONCLUSIVE"

-----------------------------------------------------------------------------
ConversationInit ==
    /\ session = [s \in Talkers |-> NoSession]
    /\ memories = << >> /\ turns = << >> /\ audience = << >> /\ applied = << >>
    /\ said = Silence /\ answers = 0

\* A memory of its own for a session with this history.
NewMemory(s, history, bundled) ==
    /\ memories' = Append(memories, EmptyMemory)
    /\ audience' = Append(audience, {})
    /\ applied' = Append(applied, << >>)
    /\ session' = [session EXCEPT ![s] = [memory |-> Len(memories) + 1, history |-> history, bundled |-> bundled]]

Opened(s) == session[s] # NoSession

\* Session.create
Open(s) ==
    /\ ~Opened(s)
    /\ \E bundled \in BOOLEAN : NewMemory(s, << >>, bundled)
    /\ said' = Silence
    /\ UNCHANGED <<turns, answers>>

\* Session.ingest: one more turn, which keeps the bundle it was parsed with;
\* the memory is as it was.
Ingest(s) ==
    /\ Opened(s) /\ Len(turns) < MaxTurns
    /\ \E text \in Texts : turns' = Append(turns, [frames |-> Parsed(text), bundled |-> session[s].bundled])
    /\ session' = [session EXCEPT ![s].history = Append(@, Len(turns'))]
    /\ audience' = [audience EXCEPT ![session[s].memory] = @ \cup {Len(turns')}]
    /\ said' = Silence
    /\ UNCHANGED <<memories, applied, answers>>

\* The frames of every turn, once more.
Told(history) == FlattenSeq([i \in DOMAIN history |-> turns[history[i]].frames])

\* Mutant: only the session's own bundle counts.
OwnBundle(s) == session[s].bundled

\* The bundle of the last turn, or else the session's own.
ActiveBundle(s) == turns[Last(session[s].history)].bundled \/ session[s].bundled

\* Session.solve: clarification comes after the frames were applied; the
\* search works on a copy of the memory.
Solve(s) ==
    /\ Opened(s) /\ session[s].history # << >> /\ answers < MaxAnswers
    /\ LET n == session[s].memory
           history == session[s].history
           ready == IF ActiveBundle(s) THEN WithBundle(memories[n]) ELSE memories[n]
           m == ApplyAll(ready, Told(history))
           heard == applied[n] \o SelectSeq(history, LAMBDA t : t \notin ToSet(applied[n]))
           reply(kind) == [kind |-> kind, of |-> heard, session |-> s]
       IN  /\ applied' = [applied EXCEPT ![n] = heard]
           /\ memories' = [memories EXCEPT ![n] = m]
           /\ said' = reply(IF Unclear(turns[Last(history)].frames, ActiveBundle(s)) THEN "clarify"
                            ELSE IF m.goals = << >> THEN "noted" ELSE Outcome(m))
    /\ answers' = answers + 1
    /\ UNCHANGED <<session, turns, audience>>

\* Mutant: the turns are kept.
ResetMemory(s) == NewMemory(s, session[s].history, session[s].bundled)

ResetAll(s) == NewMemory(s, << >>, session[s].bundled)

\* Session.reset
Reset(s) ==
    /\ Opened(s) /\ session[s].history # << >>
    /\ ResetAll(s)
    /\ said' = Silence
    /\ UNCHANGED <<turns, answers>>

\* Session.fork: the same memory and the turns so far, with their bundles, but
\* no bundle for the turns to come.
Fork(s, t) ==
    /\ Opened(s) /\ ~Opened(t)
    /\ session' = [session EXCEPT ![t] = [session[s] EXCEPT !.bundled = FALSE]]
    /\ said' = Silence
    /\ UNCHANGED <<memories, turns, audience, applied, answers>>

ConversationNext ==
    \E s \in Talkers :
        \/ Open(s) \/ Ingest(s) \/ Solve(s) \/ Reset(s)
        \/ \E t \in Talkers : Fork(s, t)

-----------------------------------------------------------------------------
\* The triples that are, or follow from, a set of claims about classes.
Classes(claims) ==
    LET after[n \in 0..3] ==
            IF n = 0 THEN claims
            ELSE after[n - 1] \cup {<<p[1][1], "is_a", p[2][3]>> :
                    p \in {q \in after[n - 1] \X after[n - 1] :
                             q[1][2] = "is_a" /\ q[2][2] = "is_a" /\ q[1][3] = q[2][1]}}
    IN  after[3]

\* What frames make of the first goal among them.
Entailed(frames) ==
    LET claims == {frames[i].triple : i \in {i \in DOMAIN frames : frames[i].kind = "claim"}}
        goals == SelectSeq(frames, LAMBDA f : f.kind = "goal")
        clash == \E a, b \in claims : a[2] = "equals" /\ b[2] = "equals" /\ a[1] = b[1] /\ a[3] # b[3]
    IN  IF goals = << >> THEN "noted"
        ELSE IF clash THEN "CONTRADICTORY"
        ELSE IF goals[1].triple \in Classes(claims) THEN "VERIFIED" ELSE "INCONCLUSIVE"

\* An answer is what was said makes it, said once and in one order, however
\* often solve applies the turns again, and whoever shares the memory: the
\* goal is the first one of the turns applied so far, VERIFIED means that the claims among them
\* entail it, CONTRADICTORY that two of them disagree.  Those turns are all
\* of this session's since its last reset, and none that no session of this
\* memory was told.  Whether a turn is asked back about was settled when it
\* was told: a fork, which has no bundle, asks back just as its parent does
\* (Session.solve, reset, fork).
AnswersFollowFromTurns ==
    said.kind # "none" =>
        LET s == session[said.session]
        IN  /\ ToSet(s.history) \subseteq ToSet(said.of)
            /\ ToSet(said.of) \subseteq audience[s.memory]
            /\ LET last == turns[Last(s.history)]
               IN  said.kind = "clarify" <=> Unclear(last.frames, last.bundled)
            /\ said.kind # "clarify" => said.kind = Entailed(Told(said.of))
=============================================================================
