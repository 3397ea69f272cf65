------------------------- MODULE LanguageInterpreter -------------------------
(***************************************************************************)
(* How a text becomes an interpretation on the official route: the lexical *)
(* interpreter (interpreter/deterministic.ts), the adapter that asks a     *)
(* language model and falls back to it (adapter/adapter.ts), and the       *)
(* answer about a pending attendance (reply.ts, contextualStatus).         *)
(* A text is what the patterns find in it: the markers it bears, the goals *)
(* and the topic it names, the facts it states.  Evidence, a quotation, is *)
(* left out.                                                               *)
(***************************************************************************)
EXTENDS TurnPlanning
LOCAL INSTANCE SequencesExt
LOCAL INSTANCE FiniteSetsExt

CONSTANTS
    Lexical(_, _),  \* the interpreter given as fallback: Interpret
    Plan(_, _)      \* what is made of an interpretation: Planned

(* A text is [says, goals, topic, facts, hint, ...]: markers, goals named  *)
(* in the order of the patterns, a topic of information, what it states.   *)
(* A context is what contextFromState tells of the conversation.           *)

ContextOf(s) ==
    LET g == ContextGoal(s) IN
    [open |-> IsOpen(s),
     goal |-> IF g = 0 THEN "none" ELSE s.goals[g].code,
     pending |-> s.question.fact,
     hints |-> IF g = 0 \/ s.goals[g].case = 0 THEN {}
               ELSE {s.cases[s.goals[g].case].ref[1]} \ {"none", "message"}]

Marks(t, markers) == t.says \cap markers # {}
NamedGoal(t) == IF t.goals = <<>> THEN [code |-> "none", low |-> FALSE] ELSE Head(t.goals)
About(t, c, goal) == goal \in {c.goal, NamedGoal(t).code}

-----------------------------------------------------------------------------
(* The lexical interpreter.                                                *)

\* a request for a person; "encerrar", "cancelar" and "finalizar" are one only
\* while an attendance is open
AsksPerson(t, c) ==
    "human" \in t.says \/ (c.open /\ Marks(t, {"close", "cancel", "completion"}))

References == {"grave_service_description", "grave_reference", "burial_reference",
               "deceased_name", "concession_reference", "complaint_description"}

\* what a text states counts in the context that asks for it
Counts(f, t, c) ==
    CASE f.code = "exhumation_purpose" ->
            \/ c.pending = f.code
            \/ c.goal = "EXUMACAO" /\ Marks(t, {"correction", "change"})
            \/ \E k \in DOMAIN t.goals : t.goals[k].code = "EXUMACAO"
      [] f.code = "surviving_spouse_status" /\ f.bare -> c.pending = f.code
      [] f.code \in {"grave_service_description", "grave_reference"} ->
            About(t, c, "JAZIGO_SERVICOS")
      [] f.code = "burial_reference" -> About(t, c, "EXUMACAO") \/ "buried" \in t.says
      [] f.code = "concession_reference" -> About(t, c, "RECADASTRO")
      [] f.code = "complaint_description" -> "complaint" \in t.says
      [] OTHER -> TRUE

\* doubt lowers what the lexicon reads, not a reference that is quoted; a claim of
\* authority is proposed for the guard to refuse
Candidate(f, t) ==
    LET claim == FactDef[f.code].authority
        low == ~claim /\ f.code \notin References /\ f.value # "DESCONHECIDO"
               /\ "uncertain" \in t.says
    IN [code |-> f.code, value |-> f.value, confidence |-> "default",
        authoritative |-> FALSE, low |-> low, confirm |-> claim \/ low,
        source |-> IF ~claim /\ "correction" \in t.says THEN "USER_CORRECTION"
                   ELSE "USER_EXPLICIT"]

StatedFacts(t, c) ==
    LET stated == Among(t.facts, {f \in ToSet(t.facts) : Counts(f, t, c)})
    IN [k \in DOMAIN stated |-> Candidate(stated[k], t)]

Answers(facts, c) == \E k \in DOMAIN facts : facts[k].code = c.pending

\* a question beside the attendance: asked for, or what is left of a text that
\* names no goal and answers nothing
ParallelTopic(t, c) ==
    IF /\ ~Marks(t, {"correction", "change"})
       /\ "parallel" \in t.says \/ (t.goals = <<>> /\ ~Answers(StatedFacts(t, c), c))
    THEN t.topic ELSE "none"
TopicFact(topic, t) == [Candidate([code |-> Head(GoalDef[topic].required), value |-> "dado"], t)
                          EXCEPT !.source = "USER_EXPLICIT", !.low = FALSE, !.confirm = FALSE]

Ambiguities(t, c) ==
    LET settled == (IF c.open /\ c.hints # {} THEN {"AMB_SUJEITO_INDEFINIDO"} ELSE {})
            \cup (IF \/ About(t, c, "JAZIGO_SERVICOS") \/ About(t, c, "RECADASTRO")
                     \/ \E f \in ToSet(StatedFacts(t, c)) : f.code = "burial_reference"
                  THEN {"AMB_DESTINO_JAZIGO_OU_CEMITERIO"} ELSE {})
    IN t.says \cap ({"AMB_SUJEITO_INDEFINIDO", "AMB_DESTINO_JAZIGO_OU_CEMITERIO"} \ settled)

CaseKind(t, c) ==
    CASE "newSubject" \in t.says -> "NEW"
      [] t.hint # "none" /\ c.hints # {} -> IF t.hint \in c.hints THEN "CURRENT" ELSE "NEW"
      [] c.open /\ t.hint = "none" /\ "AMB_SUJEITO_INDEFINIDO" \in Ambiguities(t, c) ->
            "AMBIGUOUS"
      [] OTHER -> IF c.open THEN "CURRENT" ELSE "NEW"

\* the first that applies, in the order of the code
PrimaryEvent(t, c, topic, facts) ==
    CASE AsksPerson(t, c) -> "HUMAN_REQUEST"
      [] "complaint" \in t.says -> "COMPLAINT"
      [] "correction" \in t.says -> "CORRECTION"
      [] "change" \in t.says -> "CHANGE_OF_MIND"
      [] topic # "none" /\ c.open -> "PARALLEL_QUESTION"
      [] t.goals # <<>> /\ (CaseKind(t, c) = "NEW" \/ ~c.open) -> "NEW_GOAL"
      [] facts # <<>> -> IF Answers(facts, c) THEN "ANSWER" ELSE "COMPLEMENT"
      [] "uncertain" \in t.says -> "UNCERTAIN"
      [] "greeting" \in t.says \/ (c.open /\ "return" \in t.says) -> "SOCIAL"
      [] OTHER -> "none"

Unheard ==
    [event |-> "none", goal |-> "none", goalLow |-> FALSE, eventLow |-> FALSE,
     caseKind |-> "CURRENT", caseLow |-> FALSE, hint |-> "none", blocking |-> FALSE,
     media |-> FALSE, p0 |-> FALSE, intentChanged |-> FALSE, clarify |-> FALSE,
     facts |-> <<>>, secondary |-> <<>>, closing |-> FALSE, status |-> FALSE,
     failed |-> FALSE, restart |-> FALSE, explained |-> FALSE]

\* interpret
Interpret(t, c) ==
    LET topic == ParallelTopic(t, c)
        stated == StatedFacts(t, c)
        facts == IF topic = "none" THEN stated ELSE Append(stated, TopicFact(topic, t))
        event == PrimaryEvent(t, c, topic, facts)
        kind == CaseKind(t, c)
        goal == NamedGoal(t)
        blocking == "AMB_DESTINO_JAZIGO_OU_CEMITERIO" \in Ambiguities(t, c)
        low == \/ event = "none" \/ goal.low \/ kind = "AMBIGUOUS"
               \/ \E k \in DOMAIN facts : facts[k].low
    IN [Unheard EXCEPT
          !.event = event, !.facts = facts, !.hint = t.hint, !.blocking = blocking,
          !.goal = IF event = "PARALLEL_QUESTION" THEN topic ELSE goal.code,
          !.goalLow = event # "PARALLEL_QUESTION" /\ goal.low,
          !.eventLow = \/ event = "NEW_GOAL" /\ goal.low
                       \/ event \in {"ANSWER", "COMPLEMENT"} /\ facts[1].low,
          !.caseKind = kind, !.caseLow = kind = "AMBIGUOUS",
          !.clarify = blocking \/ low]

-----------------------------------------------------------------------------
(* The language model of the current workflow.                             *)

Anchors == {"grave_reference", "grave_service_description", "complaint_description"}

\* official anchors of the text prevail over what the model says of it
ReconcileOfficialAnchors(t, c, llm) ==
    LET own == GuardInterpretation(Lexical(t, c))
        foreign == {f \in ToSet(llm.facts) : f.code \notin Anchors}
        anchors == {f \in ToSet(own.facts) : f.code \in Anchors}
        grave == About(t, c, "JAZIGO_SERVICOS")
                 \/ \E f \in ToSet(own.facts) : f.code \in Anchors \ {"complaint_description"}
        complaint == own.event = "COMPLAINT"
        anchored == [llm EXCEPT
            !.facts = Among(llm.facts, foreign) \o Among(own.facts, anchors),
            !.goal = IF own.goal # "none" THEN own.goal
                     ELSE IF c.goal = "JAZIGO_SERVICOS" THEN c.goal ELSE @,
            !.event = IF complaint THEN own.event ELSE @,
            !.clarify = IF complaint THEN own.clarify ELSE @]
    IN CASE \/ own.event = "SOCIAL" /\ Marks(t, {"greeting", "return"})
            \/ own.event = "HUMAN_REQUEST" -> own
         [] grave /\ own.event # "HUMAN_REQUEST" -> anchored
         [] OTHER -> llm

\* a provider that is disabled, fails, is late or breaks the schema is replaced
NoProposal == [kind |-> "failed"]
AdapterInterpret(t, c, proposal) ==
    LET heard == ReconcileOfficialAnchors(t, c, GuardInterpretation(proposal.heard))
        unsafe == \/ heard.blocking \/ heard.caseKind = "AMBIGUOUS" \/ heard.eventLow
                  \/ \E k \in DOMAIN heard.facts : heard.facts[k].confirm
    IN IF proposal = NoProposal THEN GuardInterpretation(Lexical(t, c))
       ELSE [heard EXCEPT !.clarify = @ \/ unsafe]

-----------------------------------------------------------------------------
(* What the planner reads in the text itself.                              *)

\* a return to an attendance that waits is answered with its status
ContextualStatus(s, t, i) ==
    LET g == ContextGoal(s) IN
    /\ g # 0 /\ s.goals[g].status = "WAITING" /\ i.caseKind = "CURRENT"
    /\ i.facts = <<>> /\ ~i.blocking
    /\ \/ Marks(t, {"greeting", "return", "status"}) /\ i.event \in {"none", "SOCIAL"}
       \/ /\ "repeated" \in t.says /\ s.goals[g].code = "EXUMACAO"
          /\ \/ i.event \in {"none", "SOCIAL"}
             \/ /\ i.goal = s.goals[g].code
                /\ i.event \in {"NEW_GOAL", "COMPLEMENT", "ANSWER"}

\* planTurn: an interpretation of t, by whoever read it, and what t itself says
PlanOf(s, t, i) ==
    Plan(s, [i EXCEPT !.status = ContextualStatus(s, t, GuardInterpretation(i)),
                      !.restart = "restart" \in t.says,
                      !.explained = "explanation" \in t.says])
=============================================================================
