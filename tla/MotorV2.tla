------------------------------- MODULE MotorV2 -------------------------------
(***************************************************************************)
(* Motor V2 on the official route: a provider classifies the text          *)
(* (motor-v2/providers), its labels are checked against a closed vocabulary*)
(* and against what the text itself says (motor-v2/understanding.ts), and  *)
(* the official interpreter turns both into one interpretation             *)
(* (_shared/motor-v2-official-interpreter.ts).  A provider that fails is   *)
(* replaced by the lexical interpreter (turn.ts).  The route is chosen by  *)
(* the canary gate, message by message (_shared/official-runtime-canary.ts)*)
(* The provider is external: it may answer anything, or not at all.        *)
(* An understanding is [subintents, states, changed, critical, risk,       *)
(* confidence, cites]: journeys and signals are left out, `cites' says     *)
(* whether the current turn is among its evidence.                         *)
(***************************************************************************)
EXTENDS LanguageInterpreter
LOCAL INSTANCE SequencesExt

CONSTANTS
    Texts,      \* what a citizen may write
    Replies,    \* what the provider may answer: [kind, says]
    Proposals,  \* what the model of the current workflow may propose
    MaxEvents,  \* bound on the events of the conversation
    Interpreter(_, _, _)  \* the interpreter planTurn is given: OfficialInterpretation

\* a text states facts in an order; what the adapter hands on passed its schema
ASSUME MotorAssumption ==
    /\ \A t \in Texts : t.facts \in Seq(ToSet(t.facts))
    /\ \A p \in Proposals \ {NoProposal} :
          /\ DOMAIN p.heard = DOMAIN Unheard
          /\ p.heard.facts \in Seq(ToSet(p.heard.facts))
          /\ p.heard.secondary \in Seq(ToSet(p.heard.secondary))

VARIABLES
    chat,   \* the state of the reducer
    heard   \* of the last message: what it was, and what was made of it
motorVars == <<chat, heard>>

-----------------------------------------------------------------------------
(* The closed vocabulary.                                                  *)

SubintentGoals ==
    [EXUMACAO |-> "EXUMACAO", RETIRAR_RESTOS |-> "EXUMACAO", DESTINO_OSSUARIO |-> "EXUMACAO",
     DESTINO_RESTOS |-> "EXUMACAO", CREMACAO |-> "EXUMACAO", CREMACAO_IMEDIATA |-> "EXUMACAO",
     CORPO_SEMI_INTACTO |-> "EXUMACAO", REINUMACAO |-> "EXUMACAO", TRASLADO |-> "TRANSPORTE",
     SEPULTAMENTO |-> "TRANSPORTE", RECADASTRO |-> "RECADASTRO", CONCESSAO |-> "CONCESSAO",
     SUCESSAO |-> "CONCESSAO", TRANSFERENCIA |-> "CONCESSAO", TITULARIDADE |-> "CONCESSAO",
     JAZIGO_GERAL |-> "JAZIGO_SERVICOS", LAPIDE_PLACA |-> "JAZIGO_SERVICOS",
     LIMPEZA_ZELADORIA |-> "JAZIGO_SERVICOS", MANUTENCAO_JAZIGO |-> "JAZIGO_SERVICOS",
     OBRA_REFORMA |-> "JAZIGO_SERVICOS", VISITA_JAZIGO |-> "JAZIGO_SERVICOS",
     PLANO_ZELADORIA |-> "JAZIGO_SERVICOS"]
MappedGoals == <<"EXUMACAO", "TRANSPORTE", "RECADASTRO", "CONCESSAO", "JAZIGO_SERVICOS">>
Complaints == {"RECLAMACAO_SEM_RETORNO", "RECLAMACAO_OPERACIONAL"}
RiskSubintents == {"DIVERGENCIA_FISICO_CADASTRAL", "CONFLITO_CADASTRAL_DOCUMENTO_LEGADO",
                   "RECUPERACAO_APOS_FALHA_DE_PAGAMENTO"}
Intents == DOMAIN SubintentGoals \cup Complaints \cup RiskSubintents
             \cup {"SUPORTE_DOCUMENTAL", "CONTRADICAO_ENTRE_CANAIS", "VELORIO"}
States == {"CONVERSATION_CLOSING", "MEDIA_NOT_ANALYZED"}
RiskRank == [none |-> 0, P3 |-> 1, P2 |-> 2, P1 |-> 3, P0 |-> 4]
Worst(levels) == CHOOSE l \in levels : \A k \in levels : RiskRank[k] <= RiskRank[l]

\* the boundary: shape, vocabulary and evidence
UnderstandingFields ==
    {"subintents", "states", "changed", "critical", "risk", "confidence", "cites"}
GuardUnderstanding(u) ==
    /\ DOMAIN u = UnderstandingFields
    /\ u.subintents \subseteq Intents /\ u.states \subseteq States
    /\ u.risk \in DOMAIN RiskRank /\ u.confidence \in {"low", "medium", "high"}

-----------------------------------------------------------------------------
(* What the text says by itself.                                           *)

\* restos, ossos or exumacao tell the cremation of remains from that of a body; a
\* transfer of remains is not one of rights
RemainsIntents == {"EXUMACAO", "RETIRAR_RESTOS", "DESTINO_OSSUARIO", "DESTINO_RESTOS",
                   "REINUMACAO", "CORPO_SEMI_INTACTO", "TRASLADO"}
GraveWorks == {"LAPIDE_PLACA", "LIMPEZA_ZELADORIA", "MANUTENCAO_JAZIGO", "OBRA_REFORMA",
               "VISITA_JAZIGO"}
IntentsFor(t) ==
    t.intents \ ((IF {"CREMACAO", "CREMACAO_IMEDIATA"} \subseteq t.intents
                  THEN {IF "remains" \in t.says THEN "CREMACAO_IMEDIATA" ELSE "CREMACAO"}
                  ELSE {})
                 \cup (IF "transferOfRemains" \in t.says /\ "rights" \notin t.says
                       THEN {"TRANSFERENCIA"} ELSE {}))

Subintents(t) ==
    LET found == IntentsFor(t)
        remains == found \cap RemainsIntents # {}
        cremated == remains /\ "CREMACAO_IMEDIATA" \in found
    IN (found \cup (IF cremated THEN {"CREMACAO"} ELSE {}))
         \ ((IF cremated THEN {"CREMACAO_IMEDIATA"} ELSE {})
            \cup (IF remains /\ "rights" \notin t.says THEN {"TRANSFERENCIA"} ELSE {})
            \cup (IF "CORPO_SEMI_INTACTO" \in found /\ found \cap GraveWorks = {}
                  THEN {"JAZIGO_GERAL"} ELSE {}))

\* formal P0 wording, what an intent entails, and a sensitive text without an intent
RiskFor(t, intents) ==
    Worst({"none"}
      \cup (IF Marks(t, {"unnaturalDeath", "semiIntact", "familyConflict", "ruleMissing",
                         "administrativeDecision", "documentAnalysis"}) THEN {"P0"} ELSE {})
      \cup (IF "losesRight" \in t.says /\ "CONTRADICAO_ENTRE_CANAIS" \in intents
            THEN {"P0"} ELSE {})
      \cup (IF intents = {} /\ "sensitive" \in t.says THEN {"P0"} ELSE {})
      \cup (IF Marks(t, {"urgent"}) \/ intents \cap RiskSubintents # {} THEN {"P1"} ELSE {})
      \cup (IF intents \cap (Complaints \cup {"SUPORTE_DOCUMENTAL"}) # {} THEN {"P2"} ELSE {}))

TransverseStates(t) ==
    (IF "courtesy" \in t.says THEN {"CONVERSATION_CLOSING"} ELSE {})
      \cup (IF "media" \in t.says THEN {"MEDIA_NOT_ANALYZED"} ELSE {})

\* understandMessages, of the message of this turn
UnderstandMessages(t) ==
    LET found == Subintents(t)
        risk == RiskFor(t, found)
    IN [subintents |-> found, states |-> TransverseStates(t), changed |-> FALSE,
        critical |-> risk = "P0" \/ Cardinality(found) >= 6, risk |-> risk,
        confidence |-> CASE found = {} -> "low"
                         [] Cardinality(found) = 1 -> "medium"
                         [] OTHER -> "high",
        cites |-> IntentsFor(t) # {}]

\* bug: the risk the provider tells
EnforceProviderRisk(t, u) == u
\* bug: the higher of the two, whatever the text says
EnforceHigherRisk(t, u) ==
    LET risk == Worst({RiskFor(t, IntentsFor(t)), u.risk})
    IN [u EXCEPT !.risk = risk, !.critical = @ \/ risk = "P0"]

\* the provider may raise a risk the text bears, never lower it nor make one up
EnforceDeterministicRisk(t, u) ==
    LET own == RiskFor(t, IntentsFor(t))
        risk == IF own = "none" THEN "none" ELSE Worst({own, u.risk})
    IN [u EXCEPT !.risk = risk, !.critical = @ \/ risk = "P0"]

-----------------------------------------------------------------------------
(* The official interpreter.                                               *)

SemanticGoals(u) == {SubintentGoals[i] : i \in u.subintents \cap DOMAIN SubintentGoals}
SemanticGoal(u) == IF Cardinality(SemanticGoals(u)) = 1 THEN CHOOSE g \in SemanticGoals(u) : TRUE
                   ELSE "none"
Corrects == {"CORRECTION", "CHANGE_OF_MIND"}
Completes == {"ANSWER", "COMPLEMENT"}

\* what the text says is added to what the provider said of it
MergeCurrentTurnSafetySignals(u, t, c) ==
    LET own == UnderstandMessages(t)
        sameCase == GuardInterpretation(Lexical(t, c)).event \in Corrects \cup Completes
        subintents == (u.subintents \ (RiskSubintents \ own.subintents)) \cup own.subintents
        changed == ~sameCase /\ u.changed
        switched == /\ ~sameCase /\ ~changed /\ c.open /\ c.goal # "none"
                    /\ SemanticGoal(own) \notin {"none", c.goal}
        evident == own.subintents # {} \/ own.states # {} \/ own.risk # "none"
    IN EnforceDeterministicRisk(t,
         [u EXCEPT !.subintents = subintents, !.states = @ \cup own.states,
                   !.changed = changed \/ switched, !.cites = @ \/ evident \/ switched])

\* the semantic route: what an understanding may do to the lexical interpretation
Medium(i, event, goal) ==
    [i EXCEPT !.event = event, !.goal = goal, !.goalLow = FALSE, !.eventLow = FALSE,
              !.clarify = FALSE]
OpensGoal(i, u, c) ==
    /\ i.goal = "none" /\ i.event = "none" /\ ~c.open /\ SemanticGoal(u) # "none"
    /\ "CONVERSATION_CLOSING" \notin u.states /\ u.risk = "none"
    /\ u.cites /\ u.confidence # "low" /\ ~i.blocking
LeavesGoal(i, base, u, c) ==
    /\ u.changed /\ SemanticGoal(u) # "none" /\ c.open
    /\ base.event \notin Corrects \cup Completes \cup {"NEW_GOAL"} /\ base.caseKind # "NEW"
    /\ i.event \notin {"HUMAN_REQUEST", "COMPLAINT"}
    /\ i.clarify => base.event = "none" /\ ~base.blocking
\* bug: an understanding that cites nothing of this turn
ReclassifiedUncited(i, base, u, c) == LeavesGoal(i, base, u, c)
Reclassified(i, base, u, c) == LeavesGoal(i, base, u, c) /\ u.cites

Several(base, u) ==
    base.event \notin Corrects \cup Completes /\ Cardinality(SemanticGoals(u)) > 1
Opened(base, u, c) ==
    IF OpensGoal(base, u, c) THEN Medium(base, "NEW_GOAL", SemanticGoal(u)) ELSE base
Redirected(i, base, u, c) ==
    IF Reclassified(i, base, u, c)
    THEN [Medium(i, "RECLASSIFICATION", SemanticGoal(u)) EXCEPT !.caseKind = "CURRENT"]
    ELSE i
Farewell(i, base, u) ==
    IF /\ "CONVERSATION_CLOSING" \in u.states /\ u.risk = "none"
       /\ ~Several(base, u) /\ base.event \notin Corrects \cup {"HUMAN_REQUEST"}
    THEN [i EXCEPT !.event = "SOCIAL", !.goal = "none", !.goalLow = FALSE,
                   !.eventLow = FALSE, !.secondary = <<>>, !.clarify = FALSE]
    ELSE i
WithTopics(i, others) ==
    [i EXCEPT !.clarify = FALSE,
              !.secondary = [k \in DOMAIN others |-> [goal |-> others[k], low |-> FALSE]]]

LowUnderstanding(u) == u.confidence = "low" \/ u.critical
MediaOf(u) == "MEDIA_NOT_ANALYZED" \in u.states
Unmapped(u) == u.subintents # {} /\ SemanticGoals(u) = {}
OwnGoals(t) == SemanticGoals(UnderstandMessages(t))
Peaceful(base, u) == ~MediaOf(u) /\ ~base.blocking /\ u.risk = "none"

\* the other goals are kept as parallel topics (in the order of the table, that of an
\* understanding is left out), at low confidence only those the text names itself
OtherGoals(i, u, t) ==
    Among(MappedGoals, (SemanticGoals(u) \ {i.goal})
                         \cap (IF LowUnderstanding(u) THEN OwnGoals(t) ELSE SemanticGoals(u)))
KeepsTopics(i, base, u, t) ==
    /\ Several(base, u) /\ i.event = "NEW_GOAL" /\ i.goal # "none"
    /\ OtherGoals(i, u, t) # <<>> /\ u.cites /\ ~Unmapped(u) /\ Peaceful(base, u)

\* what stays unsure is asked about; a lexical interpretation is never a
\* reclassification, safe or not
SafeLexical(base, u, t) ==
    /\ base.event \in Corrects \cup Completes \cup {"NEW_GOAL", "PARALLEL_QUESTION", "SOCIAL"}
    /\ \/ base.event \in Corrects \cup Completes \/ ~Several(base, u)
       \/ /\ base.event = "NEW_GOAL" \/ base.caseKind = "NEW"
          /\ Cardinality(OwnGoals(t)) <= 1
    /\ Peaceful(base, u)
Unsure(i, base, u, t) ==
    LET uncited == (SemanticGoals(u) # {} \/ u.changed \/ u.risk # "none") /\ ~u.cites
    IN \/ MediaOf(u)
       \/ /\ ~SafeLexical(base, u, t)
          /\ \/ (Several(base, u) \/ LowUnderstanding(u)) /\ ~KeepsTopics(i, base, u, t)
             \/ Unmapped(u) \/ uncited
Resolved(i, base, unsure, risk) ==
    [i EXCEPT !.clarify = (@ \/ unsure) /\ risk # "P0" /\ base.event # "HUMAN_REQUEST"]
Concluded(i, base, u, t) ==
    Resolved(IF KeepsTopics(i, base, u, t) THEN WithTopics(i, OtherGoals(i, u, t)) ELSE i,
             base, Unsure(i, base, u, t), u.risk)

ApplyUnderstanding(base, u, t, c) ==
    Concluded(Farewell(Redirected(Opened(base, u, c), base, u, c), base, u), base, u, t)

\* MotorV2OfficialInterpreter.interpret; what the confidence matrix reads of it
OfficialInterpretation(provided, t, c) ==
    LET u == MergeCurrentTurnSafetySignals(provided, t, c)
        base == GuardInterpretation(Lexical(t, c))
        integrated == [ApplyUnderstanding(base, u, t, c) EXCEPT
                          !.p0 = u.risk = "P0", !.media = "MEDIA_NOT_ANALYZED" \in u.states,
                          !.intentChanged = u.changed,
                          !.closing = "CONVERSATION_CLOSING" \in u.states]
    IN IF u.risk = "P0"
       THEN [integrated EXCEPT !.event = "HUMAN_REQUEST", !.clarify = FALSE,
                               !.eventLow = u.confidence = "low"]
       ELSE [integrated EXCEPT !.clarify = @ \/ integrated.media]

-----------------------------------------------------------------------------
(* One turn of a conversation.                                             *)

\* what becomes of the provider's answer: an understanding, or a failure that is
\* thrown (failOnFallback) and named by turn.ts
Failure == [kind |-> "failure"]
Understand(reply) ==
    IF reply.kind = "answer" /\ GuardUnderstanding(reply.says) THEN reply.says ELSE Failure

MotorV2Plan(s, t, reply) ==
    LET u == Understand(reply)
        c == ContextOf(s)
    IN PlanOf(s, t, IF u = Failure THEN Lexical(t, c) ELSE Interpreter(u, t, c))
WorkflowPlan(s, t, proposal) == PlanOf(s, t, AdapterInterpret(t, ContextOf(s), proposal))

NoText == [says |-> {}, goals |-> <<>>, topic |-> "none", facts |-> <<>>, hint |-> "none",
           intents |-> {}]

\* what the properties tell messages apart by: what the text is by itself (its
\* risk, whether it asks for a person or navigates, whether the lexical
\* interpreter finds an event) and what the provider said of it
OwnRisk(t) == RiskFor(t, IntentsFor(t))
Heard(s, t, answer) ==
    LET c == ContextOf(s) IN
    [risk |-> OwnRisk(t), asks |-> AsksPerson(t, c),
     navigates |-> Marks(t, {"restart", "explanation"}),
     event |-> Lexical(t, c).event # "none",
     answer |-> IF answer \in {Failure, NoProposal} THEN "failed" ELSE answer.confidence,
     cites |-> answer # Failure /\ MergeCurrentTurnSafetySignals(answer, t, c).cites]
Silence == [answer |-> "none"]
MotorInit == chat = InitState /\ heard = Silence

\* a conversation handed to a person is not planned for
MayHear == chat.handoff = NoHandoff /\ chat.seq + 2 <= MaxEvents
HearByMotorV2(t, reply) ==
    /\ MayHear /\ heard' = Heard(chat, t, Understand(reply))
    /\ \E p \in {MotorV2Plan(chat, t, reply)} : chat' = p.state
HearByWorkflow(t, proposal) ==
    /\ MayHear /\ heard' = Silence
    /\ \E p \in {WorkflowPlan(chat, t, proposal)} : chat' = p.state

\* the gate reads the configuration at each message: the route may change at any
MotorNext ==
    \/ \E t \in Texts, reply \in Replies : HearByMotorV2(t, reply)
    \/ \E t \in Texts, proposal \in Proposals : HearByWorkflow(t, proposal)
MotorSpec == MotorInit /\ [][MotorNext]_motorVars

-----------------------------------------------------------------------------
(* What a provider can do to a citizen.                                    *)

ByMotorV2 == heard.answer # "none"
Understood == heard.answer \in {"low", "medium", "high"}

\* A text that bears a formal P0 signal hands the conversation to the team,
\* whatever the provider answered about it, whatever else the text says and
\* whatever the conversation was at (enforceDeterministicRisk to the reducer).
P0ReachesTeam ==
    Understood /\ heard.risk = "P0" /\ ~heard.navigates => chat.handoff # NoHandoff

\* No conversation is handed over on the word of a provider alone: the citizen
\* asked for a person or wrote something the rules call a risk.
HandoffHasGrounds ==
    ByMotorV2 /\ chat.handoff # NoHandoff => heard.asks \/ heard.risk # "none"

\* A classification that cites nothing the citizen wrote in this turn moves
\* nothing by itself: where the text is no event either, no goal is opened or
\* left and no fact changes (semantic claims without evidence fail closed).
UncitedHintsFailClosed ==
    [][Understood' /\ ~heard'.cites /\ ~heard'.event =>
         chat'.goals = chat.goals /\ chat'.facts = chat.facts]_motorVars

\* "Risco P0 exige handoff P0." (phase17/final-report/ARCHITECTURE.md): also when
\* the provider does not answer.
P0SurvivesFailover ==
    ByMotorV2 /\ heard.risk = "P0" /\ ~heard.navigates => chat.handoff # NoHandoff

\* "V2 low confidence remains a clarification instead of an official transition"
\* (_shared/tests/motor-v2-official-interpreter_test.ts).
LowConfidenceClarifies ==
    [][heard'.answer = "low" /\ ~heard'.event /\ heard'.risk = "none" =>
         chat'.goals = chat.goals]_motorVars
=============================================================================
