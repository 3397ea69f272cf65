------------------------------ MODULE Dialogue ------------------------------
(***************************************************************************)
(* One conversation of the official runtime, between its citizen and its   *)
(* operators: the turns of the citizen (runtime/official_turn_service.ts), *)
(* the files received (engine/documento.ts), the commands of the operator  *)
(* (runtime/official_operations.ts, _shared/official-operator.ts) and the  *)
(* service requests every one of them refreshes (engine/solicitacao.ts).   *)
(* The store serialises the conversation (see OfficialRuntime), so that    *)
(* each of them is one step here.                                          *)
(***************************************************************************)
EXTENDS TurnPlanning
LOCAL INSTANCE SequencesExt
LOCAL INSTANCE FiniteSetsExt

CONSTANTS
    Interpretations, \* what the interpreters may propose for a message
    Captions,        \* bound: those a file may come with
    Openings,        \* bound: those a conversation without goals starts with
    Decisions,       \* the facts and values an operator may decide
    MaxSeq,          \* bound on the events of the conversation
    MaxDocs,         \* bound on the files received
    FileName         \* what is recorded of each file: its identifier

VARIABLES
    conv,     \* the state of the reducer
    docs,     \* the files received, in order
    requests, \* the service request of a goal, if it has one
    mode,     \* "bot" or "human": who answers the citizen
    plan      \* the outcome of the last turn and the error of the reducer, if any

vars == <<conv, docs, requests, mode, plan>>

\* what is proposed is an interpretation: its lists are lists, its goals goals
ASSUME DialogueAssumption ==
    /\ DefaultBase \in DOMAIN GoalDef
    /\ \A i \in Interpretations :
          /\ DOMAIN i = InterpretationFields
          /\ i.facts \in Seq(ToSet(i.facts)) /\ i.secondary \in Seq(ToSet(i.secondary))
          /\ i.goal \in DOMAIN GoalDef \cup {"none"}
          /\ \A k \in DOMAIN i.secondary : i.secondary[k].goal \in DOMAIN GoalDef

NoPlan == [outcome |-> "none", error |-> "none"]
Identities == {"requester_document", "recadastro_holder_document"}

Init ==
    /\ conv = InitState /\ docs = <<>> /\ requests = <<>>
    /\ mode = "bot" /\ plan = NoPlan

-----------------------------------------------------------------------------
(* Service requests.                                                       *)

PendingOf(s, g) == {a \in s.actions : a.goal = g}
HandoffOwner(s) ==
    IF s.handoff = NoHandoff THEN 0
    ELSE Newest({g \in DOMAIN s.goals : /\ s.goals[g].code = s.handoff.code
                                        /\ s.goals[g].case = s.handoff.case})

\* bug: only what is complete, or asked for a person, reaches the team
ReadyWhenComplete(s, g) ==
    /\ ~GoalDef[s.goals[g].code].informational
    /\ s.goals[g].status # "ABANDONED"
    /\ g = HandoffOwner(s) \/ s.goals[g].status = "RESOLVED"

\* a goal the team has to look at: it waits for an action, the citizen asked for
\* a person while on it, or its collection is complete
Ready(s, g) ==
    LET owner == HandoffOwner(s)
        base == s.goals[g].overlay
    IN /\ ~GoalDef[s.goals[g].code].informational
       /\ s.goals[g].status # "ABANDONED"
       /\ \/ PendingOf(s, g) # {}
          \/ owner # 0 /\ (g = owner \/ base = owner)
          \/ s.goals[g].status = "RESOLVED" /\ (base = 0 \/ s.goals[base].status = "RESOLVED")

Category(s, g) ==
    CASE s.goals[g].code = Complaint /\ s.goals[g].overlay # 0 -> "RECLAMACAO"
      [] s.goals[g].code = "COMERCIAL" -> "VENDA"
      [] OTHER -> "ENCAMINHAMENTO_ADMINISTRACAO"

CreateSolicitacao(s, g) ==
    [goal |-> g, category |-> Category(s, g), opened |-> s.seq,
     overlay |-> IF Category(s, g) = "RECLAMACAO" THEN s.goals[g].overlay ELSE 0,
     actions |-> {}, facts |-> {}, question |-> "none"]

\* what the team reads: refreshed while the goal is ready, left as it was otherwise
Refreshed(s, r) ==
    [r EXCEPT !.actions = {a.action : a \in PendingOf(s, r.goal)},
              !.facts = ActiveFactsForGoalCase(s, r.goal),
              !.question = IF s.question.goal = r.goal THEN s.question.fact ELSE "none"]

RequestOf(rs, g) == {i \in DOMAIN rs : rs[i].goal = g}
WithOperationalRequests(s, rs) ==
    LET visit(out, g) ==
            CASE ~Ready(s, g) -> out
              [] Ready(s, g) /\ RequestOf(out, g) = {} ->
                    Append(out, Refreshed(s, CreateSolicitacao(s, g)))
              [] OTHER -> [i \in DOMAIN out |-> IF out[i].goal = g THEN Refreshed(s, out[i])
                                                ELSE out[i]]
    IN FoldLeft(visit, rs, [g \in DOMAIN s.goals |-> g])

-----------------------------------------------------------------------------
(* The citizen.                                                            *)

ProjectedGoal(s) ==
    IF ContextGoal(s) # 0 THEN ContextGoal(s)
    ELSE LET bases == {g \in DOMAIN s.goals : s.goals[g].overlay = 0}
         IN IF bases # {} THEN Max(bases) ELSE Len(s.goals)

\* a file is filed under the identity that was asked for, if one was
WithReceivedDocument(s, ds) ==
    LET focus == IF s.question # NoQuestion THEN s.question.goal ELSE ProjectedGoal(s)
    IN Append(ds, [case |-> IF focus = 0 THEN 0 ELSE s.goals[focus].case,
                   type |-> IF s.question.fact \in Identities THEN s.question.fact ELSE "other",
                   state |-> "RECEBIDO"])

PanelMode(s) == IF s.handoff = NoHandoff THEN "bot" ELSE "human"

\* processOfficialTurn with a plan: nothing is planned while a person answers
Turn(outcome, error, next, file) ==
    /\ conv' = next
    /\ docs' = IF file THEN WithReceivedDocument(next, docs) ELSE docs
    /\ requests' = WithOperationalRequests(next, requests)
    /\ mode' = PanelMode(next)
    /\ plan' = [outcome |-> outcome, error |-> error]

MayReceive(file) == file => Len(docs) < MaxDocs

Message(i, file) ==
    /\ mode = "bot" /\ MayReceive(file) /\ (file => i \in Captions)
    /\ conv.seq + 2 <= MaxSeq
    /\ conv.goals = <<>> => i \in Openings
    /\ \E p \in {Planned(conv, i)} : Turn(p.outcome, p.error, p.state, file)

\* an official information is answered beside the conversation
Information ==
    /\ mode = "bot" /\ conv.handoff = NoHandoff
    /\ conv.seq < MaxSeq
    /\ Turn("PROPOSED", "none", [conv EXCEPT !.seq = @ + 1], FALSE)

MessageToPerson(file) ==
    /\ mode = "human" /\ MayReceive(file)
    /\ docs' = IF file THEN WithReceivedDocument(conv, docs) ELSE docs
    /\ plan' = [NoPlan EXCEPT !.outcome = "HUMAN_ACTIVE"]
    /\ UNCHANGED <<conv, requests, mode>>

-----------------------------------------------------------------------------
(* The operator.                                                           *)

\* what an operator may decide for a pending action of an open goal
ActionFacts(s, a) ==
    IF s.goals[a.goal].status \notin OpenStatuses THEN {}
    ELSE {m.code : m \in {x \in ToSet(MissingFacts(s, a.goal)) :
                              Resolution[x.code] = a.action}}

\* what an authorisation is about must be known before it is granted
IdentityOf(code, value) ==
    CASE code = "exhumation_authorization" /\ value \in FactDef[code].accepts ->
            {"burial_reference", "requester_document"}
      [] code = "destination_grave_authorization" /\ value \in FactDef[code].accepts ->
            {"destination_grave_reference", "requester_document"}
      [] OTHER -> {}
Identified(s, g, code) ==
    LET i == ActiveFact(s, code, g) IN
    i # 0 /\ s.facts[i].confidence = "CONFIRMED" /\ s.facts[i].conflict = 0

Signal(g, code, value, source) ==
    [kind |-> "SIGNAL", target |-> g,
     facts |-> <<[code |-> code, value |-> value, source |-> source,
                  confidence |-> "CONFIRMED", authoritative |-> TRUE]>>]

\* a command that fails changes nothing; one that succeeds refreshes the requests
Commanded(next, ds, to) ==
    /\ next.error = "none"
    /\ conv' = next /\ docs' = ds /\ mode' = to
    /\ requests' = WithOperationalRequests(next, requests)
    /\ plan' = NoPlan
ModeAfter(s) == IF mode = "bot" THEN PanelMode(s) ELSE "human"

ResolveAction(a, d) ==
    /\ conv.seq < MaxSeq
    /\ a \in conv.actions /\ d.fact \in ActionFacts(conv, a)
    /\ \A code \in IdentityOf(d.fact, d.value) : Identified(conv, a.goal, code)
    /\ \E next \in {React(conv, Signal(a.goal, d.fact, d.value, "SYSTEM"))} :
          Commanded(next, docs, ModeAfter(next))

MayBecome(state) ==
    CASE state = "RECEBIDO" -> {"ACEITO", "ILEGIVEL"}
      [] OTHER -> {}

\* a file is accepted or refused, and on its own proves nothing
ReviewDocument(d, verdict) ==
    /\ conv.seq < MaxSeq
    /\ verdict \in MayBecome(docs[d].state)
    /\ LET next == [conv EXCEPT !.seq = @ + 1]
       IN Commanded(next, [docs EXCEPT ![d].state = verdict], ModeAfter(next))

\* accepted as the identity a goal asks for, it is recorded as a fact
ClassifyDocument(d, g, code) ==
    /\ conv.seq + 2 <= MaxSeq
    /\ docs[d].state = "ACEITO" \/ "ACEITO" \in MayBecome(docs[d].state)
    /\ conv.goals[g].status \in OpenStatuses
    /\ code \in ToSet(GoalDef[conv.goals[g].code].required)
    /\ docs[d].case \in {0, conv.goals[g].case}
    /\ \E next \in {React([conv EXCEPT !.seq = @ + 1],
                          Signal(g, code, FileName[d], "DOCUMENT"))} :
          Commanded(next, [docs EXCEPT ![d] = [case |-> conv.goals[g].case, type |-> code,
                                               state |-> "ACEITO"]],
                    ModeAfter(next))

Resume ==
    /\ conv.seq < MaxSeq
    /\ \E next \in {React([conv EXCEPT !.handoff = NoHandoff], EventOf("SOCIAL", <<>>))} :
          Commanded(next, docs, "bot")

\* the panel: a person takes the conversation over
TakeOver ==
    /\ mode = "bot" /\ conv.goals # <<>>
    /\ mode' = "human"
    /\ UNCHANGED <<conv, docs, requests, plan>>

Next ==
    \/ \E file \in BOOLEAN : \/ \E i \in Interpretations : Message(i, file)
                             \/ MessageToPerson(file)
    \/ Information
    \/ \E a \in conv.actions, d \in Decisions : ResolveAction(a, d)
    \/ \E d \in DOMAIN docs :
          \/ \E verdict \in {"ACEITO", "ILEGIVEL"} : ReviewDocument(d, verdict)
          \/ \E g \in DOMAIN conv.goals, code \in Identities : ClassifyDocument(d, g, code)
    \/ Resume \/ TakeOver

Spec == Init /\ [][Next]_vars

-----------------------------------------------------------------------------
(* Properties.                                                             *)

Of(i) == conv.facts[i]
Active == {i \in DOMAIN conv.facts : Of(i).status = "ACTIVE"}

\* Fact i was established for what fact k says of the same case.
RestsOn(i, k) ==
    Of(k).code \in FactDef[Of(i).code].depends /\ CaseOf(conv, k) = CaseOf(conv, i)

\* A decision of the administration about a case stands only while what it was
\* based on stands: nothing it depends on was corrected or contradicted since then.
DecisionsStand ==
    \A i \in {j \in Active : Of(j).authoritative /\ FactDef[Of(j).code].authority} :
        \A k \in DOMAIN conv.facts :
            RestsOn(i, k) /\ CaseOf(conv, k) # 0
            => IF Of(k).status = "ACTIVE" THEN Of(k).conflict = 0 ELSE Of(k).supAt <= Of(i).at

\* Every conclusion in force was drawn from facts still in force.
ConclusionsHaveGrounds ==
    \A i \in Active : Of(i).from \subseteq Active

\* A goal that waits can be helped: an operator has a decision to take for it.
NoDeadEnd ==
    \A g \in GoalsWith(conv, {"WAITING"}) :
        \E a \in PendingOf(conv, g) : ActionFacts(conv, a) # {}

\* The question put to the citizen is one an answer settles.
QuestionIsAnswerable ==
    conv.question # NoQuestion => QuestionStillValid(conv, conv.question)

\* A goal left aside is owed something: a subflow still open returns to it, or
\* the citizen abandoned the one it needed.
SuspensionIsOwed ==
    \A g \in GoalsWith(conv, {"SUSPENDED"}) :
        \/ conv.goals[g].reason.why = "BLOCKED_BY_ABANDONED_SUBFLOW"
        \/ \E o \in GoalsWith(conv, OpenStatuses) : /\ conv.goals[o].parent = g
                                                    /\ conv.goals[o].returns

\* What the team is asked to do is on its list: every pending action and every
\* request for a person belongs to a goal with a service request.
TeamHasRequest ==
    /\ \A a \in conv.actions :
          \/ conv.goals[a.goal].status = "ABANDONED"
          \/ GoalDef[conv.goals[a.goal].code].informational
          \/ RequestOf(requests, a.goal) # {}
    /\ mode = "bot" => conv.handoff = NoHandoff

\* A transport of remains still buried is complete only after their exhumation is:
\* TRANSPORTE_REQUIRES_EXUMACAO in the catalogue of relations.
PrerequisiteFirst ==
    \A g \in GoalsWith(conv, {"RESOLVED"}), e \in GoalsWith(conv, OpenStatuses) :
        ~(/\ conv.goals[g].code = "TRANSPORTE" /\ conv.goals[e].code = "EXUMACAO"
          /\ conv.goals[g].case = conv.goals[e].case)

\* A request for a person leaves the pending question as it was, for the
\* conversation to go on with: preserve_pending_question in the catalogue of events.
HandoffKeepsQuestion ==
    [][conv.handoff = NoHandoff /\ conv'.handoff # NoHandoff
       => conv'.question = conv.question]_vars

\* What was recorded stays: a fact keeps its words whatever follows it, and one that
\* no longer counts is never touched again, not even by what it fell with.
Recorded ==
    \A i \in DOMAIN conv.facts :
        /\ i \in DOMAIN conv'.facts
        /\ \A f \in {"code", "value", "owner", "at", "from"} : conv'.facts[i][f] = Of(i)[f]
        /\ Of(i).status # "ACTIVE" => conv'.facts[i] = Of(i)
RecordStays == [][Recorded]_vars

\* A fact was corrected, replaced, or contradicted by another one.
Shaken(k) == \/ conv'.facts[k].status # "ACTIVE"
             \/ conv'.facts[k].conflict \notin {0, Of(k).conflict}

\* What was established for a fact falls when the fact does or is contradicted,
\* "Fatos que dependem do codigo alterado sao recalculados (invalidados)": also of
\* a goal that has no case.
DependentsFall ==
    [][\A i, k \in Active : RestsOn(i, k) /\ Shaken(k) => conv'.facts[i].status # "ACTIVE"]_vars

\* The history of a conversation: what was recorded stays, and within a case
\* nothing outlives what it was established for, at any distance.
FactsOnRecord ==
    [][/\ Recorded
       /\ \A i, k \in Active : RestsOn(i, k) /\ CaseOf(conv, k) # 0 /\ Shaken(k)
                               => conv'.facts[i].status # "ACTIVE"]_vars

\* The rules of the catalogue always come to rest: no turn is lost to the bound
\* on their rounds.
Converges == plan.error \notin {"RELATIONS_DIVERGE", "GOALS_DIVERGE"}
=============================================================================
