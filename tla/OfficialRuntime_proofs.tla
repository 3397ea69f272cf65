----------------------- MODULE OfficialRuntime_proofs -----------------------
(***************************************************************************)
(* Theorems of the official route: the store under its functions, the      *)
(* executions that call them, then the deliveries.                         *)
(***************************************************************************)
EXTENDS OfficialRuntime, SequenceTheorems, FiniteSetTheorems, TLAPS

-----------------------------------------------------------------------------
(***************************************************************************)
(* What holds of the store for every set of messages, commands, goals and  *)
(* catalogs, whatever the callers of its functions pass: the types, and    *)
(* the single numbering of turn events and operator events.                *)
(***************************************************************************)

\* The reply a commit puts into the outbox is a row of the outbox.
LEMMA QueuedReplyType ==
    ASSUME TypeOK, NEW began \in Nat, NEW ack \in BOOLEAN, NEW announces \in SUBSET Goals
    PROVE  QueuedReply(began, ack, announces) \in Replies
  <1>1. cs.revision + 1 \in Nat
    BY DEF TypeOK
  <1>2. NoReply \in Replies
    BY DEF NoReply, Replies
  <1> QED
    BY <1>1, <1>2 DEF QueuedReply, Replies

\* project_conversation leaves a well-formed conversation row.
LEMMA ProjectType ==
    ASSUME TypeOK, NEW mode \in Modes, NEW next \in States
    PROVE  Project(mode, next) \in Conversations
  <1>1. QueueOf(mode, next) \in {"inbox", "waiting_citizen", "closed"}
    BY DEF QueueOf
  <1>2. conv \in Conversations /\ conv.version + 1 \in Nat
    BY DEF TypeOK, Conversations
  <1> QED
    BY <1>1, <1>2 DEF Project, Conversations

\* A state that knows a request knows only goals: so does the panel's table.
LEMMA StoreStateType ==
    ASSUME TypeOK, NEW catalog \in Catalogs, NEW next \in States
    PROVE  /\ StoreState(catalog, next) \in
                [revision : Nat, catalog : Catalogs \cup {NoCatalog}, state : States]
           /\ Materialized(next) \in SUBSET Goals
  BY DEF StoreState, Materialized, TypeOK, States

LEMMA InitType == Init => TypeOK
  <1> SUFFICES ASSUME Init PROVE TypeOK
    OBVIOUS
  <1>1. NullState \in States
    BY DEF NullState, States
  <1>2. NoEvent \in Events
    BY DEF NoEvent, Events, Outcomes, NoCatalog
  <1>3. NoReply \in Replies
    BY DEF NoReply, Replies
  <1>4. conv \in Conversations
    BY DEF Init, Conversations, Modes
  <1> QED
    <2>1. cs \in [revision : Nat, catalog : Catalogs \cup {NoCatalog}, state : States]
      BY <1>1 DEF Init
    <2>2. event \in [Inputs -> Events] /\ outbox \in [Inputs -> Replies]
      BY <1>2, <1>3 DEF Init
    <2> QED
      BY <1>4, <2>1, <2>2 DEF Init, TypeOK

LEMMA AcquireInboundType ==
    ASSUME TypeOK, NEW i \in Inbound, NEW catalog \in Catalogs, AcquireInbound(i, catalog)
    PROVE  TypeOK'
  <1>1. conv' \in Conversations
    <2>1. conv \in Conversations /\ conv.version + 1 \in Nat
      BY DEF TypeOK, Conversations
    <2> QED
      BY <2>1 DEF AcquireInbound, Conversations
  <1>2. cs' \in [revision : Nat, catalog : Catalogs \cup {NoCatalog}, state : States]
    BY DEF AcquireInbound, TypeOK
  <1>3. receipt' \in [Inbound -> {"NONE", "RECEIVED", "COMMITTED", "HUMAN_ACTIVE"}]
    BY DEF AcquireInbound, TypeOK
  <1> QED
    BY <1>1, <1>2, <1>3 DEF AcquireInbound, TypeOK

LEMMA CommitTurnType ==
    ASSUME TypeOK, NEW i \in Inbound, NEW expected, NEW catalog \in Catalogs, NEW next \in States,
           NEW outcome \in Outcomes, NEW reply \in BOOLEAN, NEW projected \in Modes,
           NEW began \in Nat, NEW announces \in SUBSET Goals,
           CommitTurn(i, expected, catalog, next, outcome, reply, projected, began, announces)
    PROVE  TypeOK'
  <1> DEFINE mode   == TurnMode(projected)
             queued == reply /\ conv.mode = "bot"
  <1>1. i \in Inputs /\ mode \in Modes
    BY DEF Inputs, TurnMode, TypeOK, Conversations
  <1>2. conv' \in Conversations
    BY <1>1, ProjectType DEF CommitTurn
  <1>3. /\ cs' \in [revision : Nat, catalog : Catalogs \cup {NoCatalog}, state : States]
        /\ requests' \in SUBSET Goals
    BY StoreStateType DEF CommitTurn
  <1>4. receipt' \in [Inbound -> {"NONE", "RECEIVED", "COMMITTED", "HUMAN_ACTIVE"}]
    BY DEF CommitTurn, TypeOK
  <1>5. event' \in [Inputs -> Events]
    <2>1. [revision |-> cs.revision + 1, outcome |-> outcome, catalog |-> catalog,
           replied |-> queued] \in Events
      BY DEF TypeOK, Events
    <2> QED
      BY <1>1, <2>1 DEF CommitTurn, TypeOK
  <1>6. outbox' \in [Inputs -> Replies]
    <2>1. QueuedReply(began, mode = "human" /\ next.handoff, announces) \in Replies
      BY QueuedReplyType DEF States
    <2> QED
      BY <1>1, <2>1 DEF CommitTurn, TypeOK
  <1> QED
    BY <1>2, <1>3, <1>4, <1>5, <1>6 DEF TypeOK, CommitTurn

LEMMA CommitOperatorType ==
    ASSUME TypeOK, NEW c \in Commands, NEW expected, NEW control, NEW catalog \in Catalogs,
           NEW next \in States, NEW reply \in BOOLEAN, NEW projected \in Modes,
           NEW began \in Nat, NEW announces \in SUBSET Goals,
           CommitOperator(c, expected, control, catalog, next, reply, projected, began, announces)
    PROVE  TypeOK'
  <1> DEFINE mode   == OperatorMode(c, projected)
             queued == reply /\ mode = "bot"
  <1>1. c \in Inputs /\ mode \in Modes
    BY DEF Inputs, OperatorMode, TurnMode, TypeOK, Conversations, Modes
  <1>2. conv' \in Conversations
    BY <1>1, ProjectType DEF CommitOperator
  <1>3. /\ cs' \in [revision : Nat, catalog : Catalogs \cup {NoCatalog}, state : States]
        /\ requests' \in SUBSET Goals
    BY StoreStateType DEF CommitOperator
  <1>4. event' \in [Inputs -> Events]
    <2>1. [revision |-> cs.revision + 1, outcome |-> "OPERATOR", catalog |-> catalog,
           replied |-> queued] \in Events
      BY DEF TypeOK, Events, Outcomes
    <2> QED
      BY <1>1, <2>1 DEF CommitOperator, TypeOK
  <1>5. outbox' \in [Inputs -> Replies]
    <2>1. QueuedReply(began, FALSE, announces) \in Replies
      BY QueuedReplyType
    <2> QED
      BY <1>1, <2>1 DEF CommitOperator, TypeOK
  <1> QED
    BY <1>2, <1>3, <1>4, <1>5 DEF TypeOK, CommitOperator

\* The four calls on a row of the outbox, and the time that passes over it.
LEMMA DeliveryType ==
    ASSUME TypeOK, NEW x \in Inputs,
           \/ Claim(x) \/ CancelStale(x) \/ ClaimExpires(x)
           \/ \E s \in {"SENT", "FAILED"} : Settle(x, s)
    PROVE  TypeOK'
  <1>1. outbox' \in [Inputs -> Replies]
    <2>1. outbox[x] \in Replies
      BY DEF TypeOK
    <2>2. CASE Claim(x)
      BY <2>1, <2>2 DEF Claim, TypeOK, Replies
    <2>3. CASE CancelStale(x)
      BY <2>1, <2>3 DEF CancelStale, TypeOK, Replies
    <2>4. CASE ClaimExpires(x)
      BY <2>1, <2>4 DEF ClaimExpires, TypeOK, Replies
    <2>5. ASSUME NEW s \in {"SENT", "FAILED"}, Settle(x, s)
          PROVE  outbox' \in [Inputs -> Replies]
      BY <2>1, <2>5 DEF Settle, TypeOK, Replies
    <2> QED
      BY <2>2, <2>3, <2>4, <2>5
  <1> QED
    BY <1>1 DEF TypeOK, Claim, CancelStale, ClaimExpires, Settle

LEMMA SetAutomationModeType ==
    ASSUME TypeOK, NEW m \in Modes, NEW began \in Nat, SetAutomationMode(m, began)
    PROVE  TypeOK'
  <1>1. conv \in Conversations /\ conv.version + 1 \in Nat
    BY DEF TypeOK, Conversations
  <1>2. PanelQueue(m) \in {"inbox", "waiting_citizen", "closed"}
    BY <1>1 DEF PanelQueue, Conversations
  <1>3. TakeoverAt(m, began) \in Nat
    BY <1>1 DEF TakeoverAt, Conversations
  <1>4. conv' \in Conversations
    BY <1>1, <1>2, <1>3 DEF SetAutomationMode, PanelMode, Conversations
  <1> QED
    BY <1>4 DEF TypeOK, SetAutomationMode

LEMMA UpgradeCatalogType ==
    ASSUME TypeOK, NEW from \in Catalogs, NEW to \in Catalogs, UpgradeCatalog(from, to)
    PROVE  TypeOK'
  BY DEF TypeOK, UpgradeCatalog

LEMMA NextType == TypeOK /\ [Next]_store => TypeOK'
  <1> SUFFICES ASSUME TypeOK, [Next]_store PROVE TypeOK'
    OBVIOUS
  <1>1. ASSUME NEW i \in Inbound, NEW k \in Catalogs, AcquireInbound(i, k) PROVE TypeOK'
    BY <1>1, AcquireInboundType
  <1>2. CASE AnyTurn
    <2>1. PICK i \in Inbound, e \in 0 .. Cardinality(Inputs), k \in Catalogs, s \in StoredStates,
               o \in TurnOutcomes, r \in BOOLEAN, m \in {"bot", "human"}, b \in Begun,
               a \in SUBSET Goals : CommitTurn(i, e, k, s, o, r, m, b, a)
      BY <1>2 DEF AnyTurn
    <2>2. s \in States /\ o \in Outcomes /\ m \in Modes /\ b \in Nat
      BY DEF StoredStates, Outcomes, Modes, Begun
    <2> QED
      BY <2>1, <2>2, CommitTurnType
  <1>3. CASE AnyCommand
    <2>1. PICK c \in Commands, e \in 0 .. Cardinality(Inputs), v \in 1 .. conv.version,
               k \in Catalogs, s \in StoredStates, r \in BOOLEAN, m \in {"bot", "human"},
               b \in Begun, a \in SUBSET Goals : CommitOperator(c, e, v, k, s, r, m, b, a)
      BY <1>3 DEF AnyCommand
    <2>2. s \in States /\ m \in Modes /\ b \in Nat
      BY DEF StoredStates, Modes, Begun
    <2> QED
      BY <2>1, <2>2, CommitOperatorType
  <1>4. CASE AnyDelivery
    BY <1>4, DeliveryType DEF AnyDelivery
  <1>5. ASSUME NEW m \in Modes, NEW b \in Begun, SetAutomationMode(m, b) PROVE TypeOK'
    BY <1>5, SetAutomationModeType DEF Begun
  <1>6. ASSUME NEW f \in Catalogs, NEW t \in Catalogs, UpgradeCatalog(f, t) PROVE TypeOK'
    BY <1>6, UpgradeCatalogType
  <1>7. CASE UNCHANGED store
    BY <1>7 DEF store, TypeOK
  <1> QED
    BY <1>1, <1>2, <1>3, <1>4, <1>5, <1>6, <1>7 DEF Next

\* Whatever its callers pass, the store keeps rows of the declared shape.
THEOREM StoreTypeOK == Spec => []TypeOK
  BY InitType, NextType, PTL DEF Spec

(***************************************************************************)
(* The single numbering of the two event tables                            *)
(***************************************************************************)

\* Giving the next number to an input that has none keeps the numbering.
LEMMA NextNumber ==
    ASSUME TypeOK, RevisionLog, NEW x \in Inputs, event[x].revision = 0, NEW e \in Events,
           e.revision = cs.revision + 1, event' = [event EXCEPT ![x] = e],
           cs'.revision = cs.revision + 1
    PROVE  RevisionLog'
  <1> DEFINE num(y) == event[y].revision
  <1>1. /\ cs.revision \in Nat
        /\ \A y \in Inputs : num(y) \in Nat
    BY DEF TypeOK, Events
  <1>2. \A y \in Inputs : event'[y].revision = IF y = x THEN cs.revision + 1 ELSE num(y)
    BY DEF TypeOK
  <1>3. \A y \in Inputs : event'[y].revision <= cs'.revision
    BY <1>1, <1>2 DEF RevisionLog
  <1>4. ASSUME NEW y \in Inputs, NEW z \in Inputs, y # z,
               event'[y].revision = event'[z].revision
        PROVE  event'[y].revision = 0
    BY <1>1, <1>2, <1>4 DEF RevisionLog
  <1>5. ASSUME NEW r \in 1 .. cs'.revision
        PROVE  \E y \in Inputs : event'[y].revision = r
    <2>1. CASE r = cs.revision + 1
      BY <1>2, <2>1
    <2>2. CASE r # cs.revision + 1
      <3>1. r \in 1 .. cs.revision
        BY <1>1, <1>5, <2>2
      <3>2. PICK y \in Inputs : num(y) = r
        BY <3>1 DEF RevisionLog
      <3> QED
        BY <1>2, <3>1, <3>2
    <2> QED
      BY <2>1, <2>2
  <1> QED
    BY <1>3, <1>4, <1>5 DEF RevisionLog

LEMMA CommitTurnNumbers ==
    ASSUME TypeOK, RevisionLog, NEW i \in Inbound, NEW expected, NEW catalog \in Catalogs,
           NEW next, NEW outcome \in Outcomes, NEW reply \in BOOLEAN, NEW projected, NEW began,
           NEW announces,
           CommitTurn(i, expected, catalog, next, outcome, reply, projected, began, announces)
    PROVE  RevisionLog'
  <1> DEFINE e == [revision |-> cs.revision + 1, outcome |-> outcome, catalog |-> catalog,
                   replied |-> reply /\ conv.mode = "bot"]
  <1>1. i \in Inputs /\ event[i].revision = 0
    BY DEF Inputs, CommitTurn, TurnVerdict
  <1>2. e \in Events /\ e.revision = cs.revision + 1
    BY DEF TypeOK, Events
  <1>3. event' = [event EXCEPT ![i] = e] /\ cs'.revision = cs.revision + 1
    BY DEF CommitTurn, StoreState
  <1> QED
    BY <1>1, <1>2, <1>3, NextNumber

LEMMA CommitOperatorNumbers ==
    ASSUME TypeOK, RevisionLog, NEW c \in Commands, NEW expected, NEW control,
           NEW catalog \in Catalogs, NEW next, NEW reply \in BOOLEAN, NEW projected, NEW began,
           NEW announces,
           CommitOperator(c, expected, control, catalog, next, reply, projected, began, announces)
    PROVE  RevisionLog'
  <1> DEFINE e == [revision |-> cs.revision + 1, outcome |-> "OPERATOR", catalog |-> catalog,
                   replied |-> reply /\ OperatorMode(c, projected) = "bot"]
  <1>1. c \in Inputs /\ event[c].revision = 0
    BY DEF Inputs, CommitOperator, OperatorVerdict
  <1>2. e \in Events /\ e.revision = cs.revision + 1
    BY DEF TypeOK, Events, Outcomes
  <1>3. event' = [event EXCEPT ![c] = e] /\ cs'.revision = cs.revision + 1
    BY DEF CommitOperator, StoreState
  <1> QED
    BY <1>1, <1>2, <1>3, NextNumber

\* Every other function leaves the events and the revision alone.
LEMMA SameNumbers ==
    ASSUME TypeOK, RevisionLog, event' = event, cs'.revision = cs.revision
    PROVE  RevisionLog'
  BY DEF RevisionLog

LEMMA OthersKeepNumbers ==
    ASSUME TypeOK,
           \/ \E i \in Inbound, k \in Catalogs : AcquireInbound(i, k)
           \/ AnyDelivery
           \/ \E m \in Modes, b \in Begun : SetAutomationMode(m, b)
           \/ \E f, t \in Catalogs : UpgradeCatalog(f, t)
           \/ UNCHANGED store
    PROVE  event' = event /\ cs'.revision = cs.revision
  BY DEF TypeOK, AcquireInbound, AnyDelivery, Claim, CancelStale, Settle, ClaimExpires,
         SetAutomationMode, UpgradeCatalog, store

LEMMA NextNumbers == TypeOK /\ RevisionLog /\ [Next]_store => RevisionLog'
  <1> SUFFICES ASSUME TypeOK, RevisionLog, [Next]_store PROVE RevisionLog'
    OBVIOUS
  <1>1. CASE AnyTurn
    BY <1>1, CommitTurnNumbers DEF AnyTurn, Outcomes
  <1>2. CASE AnyCommand
    BY <1>2, CommitOperatorNumbers DEF AnyCommand
  <1>3. CASE ~ AnyTurn /\ ~ AnyCommand
    BY <1>3, OthersKeepNumbers, SameNumbers DEF Next
  <1> QED
    BY <1>1, <1>2, <1>3

\* Turn events and operator events, two tables with a unique key each, share
\* one gapless numbering even if the callers pass arbitrary arguments.
THEOREM StoreRevisionLog == Spec => []RevisionLog
  <1>1. Init => RevisionLog
    BY DEF Init, RevisionLog, NoEvent
  <1> QED
    BY <1>1, StoreTypeOK, NextNumbers, PTL DEF Spec

-----------------------------------------------------------------------------
(***************************************************************************)
(* What holds of the official runtime for any number of executions,        *)
(* messages, commands and catalogs, and for any bounds.                    *)
(***************************************************************************)

(***************************************************************************)
(* Types                                                                   *)
(***************************************************************************)

LEMMA IdleType == Idle \in Executions
  <1>1. (CHOOSE x \in Inputs : TRUE) \in Inputs
    BY RuntimeAssumption DEF Inputs
  <1>2. NullState \in States
    BY DEF NullState, States
  <1>3. 1 \in Catalogs
    BY StoreAssumption DEF Catalogs
  <1> QED
    BY <1>1, <1>2, <1>3 DEF Idle, IdleWorker, Executions, Stages, Outcomes

LEMMA BecomesType ==
    ASSUME RuntimeTypeOK, NEW w \in Workers, NEW rec \in Executions, Becomes(w, rec)
    PROVE  worker' \in [Workers -> Executions]
  BY DEF RuntimeTypeOK, Becomes

LEMMA EndsType ==
    ASSUME RuntimeTypeOK, NEW w \in Workers, Ends(w)
    PROVE  worker' \in [Workers -> Executions]
  BY IdleType, BecomesType DEF Ends

LEMMA MovesType ==
    ASSUME RuntimeTypeOK, NEW w \in Workers, NEW stage \in Stages, Moves(w, stage)
    PROVE  worker' \in [Workers -> Executions]
  <1>1. [worker[w] EXCEPT !.at = stage] \in Executions
    BY DEF RuntimeTypeOK, Executions
  <1> QED
    BY <1>1, BecomesType DEF Moves

LEMMA DeliversType ==
    ASSUME RuntimeTypeOK, NEW w \in Workers, NEW replied, Delivers(w, replied)
    PROVE  worker' \in [Workers -> Executions]
  BY EndsType, MovesType DEF Delivers, Stages

\* An action that keeps these three and the types of the others keeps all.
LEMMA RestType ==
    ASSUME RuntimeTypeOK, TypeOK', worker' \in [Workers -> Executions],
           command' \in [Commands -> Compositions], phone' \in Seq(Inputs),
           UNCHANGED <<deployed, upgraded, spent>>
    PROVE  RuntimeTypeOK'
  BY DEF RuntimeTypeOK

LEMMA SameStoreType ==
    ASSUME TypeOK, UNCHANGED store
    PROVE  TypeOK'
  BY DEF TypeOK, store

LEMMA RuntimeInitType == RuntimeInit => RuntimeTypeOK
  <1> SUFFICES ASSUME RuntimeInit PROVE RuntimeTypeOK
    OBVIOUS
  <1>1. TypeOK
    BY InitType DEF RuntimeInit
  <1>2. worker \in [Workers -> Executions]
    BY IdleType DEF RuntimeInit
  <1>3. command \in [Commands -> Compositions]
    BY DEF RuntimeInit, Uncomposed, Compositions, Modes
  <1>4. phone \in Seq(Inputs)
    BY DEF RuntimeInit
  <1>5. deployed \in Catalogs /\ upgraded \in Catalogs
    BY StoreAssumption DEF RuntimeInit, Catalogs
  <1>6. spent \in [panel : 0 .. MaxPanel, expiries : 0 .. MaxExpiries, faults : 0 .. MaxFaults]
    BY RuntimeAssumption DEF RuntimeInit
  <1> QED
    BY <1>1, <1>2, <1>3, <1>4, <1>5, <1>6 DEF RuntimeTypeOK

LEMMA ReceiveType ==
    ASSUME RuntimeTypeOK, NEW w \in Workers, NEW i \in Inbound, Receive(w, i)
    PROVE  RuntimeTypeOK'
  <1>1. TypeOK'
    BY AcquireInboundType DEF Receive, RuntimeTypeOK
  <1>2. LeaseOf(i) \in Executions
    <2>1. /\ cs'.revision \in Nat /\ cs'.state \in States /\ conv'.version \in Nat
          /\ i \in Inputs /\ deployed \in Catalogs
      BY <1>1 DEF TypeOK, Conversations, Inputs, RuntimeTypeOK
    <2> QED
      BY <2>1, IdleType DEF LeaseOf, Executions, Stages
  <1>3. worker' \in [Workers -> Executions]
    BY <1>2, IdleType, BecomesType DEF Receive
  <1> QED
    BY <1>1, <1>3, RestType DEF Receive, RuntimeTypeOK

\* What an execution makes of the state it holds is a state again.
LEMMA NextStateType ==
    ASSUME RuntimeTypeOK, NEW w \in Workers, NEW a \in BOOLEAN
    PROVE  /\ Kept(w, a) \in States
           /\ \A q \in MoreRequests(w), h \in BOOLEAN : Absorbed(w, q, h, a) \in States
  <1>1. worker[w].state \in States /\ worker[w].input \in Inputs
    BY DEF RuntimeTypeOK, Executions
  <1>2. Kept(w, a) \in States
    BY <1>1 DEF Kept, States
  <1>3. ASSUME NEW q \in MoreRequests(w), NEW h \in BOOLEAN
        PROVE  Absorbed(w, q, h, a) \in States
    <2>1. worker[w].state.applied \cup {worker[w].input} \in SUBSET Inputs
      BY <1>1 DEF States
    <2>2. q \in SUBSET Goals
      BY DEF MoreRequests
    <2> QED
      BY <1>1, <2>1, <2>2 DEF Absorbed, States
  <1> QED
    BY <1>2, <1>3

LEMMA PlansType ==
    ASSUME RuntimeTypeOK, NEW w \in Workers, NEW next \in States, NEW outcome \in TurnOutcomes,
           NEW reply \in BOOLEAN, Plans(w, next, outcome, reply)
    PROVE  worker' \in [Workers -> Executions]
  <1>1. [worker[w] EXCEPT !.at = "commit_turn", !.state = next, !.outcome = outcome,
                          !.reply = reply] \in Executions
    BY DEF RuntimeTypeOK, Executions, Stages, Outcomes
  <1> QED
    BY <1>1, BecomesType DEF Plans

LEMMA PlanTurnType ==
    ASSUME RuntimeTypeOK, NEW w \in Workers, PlanTurn(w)
    PROVE  RuntimeTypeOK'
  <1>1. worker[w].state.asking \in BOOLEAN /\ worker[w].state.handoff \in BOOLEAN
    BY DEF RuntimeTypeOK, Executions, States
  <1>2. PICK next \in States, outcome \in TurnOutcomes, reply \in BOOLEAN :
          Plans(w, next, outcome, reply)
    BY <1>1, NextStateType DEF PlanTurn, TurnOutcomes
  <1>3. worker' \in [Workers -> Executions]
    BY <1>2, PlansType
  <1> QED
    BY <1>3, SameStoreType, RestType DEF PlanTurn, RuntimeTypeOK

LEMMA ProjectedModeType ==
    ASSUME NEW w \in Workers
    PROVE  ProjectedMode(w) \in Modes
  BY DEF ProjectedMode, Modes

\* The request records of a planned state that a reply may announce.
LEMMA AnnouncedGoals ==
    ASSUME RuntimeTypeOK, NEW w \in Workers, NEW a \in SUBSET worker[w].state.requests
    PROVE  a \in SUBSET Goals
  BY DEF RuntimeTypeOK, Executions, States

LEMMA BegunByType ==
    ASSUME NEW w \in Workers, NEW b \in BegunBy(w)
    PROVE  b \in Nat
  BY DEF BegunBy, Begun

\* An execution only ever commits what fits its stage.
LEMMA CommitTurnStepType ==
    ASSUME RuntimeTypeOK, NEW w \in Workers, CommitTurnStep(w), Fits(worker[w])
    PROVE  RuntimeTypeOK'
  <1> DEFINE i == worker[w].input
             t == worker[w]
  <1>1. /\ i \in Inbound /\ t.catalog \in Catalogs /\ t.state \in States
        /\ t.outcome \in Outcomes /\ t.reply \in BOOLEAN
    BY DEF CommitTurnStep, At, Fits, RuntimeTypeOK, Executions
  <1>2. TypeOK'
    <2>1. CASE UNCHANGED store
      BY <2>1, SameStoreType DEF RuntimeTypeOK
    <2>2. ASSUME NEW b \in BegunBy(w), NEW a \in SUBSET t.state.requests,
                 CommitTurn(i, t.revision, t.catalog, t.state, t.outcome, t.reply,
                            ProjectedMode(w), b, a)
          PROVE  TypeOK'
      BY <1>1, <2>2, ProjectedModeType, AnnouncedGoals, BegunByType, CommitTurnType
      DEF RuntimeTypeOK
    <2> QED
      BY <2>1, <2>2 DEF CommitTurnStep
  <1>3. worker' \in [Workers -> Executions]
    BY DeliversType, EndsType DEF CommitTurnStep
  <1> QED
    BY <1>2, <1>3, RestType DEF CommitTurnStep, RuntimeTypeOK

LEMMA CommitOperatorStepType ==
    ASSUME RuntimeTypeOK, NEW w \in Workers, CommitOperatorStep(w), Fits(worker[w])
    PROVE  RuntimeTypeOK'
  <1> DEFINE c == worker[w].input
             t == worker[w]
  <1>1. c \in Commands /\ t.catalog \in Catalogs /\ t.state \in States
    BY DEF CommitOperatorStep, At, Fits, RuntimeTypeOK, Executions
  <1>2. TypeOK'
    <2>1. CASE UNCHANGED store
      BY <2>1, SameStoreType DEF RuntimeTypeOK
    <2>2. ASSUME NEW b \in BegunBy(w), NEW a \in SUBSET t.state.requests,
                 CommitOperator(c, t.revision, command[c].control, t.catalog, t.state,
                                ProjectedMode(w) = "bot", ProjectedMode(w), b, a)
          PROVE  TypeOK'
      <3> DEFINE r == ProjectedMode(w) = "bot"
      <3>1. r \in BOOLEAN
        OBVIOUS
      <3>2. CommitOperator(c, t.revision, command[c].control, t.catalog, t.state, r,
                           ProjectedMode(w), b, a)
        BY <2>2
      <3> QED
        BY <1>1, <3>1, <3>2, ProjectedModeType, AnnouncedGoals, BegunByType, CommitOperatorType
        DEF RuntimeTypeOK
    <2> QED
      BY <2>1, <2>2 DEF CommitOperatorStep
  <1>3. worker' \in [Workers -> Executions]
    BY DeliversType, EndsType DEF CommitOperatorStep
  <1> QED
    BY <1>2, <1>3, RestType DEF CommitOperatorStep, RuntimeTypeOK

LEMMA ComposeType ==
    ASSUME RuntimeTypeOK, NEW c \in Commands, Compose(c)
    PROVE  RuntimeTypeOK'
  <1> DEFINE row == [sent |-> TRUE, expected |-> cs.revision, control |-> conv.version,
                     shown |-> ControlShown]
  <1>1. row \in Compositions
    BY DEF RuntimeTypeOK, TypeOK, Conversations, Compositions, ControlShown
  <1>2. command' \in [Commands -> Compositions]
    BY <1>1 DEF Compose, RuntimeTypeOK
  <1> QED
    BY <1>2, SameStoreType, RestType DEF Compose, RuntimeTypeOK

LEMMA SnapshotType ==
    ASSUME RuntimeTypeOK, NEW w \in Workers, NEW c \in Commands, Snapshot(w, c)
    PROVE  RuntimeTypeOK'
  <1> DEFINE rec == [Idle EXCEPT !.at = "replay", !.input = c, !.catalog = deployed,
                                 !.revision = cs.revision, !.control = conv.version,
                                 !.state = cs.state,
                                 !.mode = IF conv.mode = "bot" THEN "BOT_ACTIVE" ELSE "HUMAN_ACTIVE"]
  <1>1. /\ cs.revision \in Nat /\ cs.state \in States /\ conv.version \in Nat
        /\ c \in Inputs /\ deployed \in Catalogs
    BY DEF RuntimeTypeOK, TypeOK, Conversations, Inputs
  <1>2. rec \in Executions
    BY <1>1, IdleType DEF Executions, Stages
  <1>3. worker' \in [Workers -> Executions]
    BY <1>2, BecomesType DEF Snapshot
  <1> QED
    BY <1>3, SameStoreType, RestType DEF Snapshot, RuntimeTypeOK

LEMMA ReplayType ==
    ASSUME RuntimeTypeOK, NEW w \in Workers, Replay(w)
    PROVE  RuntimeTypeOK'
  <1>1. ASSUME NEW q \in MoreRequests(w), NEW a \in BOOLEAN, Decides(w, q, a)
        PROVE  worker' \in [Workers -> Executions]
    <2> DEFINE h    == worker[w].state.handoff /\ worker[w].input \notin Resumes
               next == Absorbed(w, q, h, a)
               rec  == [worker[w] EXCEPT !.at = "commit_operator", !.state = next,
                                         !.outcome = "OPERATOR"]
    <2>1. h \in BOOLEAN
      BY DEF RuntimeTypeOK, Executions, States
    <2>2. next \in States
      BY <2>1, NextStateType
    <2> HIDE DEF next
    <2>3. rec \in Executions
      BY <2>2 DEF RuntimeTypeOK, Executions, Stages, Outcomes
    <2>4. Becomes(w, rec)
      BY <1>1 DEF Decides, next
    <2> QED
      BY <2>3, <2>4, BecomesType
  <1>2. worker' \in [Workers -> Executions]
    BY <1>1, DeliversType, EndsType DEF Replay
  <1> QED
    BY <1>2, SameStoreType, RestType DEF Replay, RuntimeTypeOK

LEMMA ClaimDeliveryType ==
    ASSUME RuntimeTypeOK, NEW w \in Workers, ClaimDelivery(w)
    PROVE  RuntimeTypeOK'
  <1>1. worker[w].input \in Inputs /\ TypeOK
    BY DEF RuntimeTypeOK, Executions
  <1>2. TypeOK'
    BY <1>1, DeliveryType, SameStoreType DEF ClaimDelivery
  <1>3. worker' \in [Workers -> Executions]
    BY MovesType, EndsType DEF ClaimDelivery, Stages
  <1> QED
    BY <1>2, <1>3, RestType DEF ClaimDelivery, RuntimeTypeOK

LEMMA SendType ==
    ASSUME RuntimeTypeOK, NEW w \in Workers, SendText(w) \/ SendRejected(w)
    PROVE  RuntimeTypeOK'
  <1>1. worker' \in [Workers -> Executions]
    BY MovesType DEF SendText, SendRejected, Stages
  <1>2. phone' \in Seq(Inputs)
    <2>1. worker[w].input \in Inputs /\ phone \in Seq(Inputs)
      BY DEF RuntimeTypeOK, Executions
    <2> QED
      BY <2>1 DEF SendText, SendRejected
  <1> QED
    BY <1>1, <1>2, SameStoreType, RestType DEF SendText, SendRejected, RuntimeTypeOK

LEMMA SettleStepType ==
    ASSUME RuntimeTypeOK, NEW w \in Workers, CompleteDelivery(w) \/ FailDelivery(w)
    PROVE  RuntimeTypeOK'
  <1>1. worker[w].input \in Inputs /\ TypeOK
    BY DEF RuntimeTypeOK, Executions
  <1>2. TypeOK'
    BY <1>1, DeliveryType, SameStoreType DEF CompleteDelivery, FailDelivery
  <1>3. worker' \in [Workers -> Executions]
    BY MovesType, EndsType DEF CompleteDelivery, FailDelivery, Stages
  <1> QED
    BY <1>2, <1>3, RestType DEF CompleteDelivery, FailDelivery, RuntimeTypeOK

\* Faults, the panel, expiring claims, deployments and upgrades.
LEMMA SurroundingsType ==
    ASSUME RuntimeTypeOK,
           \/ \E w \in Workers : Fault(w)
           \/ \E m \in Modes : Panel(m)
           \/ \E x \in Inputs : Expire(x)
           \/ Deploy \/ Upgrade
    PROVE  RuntimeTypeOK'
  <1>1. ASSUME NEW w \in Workers, Fault(w) PROVE RuntimeTypeOK'
    <2>1. worker' \in [Workers -> Executions]
      BY <1>1, EndsType DEF Fault
    <2>2. spent' \in [panel : 0 .. MaxPanel, expiries : 0 .. MaxExpiries, faults : 0 .. MaxFaults]
      BY <1>1, RuntimeAssumption DEF Fault, RuntimeTypeOK
    <2> QED
      BY <1>1, <2>1, <2>2, SameStoreType DEF Fault, RuntimeTypeOK
  <1>2. ASSUME NEW m \in Modes, Panel(m) PROVE RuntimeTypeOK'
    <2>1. TypeOK'
      BY <1>2, SetAutomationModeType DEF Panel, Begun, RuntimeTypeOK
    <2>2. spent' \in [panel : 0 .. MaxPanel, expiries : 0 .. MaxExpiries, faults : 0 .. MaxFaults]
      BY <1>2, RuntimeAssumption DEF Panel, RuntimeTypeOK
    <2> QED
      BY <1>2, <2>1, <2>2 DEF Panel, RuntimeTypeOK
  <1>3. ASSUME NEW x \in Inputs, Expire(x) PROVE RuntimeTypeOK'
    <2>1. TypeOK'
      BY <1>3, DeliveryType DEF Expire, RuntimeTypeOK
    <2>2. spent' \in [panel : 0 .. MaxPanel, expiries : 0 .. MaxExpiries, faults : 0 .. MaxFaults]
      BY <1>3, RuntimeAssumption DEF Expire, RuntimeTypeOK
    <2> QED
      BY <1>3, <2>1, <2>2 DEF Expire, RuntimeTypeOK
  <1>4. CASE Deploy
    <2>1. deployed' \in Catalogs
      BY <1>4, StoreAssumption DEF Deploy, RuntimeTypeOK, Catalogs
    <2> QED
      BY <1>4, <2>1, SameStoreType DEF Deploy, RuntimeTypeOK
  <1>5. CASE Upgrade
    <2>1. upgraded \in Catalogs /\ upgraded + 1 \in Catalogs
      BY <1>5, StoreAssumption DEF Upgrade, RuntimeTypeOK, Catalogs
    <2>2. TypeOK'
      BY <1>5, <2>1, UpgradeCatalogType DEF Upgrade, RuntimeTypeOK
    <2> QED
      BY <1>5, <2>1, <2>2 DEF Upgrade, RuntimeTypeOK
  <1> QED
    BY <1>1, <1>2, <1>3, <1>4, <1>5

\* One case per action; a commit is well-typed because its input fits it.
LEMMA RuntimeNextType ==
    ASSUME RuntimeTypeOK, CurrentLease, [RuntimeNext]_vars
    PROVE  RuntimeTypeOK'
  <1>1. ASSUME NEW w \in Workers, NEW i \in Inbound, Receive(w, i) PROVE RuntimeTypeOK'
    BY <1>1, ReceiveType
  <1>2. ASSUME NEW w \in Workers, NEW c \in Commands, Snapshot(w, c) PROVE RuntimeTypeOK'
    BY <1>2, SnapshotType
  <1>3. ASSUME NEW w \in Workers, Progress(w) PROVE RuntimeTypeOK'
    <2>1. Fits(worker[w])
      BY DEF CurrentLease
    <2> QED
      BY <1>3, <2>1, PlanTurnType, CommitTurnStepType, ReplayType, CommitOperatorStepType,
         ClaimDeliveryType, SendType, SettleStepType
      DEF Progress
  <1>4. ASSUME NEW c \in Commands, Compose(c) PROVE RuntimeTypeOK'
    BY <1>4, ComposeType
  <1>5. CASE UNCHANGED vars
    <2>1. TypeOK'
      BY <1>5, SameStoreType DEF vars, RuntimeTypeOK
    <2> QED
      BY <1>5, <2>1 DEF vars, RuntimeTypeOK
  <1> QED
    BY <1>1, <1>2, <1>3, <1>4, <1>5, SurroundingsType DEF RuntimeNext

(***************************************************************************)
(* The inductive invariant                                                 *)
(***************************************************************************)

\* An input without a number has no outcome yet.
Unlogged == \A x \in Inputs : event[x].revision = 0 => event[x].outcome = "NONE"

\* A handoff is in a stored state only after a commit, and every commit makes
\* the conversation an official one, which the panel cannot return to the bot.
HandoffIsOfficial == cs.state.handoff => conv.official

RuntimeInv ==
    /\ RuntimeTypeOK
    /\ CurrentLease
    /\ RevisionLog
    /\ Unlogged
    /\ NoLostUpdate
    /\ NoOrphanRequest
    /\ HandoffIsOfficial
    /\ HandoffStaysWithTeam
    /\ WaitingCitizenIsAsked

LEMMA RuntimeInitInv == RuntimeInit => RuntimeInv
  <1> SUFFICES ASSUME RuntimeInit PROVE RuntimeInv
    OBVIOUS
  <1>1. RuntimeTypeOK
    BY RuntimeInitType
  <1>2. CurrentLease
    BY DEF RuntimeInit, CurrentLease, Fits, Leased, Idle, IdleWorker
  <1>3. RevisionLog /\ Unlogged
    BY DEF RuntimeInit, Init, RevisionLog, Unlogged, NoEvent
  <1>4. NoLostUpdate /\ NoOrphanRequest
    BY <1>3 DEF RuntimeInit, Init, NoLostUpdate, NoOrphanRequest, NoEvent, NullState
  <1>5. HandoffIsOfficial /\ HandoffStaysWithTeam /\ WaitingCitizenIsAsked
    BY DEF RuntimeInit, Init, HandoffIsOfficial, HandoffStaysWithTeam,
           WaitingCitizenIsAsked, NullState
  <1> QED
    BY <1>1, <1>2, <1>3, <1>4, <1>5 DEF RuntimeInv

(***************************************************************************)
(* The leases                                                              *)
(***************************************************************************)

\* The only execution whose lease a step can spoil is the one it moves.
LEMMA LeaseStep ==
    ASSUME RuntimeTypeOK, CurrentLease, NEW w \in Workers,
           \A v \in Workers \ {w} : worker'[v] = worker[v],
           command' = command,
           \/ cs'.revision = cs.revision /\ cs'.state = cs.state
           \/ cs'.revision = cs.revision + 1,
           Fits(worker[w])', Leased(worker[w])'
    PROVE  CurrentLease'
  <1>1. cs.revision \in Nat /\ \A v \in Workers : worker[v].revision \in Nat
    BY DEF RuntimeTypeOK, TypeOK, Executions
  <1>2. ASSUME NEW v \in Workers \ {w}
        PROVE  Fits(worker[v])' /\ Leased(worker[v])'
    <2>1. Fits(worker[v])'
      BY <1>2 DEF CurrentLease, Fits
    <2>2. Leased(worker[v]) /\ worker'[v] = worker[v]
      BY <1>2 DEF CurrentLease
    <2>3. CASE cs'.revision = cs.revision /\ cs'.state = cs.state
      BY <2>1, <2>2, <2>3 DEF Leased
    <2>4. CASE cs'.revision = cs.revision + 1
      <3>1. worker[v].at # "idle" => worker[v].revision < cs'.revision
        BY <1>1, <1>2, <2>2, <2>4 DEF Leased
      <3>2. Leased(worker[v])'
        BY <1>1, <1>2, <2>2, <2>4, <3>1 DEF Leased
      <3> QED
        BY <2>1, <3>2
    <2> QED
      BY <2>3, <2>4
  <1> QED
    BY <1>2 DEF CurrentLease

\* Once it ended, or only has to deliver, an execution holds no lease.
LEMMA EndsLease ==
    ASSUME RuntimeTypeOK, CurrentLease, NEW w \in Workers, Ends(w), command' = command,
           \/ cs'.revision = cs.revision /\ cs'.state = cs.state
           \/ cs'.revision = cs.revision + 1
    PROVE  CurrentLease'
  <1>1. /\ worker'[w].at = "idle"
        /\ \A v \in Workers \ {w} : worker'[v] = worker[v]
    BY DEF RuntimeTypeOK, Ends, Becomes, Idle, IdleWorker
  <1>2. Fits(worker[w])' /\ Leased(worker[w])'
    BY <1>1 DEF Fits, Leased
  <1> QED
    BY <1>1, <1>2, LeaseStep

LEMMA MovesLease ==
    ASSUME RuntimeTypeOK, CurrentLease, NEW w \in Workers, ~ At(w, "idle"),
           NEW stage \in {"claim", "send", "complete", "fail"}, Moves(w, stage),
           command' = command,
           \/ cs'.revision = cs.revision /\ cs'.state = cs.state
           \/ cs'.revision = cs.revision + 1
    PROVE  CurrentLease'
  <1>1. /\ worker'[w].at = stage /\ worker'[w].revision = worker[w].revision
        /\ \A v \in Workers \ {w} : worker'[v] = worker[v]
    BY DEF RuntimeTypeOK, Executions, Moves, Becomes
  <1>2. worker[w].revision <= cs'.revision
    <2>1. worker[w].revision <= cs.revision
      BY DEF CurrentLease, Leased, At
    <2>2. worker[w].revision \in Nat /\ cs.revision \in Nat
      BY DEF RuntimeTypeOK, Executions, TypeOK
    <2> QED
      BY <2>1, <2>2
  <1>3. Fits(worker[w])' /\ Leased(worker[w])'
    BY <1>1, <1>2 DEF Fits, Leased
  <1> QED
    BY <1>1, <1>3, LeaseStep

LEMMA DeliversLease ==
    ASSUME RuntimeTypeOK, CurrentLease, NEW w \in Workers, ~ At(w, "idle"),
           NEW replied, Delivers(w, replied), command' = command,
           \/ cs'.revision = cs.revision /\ cs'.state = cs.state
           \/ cs'.revision = cs.revision + 1
    PROVE  CurrentLease'
  BY EndsLease, MovesLease DEF Delivers

LEMMA ReceiveLease ==
    ASSUME RuntimeTypeOK, CurrentLease, NEW w \in Workers, NEW i \in Inbound, Receive(w, i)
    PROVE  CurrentLease'
  <1>1. cs'.revision = cs.revision /\ cs'.state = cs.state /\ command' = command
    BY DEF Receive, AcquireInbound, RuntimeTypeOK, TypeOK
  <1>2. CASE Ends(w)
    BY <1>1, <1>2, EndsLease
  <1>3. CASE Becomes(w, LeaseOf(i))
    <2>1. /\ worker'[w] = LeaseOf(i)
          /\ \A v \in Workers \ {w} : worker'[v] = worker[v]
      BY <1>3 DEF RuntimeTypeOK, Becomes
    <2>2. /\ LeaseOf(i).at = "plan" /\ LeaseOf(i).input = i
          /\ LeaseOf(i).revision = cs'.revision /\ LeaseOf(i).state = cs'.state
      BY DEF LeaseOf, Idle, IdleWorker
    <2>3. cs'.revision \in Nat
      BY <1>1 DEF RuntimeTypeOK, TypeOK
    <2>4. Fits(worker[w])' /\ Leased(worker[w])'
      BY <2>1, <2>2, <2>3 DEF Fits, Leased
    <2> QED
      BY <1>1, <2>1, <2>4, LeaseStep
  <1> QED
    BY <1>2, <1>3 DEF Receive, Ends

LEMMA SnapshotLease ==
    ASSUME RuntimeTypeOK, CurrentLease, NEW w \in Workers, NEW c \in Commands, Snapshot(w, c)
    PROVE  CurrentLease'
  <1>1. cs' = cs /\ command' = command
    BY DEF Snapshot, store
  <1>2. /\ worker'[w].at = "replay" /\ worker'[w].input = c
        /\ worker'[w].revision = cs.revision /\ worker'[w].state = cs.state
        /\ \A v \in Workers \ {w} : worker'[v] = worker[v]
    BY DEF RuntimeTypeOK, Snapshot, Becomes, Idle, IdleWorker
  <1>3. cs.revision \in Nat
    BY DEF RuntimeTypeOK, TypeOK
  <1>4. Fits(worker[w])' /\ Leased(worker[w])'
    BY <1>1, <1>2, <1>3 DEF Snapshot, Fits, Leased
  <1> QED
    BY <1>1, <1>2, <1>4, LeaseStep

\* What planning changes in the state an execution holds.
LEMMA NextStateFacts ==
    ASSUME RuntimeTypeOK, NEW w \in Workers, NEW a \in BOOLEAN
    PROVE  /\ Kept(w, a).applied = worker[w].state.applied
           /\ Kept(w, a).requests = worker[w].state.requests
           /\ \A q \in MoreRequests(w), h \in BOOLEAN :
                /\ Absorbed(w, q, h, a).applied = worker[w].state.applied \cup {worker[w].input}
                /\ worker[w].state.requests \subseteq Absorbed(w, q, h, a).requests
                /\ Absorbed(w, q, h, a).handoff = h
  <1>1. worker[w].state \in States
    BY DEF RuntimeTypeOK, Executions
  <1> QED
    BY <1>1 DEF Kept, Absorbed, MoreRequests, States

LEMMA PlansLease ==
    ASSUME RuntimeTypeOK, CurrentLease, NEW w \in Workers, At(w, "plan"), NEW next,
           NEW outcome \in TurnOutcomes, NEW reply, Plans(w, next, outcome, reply),
           worker[w].state.requests \subseteq next.requests,
           next.applied = IF outcome = "PROPOSED"
                          THEN worker[w].state.applied \cup {worker[w].input}
                          ELSE worker[w].state.applied,
           cs' = cs, command' = command
    PROVE  CurrentLease'
  <1>1. /\ worker'[w].at = "commit_turn" /\ worker'[w].input = worker[w].input
        /\ worker'[w].revision = worker[w].revision /\ worker'[w].state = next
        /\ worker'[w].outcome = outcome
        /\ \A v \in Workers \ {w} : worker'[v] = worker[v]
    BY DEF RuntimeTypeOK, Plans, Becomes, Executions
  <1>2. Fits(worker[w]) /\ Leased(worker[w])
    BY DEF CurrentLease
  <1>3. Fits(worker[w])'
    BY <1>1, <1>2 DEF Fits, At
  <1>4. outcome \in {"PROPOSED", "OPERATOR"} <=> outcome = "PROPOSED"
    BY DEF TurnOutcomes
  <1>5. Leased(worker[w])'
    BY <1>1, <1>2, <1>4 DEF Leased, At
  <1> QED
    BY <1>1, <1>3, <1>5, LeaseStep

LEMMA PlanTurnLease ==
    ASSUME RuntimeTypeOK, CurrentLease, NEW w \in Workers, PlanTurn(w)
    PROVE  CurrentLease'
  <1>1. cs' = cs /\ command' = command /\ At(w, "plan")
    BY DEF PlanTurn, store
  <1>2. worker[w].state.asking \in BOOLEAN /\ worker[w].state.handoff \in BOOLEAN
    BY DEF RuntimeTypeOK, Executions, States
  <1>3. ASSUME NEW a \in BOOLEAN, NEW outcome \in TurnOutcomes \ {"PROPOSED"},
               NEW reply \in BOOLEAN, Plans(w, Kept(w, a), outcome, reply)
        PROVE  CurrentLease'
    BY <1>1, <1>3, NextStateFacts, PlansLease
  <1>4. ASSUME NEW q \in MoreRequests(w), NEW h \in BOOLEAN, NEW a \in BOOLEAN,
               NEW r \in BOOLEAN, Plans(w, Absorbed(w, q, h, a), "PROPOSED", r)
        PROVE  CurrentLease'
    BY <1>1, <1>4, NextStateFacts, PlansLease DEF TurnOutcomes
  <1> QED
    BY <1>2, <1>3, <1>4 DEF PlanTurn, TurnOutcomes

LEMMA ReplayLease ==
    ASSUME RuntimeTypeOK, CurrentLease, NEW w \in Workers, Replay(w)
    PROVE  CurrentLease'
  <1>1. cs' = cs /\ command' = command /\ At(w, "replay")
    BY DEF Replay, store
  <1>2. ASSUME NEW q \in MoreRequests(w), NEW a \in BOOLEAN, Decides(w, q, a)
        PROVE  CurrentLease'
    <2> DEFINE h    == worker[w].state.handoff /\ worker[w].input \notin Resumes
               next == Absorbed(w, q, h, a)
    <2>1. h \in BOOLEAN
      BY DEF RuntimeTypeOK, Executions, States
    <2> HIDE DEF h
    <2>2. /\ next.applied = worker[w].state.applied \cup {worker[w].input}
          /\ worker[w].state.requests \subseteq next.requests
          /\ next.handoff = h
      BY <2>1, NextStateFacts
    <2>7. worker[w].input \in Resumes => ~ next.handoff
      BY <2>2 DEF h
    <2>3. /\ worker'[w].at = "commit_operator" /\ worker'[w].input = worker[w].input
          /\ worker'[w].revision = worker[w].revision /\ worker'[w].state = next
          /\ worker'[w].outcome = "OPERATOR"
          /\ \A v \in Workers \ {w} : worker'[v] = worker[v]
      BY <1>2 DEF RuntimeTypeOK, Decides, Becomes, Executions, h
    <2> HIDE DEF next
    <2>4. Fits(worker[w]) /\ Leased(worker[w])
      BY DEF CurrentLease
    <2>5. Fits(worker[w])'
      BY <1>1, <2>3, <2>4 DEF Fits, At
    <2>6. Leased(worker[w])'
      BY <1>1, <2>2, <2>3, <2>4, <2>7 DEF Leased, At
    <2> QED
      BY <1>1, <2>3, <2>5, <2>6, LeaseStep
  <1>3. ~ At(w, "idle")
    BY <1>1 DEF At
  <1> QED
    BY <1>1, <1>2, <1>3, DeliversLease, EndsLease DEF Replay

LEMMA CommitsLease ==
    ASSUME RuntimeTypeOK, CurrentLease, NEW w \in Workers, CommitTurnStep(w) \/ CommitOperatorStep(w)
    PROVE  CurrentLease'
  <1>1. command' = command /\ ~ At(w, "idle")
    BY DEF CommitTurnStep, CommitOperatorStep, At
  <1>2. \/ cs'.revision = cs.revision /\ cs'.state = cs.state
        \/ cs'.revision = cs.revision + 1
    <2>1. ASSUME NEW i, NEW e, NEW k, NEW s, NEW o, NEW r, NEW m, NEW b, NEW a,
                 CommitTurn(i, e, k, s, o, r, m, b, a)
          PROVE  cs'.revision = cs.revision + 1
      BY <2>1 DEF CommitTurn, StoreState
    <2>2. ASSUME NEW c, NEW e, NEW v, NEW k, NEW s, NEW r, NEW m, NEW b, NEW a,
                 CommitOperator(c, e, v, k, s, r, m, b, a)
          PROVE  cs'.revision = cs.revision + 1
      BY <2>2 DEF CommitOperator, StoreState
    <2>3. UNCHANGED store => cs' = cs
      BY DEF store
    <2> QED
      BY <2>1, <2>2, <2>3 DEF CommitTurnStep, CommitOperatorStep
  <1> QED
    BY <1>1, <1>2, DeliversLease, EndsLease DEF CommitTurnStep, CommitOperatorStep

LEMMA DeliveryLease ==
    ASSUME RuntimeTypeOK, CurrentLease, NEW w \in Workers,
           \/ ClaimDelivery(w) \/ SendText(w) \/ SendRejected(w)
           \/ CompleteDelivery(w) \/ FailDelivery(w)
    PROVE  CurrentLease'
  <1>1. command' = command /\ cs' = cs /\ ~ At(w, "idle")
    BY DEF ClaimDelivery, SendText, SendRejected, CompleteDelivery, FailDelivery, At, Claim,
           CancelStale, Settle, store
  <1> QED
    BY <1>1, MovesLease, EndsLease
    DEF ClaimDelivery, SendText, SendRejected, CompleteDelivery, FailDelivery

\* Composing a command changes no lease; it only makes the command exist.
LEMMA ComposeLease ==
    ASSUME RuntimeTypeOK, CurrentLease, NEW c \in Commands, Compose(c)
    PROVE  CurrentLease'
  <1>1. /\ cs' = cs /\ worker' = worker
        /\ \A d \in Commands : command[d].sent => command'[d].sent
    BY DEF Compose, store, RuntimeTypeOK
  <1>2. ASSUME NEW w \in Workers PROVE Fits(worker[w])' /\ Leased(worker[w])'
    BY <1>1 DEF CurrentLease, Fits, Leased
  <1> QED
    BY <1>2 DEF CurrentLease

\* Nor does anything around the executions.
LEMMA SurroundingsLease ==
    ASSUME RuntimeTypeOK, CurrentLease,
           \/ \E w \in Workers : Fault(w)
           \/ \E m \in Modes : Panel(m)
           \/ \E x \in Inputs : Expire(x)
           \/ Deploy \/ Upgrade
           \/ UNCHANGED vars
    PROVE  CurrentLease'
  <1>1. ASSUME NEW w \in Workers, Fault(w) PROVE CurrentLease'
    <2>1. cs' = cs /\ command' = command
      BY <1>1 DEF Fault, store
    <2> QED
      BY <1>1, <2>1, EndsLease DEF Fault
  <1>2. CASE ~ \E w \in Workers : Fault(w)
    <2>1. worker' = worker /\ command' = command
      BY <1>2 DEF Panel, Expire, Deploy, Upgrade, vars
    <2>2. cs'.revision = cs.revision /\ cs'.state = cs.state
      BY <1>2 DEF Panel, SetAutomationMode, Expire, ClaimExpires, Deploy, Upgrade, UpgradeCatalog,
                  vars, store, RuntimeTypeOK, TypeOK
    <2>3. ASSUME NEW w \in Workers PROVE Fits(worker[w])' /\ Leased(worker[w])'
      BY <2>1, <2>2 DEF CurrentLease, Fits, Leased
    <2> QED
      BY <2>3 DEF CurrentLease
  <1> QED
    BY <1>1, <1>2

LEMMA RuntimeNextLease ==
    ASSUME RuntimeTypeOK, CurrentLease, [RuntimeNext]_vars
    PROVE  CurrentLease'
  BY ReceiveLease, SnapshotLease, PlanTurnLease, ReplayLease, CommitsLease, DeliveryLease,
     ComposeLease, SurroundingsLease
  DEF RuntimeNext, Progress

(***************************************************************************)
(* What the commits leave in the store                                     *)
(***************************************************************************)

DataInv == RevisionLog /\ Unlogged /\ NoLostUpdate /\ NoOrphanRequest

ControlInv == HandoffIsOfficial /\ HandoffStaysWithTeam /\ WaitingCitizenIsAsked

\* A step that commits nothing leaves the history, the state and the rows.
LEMMA QuietData ==
    ASSUME DataInv, event' = event, requests' = requests,
           cs'.revision = cs.revision, cs'.state = cs.state
    PROVE  DataInv'
  BY DEF DataInv, RevisionLog, Unlogged, NoLostUpdate, NoOrphanRequest

\* Both commits: the input x of an execution whose lease is still current
\* gets the next number and outcome o, and its state becomes the stored one.
LEMMA CommitData ==
    ASSUME RuntimeTypeOK, DataInv, NEW x \in Inputs, event[x].revision = 0,
           NEW e \in Events, event' = [event EXCEPT ![x] = e], e.revision = cs.revision + 1,
           e.outcome # "NONE",
           NEW next \in States, cs'.state = next, cs'.revision = cs.revision + 1,
           requests' = requests \cup next.requests, cs.state.requests \subseteq next.requests,
           next.applied = IF e.outcome \in {"PROPOSED", "OPERATOR"}
                          THEN cs.state.applied \cup {x} ELSE cs.state.applied
    PROVE  DataInv'
  <1>1. TypeOK /\ event \in [Inputs -> Events]
    BY DEF RuntimeTypeOK, TypeOK
  <1>2. RevisionLog'
    BY <1>1, NextNumber DEF DataInv
  <1>3. /\ event'[x] = e
        /\ \A y \in Inputs \ {x} : event'[y] = event[y]
    BY <1>1
  <1>4. Unlogged'
    <2>1. cs.revision \in Nat
      BY <1>1 DEF TypeOK
    <2> QED
      BY <1>3, <2>1 DEF Unlogged, DataInv
  <1>5. NoLostUpdate'
    <2>1. event[x].outcome = "NONE"
      BY DEF DataInv, Unlogged
    <2>2. x \notin cs.state.applied
      BY <2>1 DEF DataInv, NoLostUpdate
    <2>3. ASSUME NEW y \in Inputs
          PROVE  y \in next.applied <=> event'[y].outcome \in {"PROPOSED", "OPERATOR"}
      <3>1. CASE y = x
        BY <1>3, <2>2, <3>1
      <3>2. CASE y # x
        BY <1>3, <3>2 DEF DataInv, NoLostUpdate
      <3> QED
        BY <3>1, <3>2
    <2>4. next.applied \subseteq Inputs
      BY DEF States
    <2> QED
      BY <1>2, <2>3, <2>4 DEF NoLostUpdate
  <1>6. NoOrphanRequest'
    BY DEF DataInv, NoOrphanRequest
  <1> QED
    BY <1>2, <1>4, <1>5, <1>6 DEF DataInv

\* The new mode is human whenever the new state has a handoff, and the queue
\* follows from the new mode and the new state.
LEMMA CommitControl ==
    ASSUME RuntimeTypeOK, NEW mode \in Modes, NEW next \in States, conv' = Project(mode, next),
           cs'.state = next, next.handoff => mode # "bot"
    PROVE  ControlInv'
  <1>1. conv'.official = TRUE /\ conv'.mode = mode /\ conv'.queue = QueueOf(mode, next)
    BY DEF Project, RuntimeTypeOK, TypeOK, Conversations
  <1>2. WaitingCitizenIsAsked'
    BY <1>1 DEF WaitingCitizenIsAsked, QueueOf, Modes
  <1> QED
    BY <1>1, <1>2 DEF ControlInv, HandoffIsOfficial, HandoffStaysWithTeam

LEMMA TurnCommits ==
    ASSUME RuntimeTypeOK, CurrentLease, DataInv, NEW w \in Workers, At(w, "commit_turn"),
           NEW b, NEW a,
           CommitTurn(worker[w].input, worker[w].revision, worker[w].catalog, worker[w].state,
                      worker[w].outcome, worker[w].reply, ProjectedMode(w), b, a)
    PROVE  DataInv' /\ ControlInv'
  <1> DEFINE t == worker[w]
             e == [revision |-> cs.revision + 1, outcome |-> t.outcome, catalog |-> t.catalog,
                   replied |-> t.reply /\ conv.mode = "bot"]
             mode == TurnMode(ProjectedMode(w))
  <1>1. /\ t \in Executions /\ Fits(t) /\ Leased(t)
        /\ t.input \in Inbound /\ t.outcome \in TurnOutcomes
    BY DEF RuntimeTypeOK, CurrentLease, Fits, At
  <1>2. /\ event[t.input].revision = 0 /\ t.revision = cs.revision
        /\ t.input \in Inputs /\ t.input \notin Resumes
    BY <1>1, StoreAssumption DEF CommitTurn, TurnVerdict, Inputs
  <1>3. t.state \in States /\ t.catalog \in Catalogs
    BY <1>1 DEF Executions
  <1>4. e \in Events /\ e.revision = cs.revision + 1 /\ e.outcome = t.outcome /\ e.outcome # "NONE"
    BY <1>1, <1>3 DEF Events, Outcomes, TurnOutcomes, RuntimeTypeOK, TypeOK
  <1>5. /\ event' = [event EXCEPT ![t.input] = e]
        /\ cs'.state = t.state /\ cs'.revision = cs.revision + 1
        /\ requests' = requests \cup t.state.requests
    BY DEF CommitTurn, StoreState, Materialized
  <1>6. /\ cs.state.requests \subseteq t.state.requests
        /\ t.state.applied = IF t.outcome \in {"PROPOSED", "OPERATOR"}
                             THEN cs.state.applied \cup {t.input} ELSE cs.state.applied
    BY <1>1, <1>2 DEF Leased, At
  <1> HIDE DEF e
  <1>7. DataInv'
    BY <1>2, <1>3, <1>4, <1>5, <1>6, CommitData
  <1>8. mode \in Modes /\ conv' = Project(mode, t.state)
    BY DEF CommitTurn, TurnMode, ProjectedMode, Modes, RuntimeTypeOK, TypeOK, Conversations
  <1>9. t.state.handoff => mode # "bot"
    BY <1>2 DEF TurnMode, ProjectedMode
  <1>10. ControlInv'
    BY <1>3, <1>5, <1>8, <1>9, CommitControl
  <1> QED
    BY <1>7, <1>10

LEMMA OperatorCommits ==
    ASSUME RuntimeTypeOK, CurrentLease, DataInv, NEW w \in Workers, At(w, "commit_operator"),
           NEW control, NEW reply, NEW b, NEW a,
           CommitOperator(worker[w].input, worker[w].revision, control, worker[w].catalog,
                          worker[w].state, reply, ProjectedMode(w), b, a)
    PROVE  DataInv' /\ ControlInv'
  <1> DEFINE t == worker[w]
             mode == OperatorMode(t.input, ProjectedMode(w))
             e == [revision |-> cs.revision + 1, outcome |-> "OPERATOR", catalog |-> t.catalog,
                   replied |-> reply /\ mode = "bot"]
  <1>1. /\ t \in Executions /\ Fits(t) /\ Leased(t)
        /\ t.input \in Commands /\ t.outcome = "OPERATOR"
    BY DEF RuntimeTypeOK, CurrentLease, Fits, At
  <1>2. event[t.input].revision = 0 /\ t.revision = cs.revision /\ t.input \in Inputs
    BY <1>1 DEF CommitOperator, OperatorVerdict, Inputs
  <1>3. t.state \in States /\ t.catalog \in Catalogs
    BY <1>1 DEF Executions
  <1>4. e \in Events /\ e.revision = cs.revision + 1 /\ e.outcome = "OPERATOR"
    BY <1>1, <1>3 DEF Events, Outcomes, RuntimeTypeOK, TypeOK
  <1>5. /\ event' = [event EXCEPT ![t.input] = e]
        /\ cs'.state = t.state /\ cs'.revision = cs.revision + 1
        /\ requests' = requests \cup t.state.requests
    BY DEF CommitOperator, StoreState, Materialized
  <1>6. /\ cs.state.requests \subseteq t.state.requests
        /\ t.state.applied = cs.state.applied \cup {t.input}
    BY <1>1, <1>2 DEF Leased, At
  <1> HIDE DEF e
  <1>7. DataInv'
    BY <1>2, <1>3, <1>4, <1>5, <1>6, CommitData
  <1>8. mode \in Modes /\ conv' = Project(mode, t.state)
    BY DEF CommitOperator, OperatorMode, TurnMode, ProjectedMode, Modes, RuntimeTypeOK, TypeOK,
           Conversations
  <1>9. t.state.handoff => mode # "bot"
    BY <1>1 DEF OperatorMode, TurnMode, ProjectedMode, Leased, At
  <1>10. ControlInv'
    BY <1>3, <1>5, <1>8, <1>9, CommitControl
  <1> QED
    BY <1>7, <1>10

\* A step that leaves the state and the control alone, and takes the row at
\* most back to the inbox.
LEMMA QuietControl ==
    ASSUME ControlInv, cs'.state = cs.state, conv'.mode = conv.mode, conv'.official = conv.official,
           conv'.queue \in {conv.queue, "inbox"}
    PROVE  ControlInv'
  BY DEF ControlInv, HandoffIsOfficial, HandoffStaysWithTeam, WaitingCitizenIsAsked

LEMMA ReceiveInv ==
    ASSUME RuntimeTypeOK, DataInv, ControlInv, NEW w \in Workers, NEW i \in Inbound, Receive(w, i)
    PROVE  DataInv' /\ ControlInv'
  <1>1. /\ event' = event /\ requests' = requests
        /\ cs'.revision = cs.revision /\ cs'.state = cs.state
    BY DEF Receive, AcquireInbound, RuntimeTypeOK, TypeOK
  <1>2. /\ conv'.mode = conv.mode /\ conv'.official = conv.official
        /\ conv'.queue \in {conv.queue, "inbox"}
    BY DEF Receive, AcquireInbound, RuntimeTypeOK, TypeOK, Conversations
  <1> QED
    BY <1>1, <1>2, QuietData, QuietControl

LEMMA CommitStepsInv ==
    ASSUME RuntimeTypeOK, CurrentLease, DataInv, ControlInv, NEW w \in Workers,
           CommitTurnStep(w) \/ CommitOperatorStep(w)
    PROVE  DataInv' /\ ControlInv'
  <1>1. CASE UNCHANGED store
    BY <1>1, QuietData, QuietControl DEF store
  <1>2. CASE CommitTurnStep(w)
    BY <1>1, <1>2, TurnCommits DEF CommitTurnStep
  <1>3. CASE CommitOperatorStep(w)
    <2>1. ASSUME NEW b, NEW a,
                 CommitOperator(worker[w].input, worker[w].revision,
                                command[worker[w].input].control, worker[w].catalog,
                                worker[w].state, ProjectedMode(w) = "bot", ProjectedMode(w), b, a)
          PROVE  DataInv' /\ ControlInv'
      BY <1>3, <2>1, OperatorCommits DEF CommitOperatorStep
    <2> QED
      BY <1>1, <1>3, <2>1 DEF CommitOperatorStep
  <1> QED
    BY <1>2, <1>3

\* A panel call changes the mode, but an official row never to bot.
LEMMA PanelInv ==
    ASSUME RuntimeTypeOK, DataInv, ControlInv, NEW m \in Modes, Panel(m)
    PROVE  DataInv' /\ ControlInv'
  <1>1. /\ event' = event /\ requests' = requests /\ cs' = cs
        /\ conv'.mode = m /\ conv'.official = conv.official /\ (conv.official => m # "bot")
        /\ conv.official => conv'.queue # "waiting_citizen"
    BY DEF Panel, SetAutomationMode, PanelMode, PanelQueue, RuntimeTypeOK, TypeOK, Conversations
  <1>2. DataInv'
    BY <1>1, QuietData
  <1>3. ControlInv'
    BY <1>1 DEF ControlInv, HandoffIsOfficial, HandoffStaysWithTeam, WaitingCitizenIsAsked
  <1> QED
    BY <1>2, <1>3

LEMMA UpgradeInv ==
    ASSUME RuntimeTypeOK, DataInv, ControlInv, Upgrade
    PROVE  DataInv' /\ ControlInv'
  <1>1. /\ event' = event /\ requests' = requests /\ conv' = conv
        /\ cs'.revision = cs.revision /\ cs'.state = cs.state
    BY DEF Upgrade, UpgradeCatalog, RuntimeTypeOK, TypeOK
  <1> QED
    BY <1>1, QuietData, QuietControl

\* The other steps touch at most the outbox.
LEMMA OutboxInv ==
    ASSUME DataInv, ControlInv,
           \/ \E w \in Workers : \/ PlanTurn(w) \/ Replay(w) \/ ClaimDelivery(w) \/ SendText(w)
                                 \/ SendRejected(w) \/ CompleteDelivery(w) \/ FailDelivery(w)
                                 \/ Fault(w) \/ \E c \in Commands : Snapshot(w, c)
           \/ \E c \in Commands : Compose(c)
           \/ \E x \in Inputs : Expire(x)
           \/ Deploy
           \/ UNCHANGED vars
    PROVE  DataInv' /\ ControlInv'
  <1>1. event' = event /\ requests' = requests /\ conv' = conv /\ cs' = cs
    BY DEF PlanTurn, Replay, ClaimDelivery, Claim, CancelStale, SendText, SendRejected,
           CompleteDelivery, FailDelivery, Settle, Fault, Snapshot, Compose, Expire, ClaimExpires,
           Deploy, vars, store
  <1> QED
    BY <1>1, QuietData, QuietControl

LEMMA RuntimeNextData ==
    ASSUME RuntimeTypeOK, CurrentLease, DataInv, ControlInv, [RuntimeNext]_vars
    PROVE  DataInv' /\ ControlInv'
  BY ReceiveInv, CommitStepsInv, PanelInv, UpgradeInv, OutboxInv DEF RuntimeNext, Progress

\* The invariant of the runtime: its parts need each other.  A commit is
\* well-typed because its input fits its stage, it is the next number because
\* its input has none, and it overwrites nothing because its lease is current.
THEOREM RuntimeInvariant == RuntimeSpec => []RuntimeInv
  <1>1. RuntimeInit => RuntimeInv
    BY RuntimeInitInv
  <1>2. RuntimeInv /\ [RuntimeNext]_vars => RuntimeInv'
    <2> SUFFICES ASSUME RuntimeInv, [RuntimeNext]_vars PROVE RuntimeInv'
      OBVIOUS
    <2>1. RuntimeTypeOK /\ CurrentLease /\ DataInv /\ ControlInv
      BY DEF RuntimeInv, DataInv, ControlInv
    <2>2. RuntimeTypeOK' /\ CurrentLease'
      BY <2>1, RuntimeNextType, RuntimeNextLease
    <2>3. DataInv' /\ ControlInv'
      BY <2>1, RuntimeNextData
    <2> QED
      BY <2>2, <2>3 DEF RuntimeInv, DataInv, ControlInv
  <1> QED
    BY <1>1, <1>2, PTL DEF RuntimeSpec

\* Every row and every execution keeps the declared shape.
THEOREM RuntimeTypes == RuntimeSpec => []RuntimeTypeOK
  BY RuntimeInvariant, PTL DEF RuntimeInv

\* The numbering of turn events and operator events, under the callers the
\* edge function really makes: no gap and no clash.
THEOREM RuntimeRevisionLog == RuntimeSpec => []RevisionLog
  BY RuntimeInvariant, PTL DEF RuntimeInv

\* An execution whose lease is current holds the stored state or what its own
\* input makes of it.
THEOREM RuntimeCurrentLease == RuntimeSpec => []CurrentLease
  BY RuntimeInvariant, PTL DEF RuntimeInv

\* However many executions plan at the same time, die or are repeated, the
\* stored state has absorbed exactly the inputs whose commit was accepted.
THEOREM NoUpdateIsLost == RuntimeSpec => []NoLostUpdate
  BY RuntimeInvariant, PTL DEF RuntimeInv

\* The service requests in the panel are those of the stored state.
THEOREM NoRequestIsOrphaned == RuntimeSpec => []NoOrphanRequest
  BY RuntimeInvariant, PTL DEF RuntimeInv

\* While the engine waits for a person the bot does not own the conversation.
THEOREM HandoffIsKept == RuntimeSpec => []HandoffStaysWithTeam
  BY RuntimeInvariant, PTL DEF RuntimeInv

\* The panel's queue says "waiting for the citizen" only of a conversation the
\* bot owns and whose state asks the citizen something.
THEOREM WaitingIsAsked == RuntimeSpec => []WaitingCitizenIsAsked
  BY RuntimeInvariant, PTL DEF RuntimeInv

(***************************************************************************)
(* Action properties                                                       *)
(***************************************************************************)

\* A commit keeps the catalog of a stored state, an upgrade advances it.
LEMMA CatalogStep ==
    ASSUME RuntimeInv, [RuntimeNext]_vars, ~ cs.state.null
    PROVE  cs'.catalog >= cs.catalog
  <1>1. RuntimeTypeOK /\ TypeOK /\ cs.catalog \in Nat
    BY DEF RuntimeInv, RuntimeTypeOK, TypeOK, Catalogs, NoCatalog
  <1>2. CASE cs' = cs
    BY <1>1, <1>2
  <1>3. ASSUME NEW i \in Inbound, AcquireInbound(i, deployed) PROVE cs'.catalog >= cs.catalog
    BY <1>1, <1>3 DEF AcquireInbound, TypeOK, RuntimeTypeOK, Catalogs, NoCatalog
  <1>4. ASSUME NEW w \in Workers, CommitTurnStep(w) PROVE cs'.catalog >= cs.catalog
    <2>1. CASE UNCHANGED store
      BY <1>2, <2>1 DEF store
    <2>2. ASSUME NEW i, NEW e, NEW k, NEW s, NEW o, NEW r, NEW m, NEW b, NEW a,
                 CommitTurn(i, e, k, s, o, r, m, b, a)
          PROVE  cs'.catalog >= cs.catalog
      BY <1>1, <2>2 DEF CommitTurn, TurnVerdict, StoreState
    <2> QED
      BY <1>4, <2>1, <2>2 DEF CommitTurnStep
  <1>5. ASSUME NEW w \in Workers, CommitOperatorStep(w) PROVE cs'.catalog >= cs.catalog
    <2>1. CASE UNCHANGED store
      BY <1>2, <2>1 DEF store
    <2>2. ASSUME NEW c, NEW e, NEW v, NEW k, NEW s, NEW r, NEW m, NEW b, NEW a,
                 CommitOperator(c, e, v, k, s, r, m, b, a)
          PROVE  cs'.catalog >= cs.catalog
      BY <1>1, <2>2 DEF CommitOperator, OperatorVerdict, StoreState
    <2> QED
      BY <1>5, <2>1, <2>2 DEF CommitOperatorStep
  <1>6. CASE Upgrade
    BY <1>1, <1>6 DEF Upgrade, UpgradeCatalog, TypeOK, RuntimeTypeOK, Catalogs
  <1>7. ASSUME NEW w \in Workers, Progress(w), ~ CommitTurnStep(w), ~ CommitOperatorStep(w)
        PROVE  cs' = cs
    BY <1>7 DEF Progress, PlanTurn, Replay, ClaimDelivery, Claim, CancelStale, SendText,
                SendRejected, CompleteDelivery, FailDelivery, Settle, store
  <1>8. CASE \/ \E w \in Workers, c \in Commands : Snapshot(w, c)
             \/ \E w \in Workers : Fault(w)
             \/ \E c \in Commands : Compose(c)
             \/ \E m \in Modes : Panel(m)
             \/ \E x \in Inputs : Expire(x)
             \/ Deploy \/ UNCHANGED vars
    <2>1. cs' = cs
      BY <1>8 DEF Snapshot, Fault, Compose, Panel, SetAutomationMode, Expire, ClaimExpires, Deploy,
                  vars, store
    <2> QED
      BY <1>2, <2>1
  <1> QED
    BY <1>2, <1>3, <1>4, <1>5, <1>6, <1>7, <1>8 DEF RuntimeNext, Receive

\* No execution that outlived a deployment, and no upgrade, puts a stored
\* state back under an older catalog.
THEOREM CatalogAdvances == RuntimeSpec => CatalogNeverRegresses
  <1>1. RuntimeInv /\ [RuntimeNext]_vars => [~ cs.state.null => cs'.catalog >= cs.catalog]_vars
    BY CatalogStep
  <1> QED
    BY <1>1, RuntimeInvariant, PTL DEF RuntimeSpec, CatalogNeverRegresses

\* A command composed under the present version shows the present control:
\* whatever changes the control or receives a message moves the version.
ShownIsCurrent ==
    \A c \in Commands : command[c].sent =>
        /\ command[c].control <= conv.version
        /\ command[c].control = conv.version => command[c].shown = ControlShown

LEMMA VersionMoves ==
    ASSUME RuntimeTypeOK, ShownIsCurrent, command' = command,
           \/ conv' = conv /\ \A i \in Inbound : receipt'[i] = "NONE" <=> receipt[i] = "NONE"
           \/ conv'.version = conv.version + 1
    PROVE  ShownIsCurrent'
  <1>1. conv.version \in Nat /\ \A c \in Commands : command[c].control \in Nat
    BY DEF RuntimeTypeOK, TypeOK, Conversations, Compositions
  <1>2. CASE conv' = conv /\ \A i \in Inbound : receipt'[i] = "NONE" <=> receipt[i] = "NONE"
    <2>1. ControlShown' = ControlShown
      BY <1>2 DEF ControlShown
    <2> QED
      BY <1>2, <2>1 DEF ShownIsCurrent
  <1>3. CASE conv'.version = conv.version + 1
    BY <1>1, <1>3 DEF ShownIsCurrent
  <1> QED
    BY <1>2, <1>3

LEMMA ShownStep ==
    ASSUME RuntimeInv, ShownIsCurrent, [RuntimeNext]_vars
    PROVE  ShownIsCurrent'
  <1>1. RuntimeTypeOK /\ TypeOK /\ conv \in Conversations
    BY DEF RuntimeInv, RuntimeTypeOK, TypeOK
  <1>2. ASSUME NEW w \in Workers, NEW i \in Inbound, Receive(w, i) PROVE ShownIsCurrent'
    <2>1. CASE receipt[i] = "NONE"
      BY <1>1, <1>2, <2>1, VersionMoves DEF Receive, AcquireInbound, Conversations
    <2>2. CASE receipt[i] # "NONE"
      BY <1>1, <1>2, <2>2, VersionMoves DEF Receive, AcquireInbound, TypeOK
    <2> QED
      BY <2>1, <2>2
  <1>3. ASSUME NEW w \in Workers, CommitTurnStep(w) \/ CommitOperatorStep(w) PROVE ShownIsCurrent'
    <2>1. CASE UNCHANGED store
      BY <1>1, <1>3, <2>1, VersionMoves DEF CommitTurnStep, CommitOperatorStep, store
    <2>2. ASSUME NEW i, NEW e, NEW k, NEW s, NEW o, NEW r, NEW m, NEW b, NEW a,
                 CommitTurn(i, e, k, s, o, r, m, b, a)
          PROVE  conv'.version = conv.version + 1
      BY <1>1, <2>2 DEF CommitTurn, Project, Conversations
    <2>3. ASSUME NEW c, NEW e, NEW v, NEW k, NEW s, NEW r, NEW m, NEW b, NEW a,
                 CommitOperator(c, e, v, k, s, r, m, b, a)
          PROVE  conv'.version = conv.version + 1
      BY <1>1, <2>3 DEF CommitOperator, Project, Conversations
    <2>4. \/ UNCHANGED store
          \/ conv'.version = conv.version + 1
      BY <1>3, <2>2, <2>3 DEF CommitTurnStep, CommitOperatorStep
    <2> QED
      BY <1>1, <1>3, <2>1, <2>4, VersionMoves DEF CommitTurnStep, CommitOperatorStep
  <1>4. ASSUME NEW m \in Modes, Panel(m) PROVE ShownIsCurrent'
    BY <1>1, <1>4, VersionMoves DEF Panel, SetAutomationMode, PanelMode, Conversations
  <1>5. ASSUME NEW c \in Commands, Compose(c) PROVE ShownIsCurrent'
    <2>1. conv' = conv /\ receipt' = receipt
      BY <1>5 DEF Compose, store
    <2>2. ControlShown' = ControlShown
      BY <2>1 DEF ControlShown
    <2>3. /\ command'[c].control = conv.version /\ command'[c].shown = ControlShown
          /\ \A d \in Commands \ {c} : command'[d] = command[d]
      BY <1>1, <1>5 DEF Compose, RuntimeTypeOK
    <2> QED
      BY <1>1, <2>1, <2>2, <2>3 DEF ShownIsCurrent, Conversations
  <1>6. CASE \/ \E w \in Workers : \/ PlanTurn(w) \/ Replay(w) \/ ClaimDelivery(w) \/ SendText(w)
                                   \/ SendRejected(w) \/ CompleteDelivery(w) \/ FailDelivery(w)
                                   \/ Fault(w) \/ \E c \in Commands : Snapshot(w, c)
             \/ \E x \in Inputs : Expire(x)
             \/ Deploy \/ Upgrade \/ UNCHANGED vars
    <2>1. conv' = conv /\ receipt' = receipt /\ command' = command
      BY <1>6 DEF PlanTurn, Replay, ClaimDelivery, Claim, CancelStale, SendText, SendRejected,
             CompleteDelivery, FailDelivery, Settle, Fault, Snapshot, Expire, ClaimExpires, Deploy,
             Upgrade, UpgradeCatalog, vars, store
    <2> QED
      BY <1>1, <2>1, VersionMoves
  <1> QED
    BY <1>2, <1>3, <1>4, <1>5, <1>6 DEF RuntimeNext, Progress

\* The events of the commands change only when an execution commits one.
LEMMA ResumeStep ==
    ASSUME RuntimeInv, ShownIsCurrent, [RuntimeNext]_vars, NEW c \in Resumes,
           event[c].revision = 0, event'[c].revision # 0
    PROVE  command[c].shown = ControlShown
  <1>1. RuntimeTypeOK /\ CurrentLease /\ event \in [Inputs -> Events] /\ c \in Commands /\ c \notin Inbound
    BY StoreAssumption DEF RuntimeInv, RuntimeTypeOK, TypeOK
  <1>2. event' # event
    OBVIOUS
  <1>3. PICK w \in Workers : CommitTurnStep(w) \/ CommitOperatorStep(w)
    BY <1>2 DEF RuntimeNext, Progress, Receive, AcquireInbound, Panel, SetAutomationMode, Upgrade,
           UpgradeCatalog, PlanTurn, Replay, ClaimDelivery, Claim, CancelStale, SendText,
           SendRejected, CompleteDelivery, FailDelivery, Settle, Fault, Snapshot, Compose, Expire,
           ClaimExpires, Deploy, vars, store
  <1>4. Fits(worker[w])
    BY <1>1 DEF CurrentLease
  <1>5. CASE CommitTurnStep(w)
    <2>1. worker[w].input \in Inbound
      BY <1>4, <1>5 DEF CommitTurnStep, At, Fits
    <2>2. event'[c] = event[c]
      BY <1>1, <1>5, <2>1 DEF CommitTurnStep, CommitTurn, store, Inputs
    <2> QED
      BY <2>2
  <1>6. CASE CommitOperatorStep(w)
    <2> DEFINE x == worker[w].input
    <2>1. x \in Commands /\ command[x].sent
      BY <1>4, <1>6 DEF CommitOperatorStep, At, Fits
    <2>2. ~ UNCHANGED store
      BY <1>2 DEF store
    <2>3. PICK e, k, s, r, m, b, a : CommitOperator(x, e, command[x].control, k, s, r, m, b, a)
      BY <1>6, <2>2 DEF CommitOperatorStep
    <2>4. x = c
      BY <1>1, <2>1, <2>3 DEF CommitOperator, Inputs
    <2>5. command[c].control = conv.version
      BY <2>3, <2>4 DEF CommitOperator, OperatorVerdict
    <2> QED
      BY <1>1, <2>1, <2>4, <2>5 DEF ShownIsCurrent
  <1> QED
    BY <1>3, <1>5, <1>6

\* The operator who ends a takeover has seen the control as it is, and every
\* message received until then, however late the RESUME arrives.
THEOREM ResumeIsInformed == RuntimeSpec => ResumeSeesCurrentControl
  <1>1. RuntimeInit => ShownIsCurrent
    BY DEF RuntimeInit, Uncomposed, ShownIsCurrent
  <1>2. RuntimeInv /\ ShownIsCurrent /\ [RuntimeNext]_vars => ShownIsCurrent'
    BY ShownStep
  <1>3. RuntimeInv /\ ShownIsCurrent /\ [RuntimeNext]_vars =>
          [\A c \in Resumes : event[c].revision = 0 /\ event'[c].revision # 0 =>
              command[c].shown = ControlShown]_vars
    BY ResumeStep
  <1> QED
    BY <1>1, <1>2, <1>3, RuntimeInvariant, PTL DEF RuntimeSpec, ResumeSeesCurrentControl

(***************************************************************************)
(* The refinement of the conversation log                                  *)
(***************************************************************************)

\* Every commit makes the row an official one, so a row of the old panel has
\* an empty log.
LegacyIsEmpty == ~ conv.official => cs.revision = 0

LogNow == [r \in 1 .. cs.revision |-> CHOOSE x \in Inputs : event[x].revision = r]

OwnerNow == IF conv.mode = "bot" THEN "bot" ELSE "team"

\* The numbering leaves no choice: position r holds the one input with event r.
Positions ==
    /\ cs.revision \in Nat
    /\ \A r \in 1 .. cs.revision : LogNow[r] \in Inputs /\ event[LogNow[r]].revision = r
    /\ \A x \in Inputs : event[x].revision # 0 =>
         event[x].revision \in 1 .. cs.revision /\ LogNow[event[x].revision] = x

LEMMA LogPositions == RuntimeInv => Positions
  <1> SUFFICES ASSUME RuntimeInv PROVE Positions
    OBVIOUS
  <1>1. /\ RevisionLog /\ cs.revision \in Nat
        /\ \A x \in Inputs : event[x].revision \in Nat
    BY DEF RuntimeInv, RuntimeTypeOK, TypeOK, Events
  <1>2. ASSUME NEW r \in 1 .. cs.revision
        PROVE  LogNow[r] \in Inputs /\ event[LogNow[r]].revision = r
    <2>1. \E x \in Inputs : event[x].revision = r
      BY <1>1 DEF RevisionLog
    <2>2. LogNow[r] = CHOOSE x \in Inputs : event[x].revision = r
      BY DEF LogNow
    <2> QED
      BY <2>1, <2>2
  <1>3. ASSUME NEW x \in Inputs, event[x].revision # 0
        PROVE  event[x].revision \in 1 .. cs.revision /\ LogNow[event[x].revision] = x
    <2>1. event[x].revision \in 1 .. cs.revision
      BY <1>1, <1>3 DEF RevisionLog
    <2>2. /\ LogNow[event[x].revision] \in Inputs
          /\ event[LogNow[event[x].revision]].revision = event[x].revision
      BY <1>2, <2>1
    <2> QED
      BY <1>1, <1>3, <2>1, <2>2 DEF RevisionLog
  <1> QED
    BY <1>1, <1>2, <1>3 DEF Positions

\* A commit appends its input, which was at no position before.
LEMMA LogGrows ==
    ASSUME RuntimeTypeOK, Positions, Positions', NEW x \in Inputs,
           event[x].revision = 0, NEW e, event' = [event EXCEPT ![x] = e],
           e.revision = cs.revision + 1, cs'.revision = cs.revision + 1
    PROVE  /\ \A k \in DOMAIN LogNow : LogNow[k] # x
           /\ LogNow' = Append(LogNow, x)
  <1> DEFINE n == cs.revision
  <1>1. n \in Nat /\ DOMAIN LogNow = 1 .. n /\ DOMAIN LogNow' = 1 .. n + 1
    BY DEF Positions, LogNow
  <1>2. \A k \in 1 .. n : LogNow[k] # x
    BY <1>1 DEF Positions
  <1>3. event \in [Inputs -> Events]
    BY DEF RuntimeTypeOK, TypeOK
  <1>4. /\ event'[x].revision = n + 1
        /\ \A y \in Inputs \ {x} : event'[y] = event[y]
    BY <1>3
  <1>5. LogNow'[n + 1] = x
    <2>1. \A y \in Inputs : event'[y].revision # 0 => LogNow'[event'[y].revision] = y
      BY DEF Positions
    <2> QED
      BY <1>1, <1>4, <2>1
  <1>6. ASSUME NEW k \in 1 .. n
        PROVE  LogNow'[k] = LogNow[k]
    <2>1. LogNow[k] \in Inputs \ {x} /\ event[LogNow[k]].revision = k
      BY <1>2 DEF Positions
    <2>2. event'[LogNow[k]].revision = k
      BY <1>4, <2>1
    <2>3. \A y \in Inputs : event'[y].revision # 0 => LogNow'[event'[y].revision] = y
      BY DEF Positions
    <2> QED
      BY <1>1, <2>1, <2>2, <2>3
  <1>7. LogNow \in Seq(Inputs) /\ Len(LogNow) = n
    <2>1. LogNow \in [1 .. n -> Inputs]
      BY <1>1 DEF Positions, LogNow
    <2> QED
      BY <1>1, <2>1
  <1>8. LogNow' \in Seq(Inputs) /\ Len(LogNow') = n + 1
    <2>1. ASSUME NEW r \in 1 .. n + 1 PROVE LogNow'[r] \in Inputs
      <3>1. r \in 1 .. cs'.revision
        BY <1>1
      <3> QED
        BY <3>1 DEF Positions
    <2>2. LogNow' = [r \in 1 .. n + 1 |-> LogNow'[r]]
      BY DEF LogNow
    <2>3. LogNow' \in [1 .. n + 1 -> Inputs]
      BY <2>1, <2>2
    <2> QED
      BY <1>1, <2>3
  <1>9. /\ Append(LogNow, x) \in Seq(Inputs) /\ Len(Append(LogNow, x)) = n + 1
        /\ Append(LogNow, x)[n + 1] = x
        /\ \A k \in 1 .. n : Append(LogNow, x)[k] = LogNow[k]
    BY <1>7
  <1>10. LogNow' = Append(LogNow, x)
    <2> DEFINE s == LogNow'
               t == Append(LogNow, x)
    <2>1. \A k \in 1 .. n + 1 : k \in 1 .. n \/ k = n + 1
      BY <1>1
    <2>2. \A k \in 1 .. n + 1 : s[k] = t[k]
      BY <1>5, <1>6, <1>9, <2>1
    <2>3. s \in Seq(Inputs) /\ t \in Seq(Inputs) /\ Len(s) = n + 1 /\ Len(t) = n + 1
      BY <1>8, <1>9
    <2> HIDE DEF s, t
    <2>4. s = t
      BY <1>1, <2>2, <2>3, SeqEqual
    <2> QED
      BY <2>4 DEF s, t
  <1> QED
    BY <1>1, <1>2, <1>10

\* What a commit is to the log: its input takes effect, and only a RESUME
\* may take the conversation from the team.
LEMMA CommitAbsorbs ==
    ASSUME RuntimeTypeOK, Positions, Positions', NEW x \in Inputs,
           event[x].revision = 0, NEW e, event' = [event EXCEPT ![x] = e],
           e.revision = cs.revision + 1, cs'.revision = cs.revision + 1,
           IF x \in Resumes THEN conv'.mode = "bot"
                            ELSE conv.mode # "bot" => conv'.mode # "bot"
    PROVE  Log!Absorb(x)
  <1>1. /\ \A k \in DOMAIN LogNow : LogNow[k] # x
        /\ LogNow' = Append(LogNow, x)
    BY LogGrows
  <1>2. OwnerNow' \in IF x \in Resumes THEN {"bot"} ELSE {OwnerNow, "team"}
    BY DEF OwnerNow
  <1> QED
    BY <1>1, <1>2 DEF Log!Absorb, Log!Logged, LogNow, OwnerNow

LEMMA CommitStepAbsorbs ==
    ASSUME RuntimeInv, Positions, Positions', NEW w \in Workers, CommitTurnStep(w) \/ CommitOperatorStep(w)
    PROVE  \/ UNCHANGED store
           \/ /\ conv'.official
              /\ \E x \in Inputs : Log!Absorb(x)
  <1> DEFINE x == worker[w].input
  <1>1. /\ RuntimeTypeOK /\ Fits(worker[w])
        /\ conv \in Conversations
    BY DEF RuntimeInv, CurrentLease, RuntimeTypeOK, TypeOK
  <1>2. CASE CommitTurnStep(w)
    <2>1. ASSUME NEW b, NEW a,
                 CommitTurn(x, worker[w].revision, worker[w].catalog, worker[w].state,
                            worker[w].outcome, worker[w].reply, ProjectedMode(w), b, a)
          PROVE  conv'.official /\ \E y \in Inputs : Log!Absorb(y)
      <3>1. x \in Inputs /\ x \notin Resumes
        BY <1>1, <1>2, StoreAssumption DEF CommitTurnStep, At, Fits, Inputs
      <3>2. event[x].revision = 0 /\ cs'.revision = cs.revision + 1
        BY <2>1 DEF CommitTurn, TurnVerdict, StoreState
      <3> DEFINE e == [revision |-> cs.revision + 1, outcome |-> worker[w].outcome,
                       catalog |-> worker[w].catalog,
                       replied |-> worker[w].reply /\ conv.mode = "bot"]
      <3>3. event' = [event EXCEPT ![x] = e] /\ e.revision = cs.revision + 1
        BY <2>1 DEF CommitTurn
      <3> HIDE DEF e
      <3>4. conv'.official /\ (conv.mode # "bot" => conv'.mode # "bot")
        BY <1>1, <2>1 DEF CommitTurn, TurnMode, Project, Conversations
      <3> QED
        BY <1>1, <3>1, <3>2, <3>3, <3>4, CommitAbsorbs
    <2> QED
      BY <1>2, <2>1 DEF CommitTurnStep
  <1>3. CASE CommitOperatorStep(w)
    <2>1. ASSUME NEW b, NEW a,
                 CommitOperator(x, worker[w].revision, command[x].control, worker[w].catalog,
                                worker[w].state, ProjectedMode(w) = "bot", ProjectedMode(w), b, a)
          PROVE  conv'.official /\ \E y \in Inputs : Log!Absorb(y)
      <3>1. x \in Inputs
        BY <1>1, <1>3 DEF CommitOperatorStep, At, Fits, Inputs
      <3>2. event[x].revision = 0 /\ cs'.revision = cs.revision + 1
        BY <2>1 DEF CommitOperator, OperatorVerdict, StoreState
      <3> DEFINE m == OperatorMode(x, ProjectedMode(w))
                 e == [revision |-> cs.revision + 1, outcome |-> "OPERATOR",
                       catalog |-> worker[w].catalog,
                       replied |-> (ProjectedMode(w) = "bot") /\ m = "bot"]
      <3>3. event' = [event EXCEPT ![x] = e] /\ e.revision = cs.revision + 1
        BY <2>1 DEF CommitOperator
      <3> HIDE DEF e
      <3>4. conv'.official /\ IF x \in Resumes THEN conv'.mode = "bot"
                                               ELSE conv.mode # "bot" => conv'.mode # "bot"
        BY <1>1, <2>1 DEF CommitOperator, OperatorMode, TurnMode, Project, Conversations
      <3> QED
        BY <1>1, <3>1, <3>2, <3>3, <3>4, CommitAbsorbs
    <2> QED
      BY <1>3, <2>1 DEF CommitOperatorStep
  <1> QED
    BY <1>2, <1>3

\* A panel call takes over, or hands back a row whose log is empty.
LEMMA PanelOwns ==
    ASSUME RuntimeInv, LegacyIsEmpty, NEW m \in Modes, Panel(m)
    PROVE  Log!TakeOver \/ Log!HandBack
  <1>1. /\ conv'.mode = m /\ (m = "bot" => ~ conv.official)
        /\ event' = event /\ cs' = cs
    BY DEF Panel, SetAutomationMode, PanelMode, RuntimeInv, RuntimeTypeOK, TypeOK, Conversations
  <1>2. LogNow' = LogNow
    BY <1>1 DEF LogNow
  <1>3. CASE m = "bot"
    <2>1. cs.revision = 0
      BY <1>1, <1>3 DEF LegacyIsEmpty
    <2>2. LogNow = <<>>
      BY <2>1 DEF LogNow
    <2>3. OwnerNow' = "bot"
      BY <1>1, <1>3 DEF OwnerNow
    <2> QED
      BY <1>2, <2>2, <2>3 DEF Log!HandBack, LogNow, OwnerNow
  <1>4. CASE m # "bot"
    <2>1. OwnerNow' = "team"
      BY <1>1, <1>4 DEF OwnerNow
    <2> QED
      BY <1>2, <2>1 DEF Log!TakeOver, LogNow, OwnerNow
  <1> QED
    BY <1>3, <1>4

\* Every other step is a stutter of the log.
LEMMA QuietLog ==
    ASSUME event' = event, cs'.revision = cs.revision, conv'.mode = conv.mode
    PROVE  UNCHANGED Log!vars
  <1>1. LogNow' = LogNow /\ OwnerNow' = OwnerNow
    BY DEF LogNow, OwnerNow
  <1> QED
    BY <1>1 DEF Log!vars, LogNow, OwnerNow

LEMMA OtherStepsAreQuiet ==
    ASSUME RuntimeInv,
           \/ \E w \in Workers : \/ PlanTurn(w) \/ Replay(w) \/ ClaimDelivery(w) \/ SendText(w)
                                 \/ SendRejected(w) \/ CompleteDelivery(w) \/ FailDelivery(w)
                                 \/ Fault(w) \/ \E c \in Commands : Snapshot(w, c)
           \/ \E w \in Workers, i \in Inbound : Receive(w, i)
           \/ \E c \in Commands : Compose(c)
           \/ \E x \in Inputs : Expire(x)
           \/ Deploy \/ Upgrade
           \/ UNCHANGED store
           \/ UNCHANGED vars
    PROVE  /\ UNCHANGED Log!vars
           /\ cs'.revision = cs.revision /\ conv'.official = conv.official
  <1>1. conv \in Conversations /\ TypeOK
    BY DEF RuntimeInv, RuntimeTypeOK, TypeOK
  <1>2. ASSUME NEW w \in Workers, NEW i \in Inbound, Receive(w, i)
        PROVE  /\ event' = event /\ cs'.revision = cs.revision
               /\ conv'.mode = conv.mode /\ conv'.official = conv.official
    BY <1>1, <1>2 DEF Receive, AcquireInbound, Conversations, TypeOK
  <1>3. ASSUME Upgrade
        PROVE  /\ event' = event /\ cs'.revision = cs.revision /\ conv' = conv
    BY <1>1, <1>3 DEF Upgrade, UpgradeCatalog, TypeOK
  <1>4. ASSUME ~ \E w \in Workers, i \in Inbound : Receive(w, i), ~ Upgrade
        PROVE  event' = event /\ conv' = conv /\ cs' = cs
    BY <1>4 DEF PlanTurn, Replay, ClaimDelivery, Claim, CancelStale, SendText, SendRejected,
           CompleteDelivery, FailDelivery, Settle, Fault, Snapshot, Compose, Expire, ClaimExpires,
           Deploy, vars, store
  <1>5. /\ event' = event /\ cs'.revision = cs.revision
        /\ conv'.mode = conv.mode /\ conv'.official = conv.official
    BY <1>2, <1>3, <1>4
  <1> QED
    BY <1>5, QuietLog

LEMMA LogStep ==
    ASSUME RuntimeInv, Positions, Positions', LegacyIsEmpty, [RuntimeNext]_vars
    PROVE  [Log!Next]_(Log!vars) /\ LegacyIsEmpty'
  <1>1. ASSUME NEW w \in Workers, CommitTurnStep(w) \/ CommitOperatorStep(w), ~ UNCHANGED store
        PROVE  Log!Next /\ LegacyIsEmpty'
    BY <1>1, CommitStepAbsorbs DEF Log!Next, LegacyIsEmpty
  <1>2. ASSUME NEW m \in Modes, Panel(m)
        PROVE  Log!Next /\ LegacyIsEmpty'
    <2>1. conv'.official = conv.official /\ cs' = cs
      BY <1>2 DEF Panel, SetAutomationMode, PanelMode, RuntimeInv, RuntimeTypeOK, TypeOK,
                  Conversations
    <2> QED
      BY <1>2, <2>1, PanelOwns DEF Log!Next, LegacyIsEmpty
  <1>3. ASSUME ~ \E w \in Workers : (CommitTurnStep(w) \/ CommitOperatorStep(w)) /\ ~ UNCHANGED store,
               ~ \E m \in Modes : Panel(m)
        PROVE  UNCHANGED Log!vars /\ LegacyIsEmpty'
    <2>1. /\ UNCHANGED Log!vars
          /\ cs'.revision = cs.revision /\ conv'.official = conv.official
      BY <1>3, OtherStepsAreQuiet DEF RuntimeNext, Progress
    <2> QED
      BY <2>1 DEF LegacyIsEmpty
  <1> QED
    BY <1>1, <1>2, <1>3

\* The runtime implements the conversation log: whatever executions race,
\* die or are repeated, the committed messages and commands form one sequence
\* in which each occurs at most once, and the bot gets the conversation back
\* from the team only by a RESUME.
THEOREM RuntimeImplementsLog == RuntimeSpec => ImplementsLog
  <1>1. RuntimeInit => Log!Init /\ LegacyIsEmpty
    <2> SUFFICES ASSUME RuntimeInit PROVE Log!Init /\ LegacyIsEmpty
      OBVIOUS
    <2>1. cs.revision = 0 /\ conv.mode = "bot"
      BY DEF RuntimeInit, Init
    <2>2. LogNow = <<>> /\ OwnerNow = "bot"
      BY <2>1 DEF LogNow, OwnerNow
    <2> QED
      BY <2>1, <2>2 DEF Log!Init, LegacyIsEmpty, LogNow, OwnerNow
  <1>2. RuntimeInv /\ Positions /\ Positions' /\ LegacyIsEmpty /\ [RuntimeNext]_vars =>
          [Log!Next]_(Log!vars) /\ LegacyIsEmpty'
    BY LogStep
  <1> QED
    BY <1>1, <1>2, LogPositions, RuntimeInvariant, PTL DEF RuntimeSpec, ImplementsLog, Log!Spec

-----------------------------------------------------------------------------
(***************************************************************************)
(* What the deliveries of the official runtime keep to, for any number of  *)
(* executions and of claims that expire.  Between a claim and what becomes *)
(* of it an execution holds a copy nobody counts yet: the invariant counts *)
(* those executions together with the copies on the phone.                 *)
(***************************************************************************)

\* Executions that claimed x and have not called the provider.
Senders(x) == {w \in Workers : worker[w].at = "send" /\ worker[w].input = x}

CopiesAreClaimed ==
    \A x \in Inputs : /\ IsFiniteSet(Senders(x))
                      /\ Copies(x) + Cardinality(Senders(x)) <= outbox[x].attempts

\* A claim of a row in progress uses up the expiry that made it possible.
ClaimsAreExpiries ==
    \A x \in Inputs :
        /\ outbox[x].status = "PENDING" => outbox[x].attempts = 0 /\ ~ outbox[x].expired
        /\ outbox[x].attempts + (IF outbox[x].expired THEN 1 ELSE 0) <= 1 + spent.expiries

\* An input without an event has no reply: a commit queues each reply once.
UnqueuedFirst == \A x \in Inputs : event[x].revision = 0 => outbox[x] = NoReply

CompletesWhatWasSent ==
    \A w \in Workers : worker[w].at = "complete" => Copies(worker[w].input) > 0

DeliveryInv ==
    /\ CopiesAreClaimed
    /\ ClaimsAreExpiries
    /\ UnqueuedFirst
    /\ CompletesWhatWasSent
    /\ SentReachedPhone

LEMMA CopiesType ==
    ASSUME RuntimeTypeOK, NEW x
    PROVE  /\ IsFiniteSet({k \in DOMAIN phone : phone[k] = x})
           /\ Copies(x) \in Nat
  <1>1. phone \in Seq(Inputs)
    BY DEF RuntimeTypeOK
  <1>2. DOMAIN phone = 1 .. Len(phone) /\ Len(phone) \in Nat
    BY <1>1
  <1>3. IsFiniteSet(DOMAIN phone)
    BY <1>2, FS_Interval
  <1>4. IsFiniteSet({k \in DOMAIN phone : phone[k] = x})
    BY <1>3, FS_Subset
  <1> QED
    BY <1>4, FS_CardinalityType DEF Copies

LEMMA RowType ==
    ASSUME RuntimeTypeOK, NEW x \in Inputs
    PROVE  /\ outbox[x].attempts \in Nat /\ outbox[x].expired \in BOOLEAN
           /\ spent.expiries \in Nat /\ outbox \in [Inputs -> Replies]
           /\ event \in [Inputs -> Events]
  <1>1. outbox \in [Inputs -> Replies] /\ event \in [Inputs -> Events]
    BY DEF RuntimeTypeOK, TypeOK
  <1>2. spent.expiries \in Nat
    BY RuntimeAssumption DEF RuntimeTypeOK
  <1> QED
    BY <1>1, <1>2 DEF Replies

LEMMA DeliveryInit == RuntimeInit => DeliveryInv
  <1> SUFFICES ASSUME RuntimeInit PROVE DeliveryInv
    OBVIOUS
  <1>1. \A x : Senders(x) = {}
    BY DEF RuntimeInit, Senders, Idle, IdleWorker
  <1>2. \A x \in Inputs : outbox[x] = NoReply
    BY DEF RuntimeInit, Init
  <1>3. \A x : Copies(x) = 0
    <2>1. \A x : {k \in DOMAIN phone : phone[k] = x} = {}
      BY DEF RuntimeInit
    <2> QED
      BY <2>1, FS_EmptySet DEF Copies
  <1>4. CopiesAreClaimed
    BY <1>1, <1>2, <1>3, FS_EmptySet DEF CopiesAreClaimed, NoReply
  <1>5. ClaimsAreExpiries /\ UnqueuedFirst /\ SentReachedPhone
    BY <1>2 DEF ClaimsAreExpiries, UnqueuedFirst, SentReachedPhone, NoReply, RuntimeInit
  <1>6. CompletesWhatWasSent
    BY DEF RuntimeInit, CompletesWhatWasSent, Idle, IdleWorker
  <1> QED
    BY <1>4, <1>5, <1>6 DEF DeliveryInv

(***************************************************************************)
(* Steps that neither claim nor send                                       *)
(***************************************************************************)

\* A step that leaves w no nearer to a copy it did not hold.
QuietWorker(w) ==
    worker'[w].at \in {"send", "complete"} =>
        worker'[w].at = worker[w].at /\ worker'[w].input = worker[w].input

\* A step that leaves the claims of x as they are.
QuietRow(x) ==
    /\ event'[x].revision = 0 => event[x].revision = 0 /\ outbox'[x] = outbox[x]
    /\ outbox'[x].attempts = outbox[x].attempts
    /\ outbox'[x].status = "PENDING" => outbox'[x].attempts = 0 /\ ~ outbox'[x].expired
    /\ outbox'[x].expired => \/ outbox[x].expired /\ spent'.expiries >= spent.expiries
                             \/ spent'.expiries > spent.expiries
    /\ spent'.expiries >= spent.expiries
    /\ outbox'[x].status = "SENT" => Copies(x) > 0

LEMMA QuietDelivery ==
    ASSUME RuntimeTypeOK, RuntimeTypeOK', DeliveryInv, phone' = phone,
           \A w \in Workers : QuietWorker(w), \A x \in Inputs : QuietRow(x)
    PROVE  DeliveryInv'
  <1>1. \A x : Copies(x)' = Copies(x)
    BY DEF Copies
  <1>2. CopiesAreClaimed'
    <2> SUFFICES ASSUME NEW x \in Inputs
                 PROVE  /\ IsFiniteSet(Senders(x)')
                        /\ Copies(x)' + Cardinality(Senders(x)') <= outbox'[x].attempts
      BY DEF CopiesAreClaimed
    <2>1. Senders(x)' \in SUBSET Senders(x)
      BY DEF Senders, QuietWorker
    <2>2. IsFiniteSet(Senders(x)) /\ Copies(x) + Cardinality(Senders(x)) <= outbox[x].attempts
      BY DEF DeliveryInv, CopiesAreClaimed
    <2>3. /\ IsFiniteSet(Senders(x)') /\ Cardinality(Senders(x)') <= Cardinality(Senders(x))
      BY <2>1, <2>2, FS_Subset
    <2>4. /\ Copies(x) \in Nat /\ outbox[x].attempts \in Nat
          /\ Cardinality(Senders(x)) \in Nat /\ Cardinality(Senders(x)') \in Nat
      BY <2>2, <2>3, CopiesType, RowType, FS_CardinalityType
    <2> QED
      BY <1>1, <2>2, <2>3, <2>4 DEF QuietRow
  <1>3. ClaimsAreExpiries'
    <2> SUFFICES ASSUME NEW x \in Inputs
                 PROVE  /\ outbox'[x].status = "PENDING" =>
                              outbox'[x].attempts = 0 /\ ~ outbox'[x].expired
                        /\ outbox'[x].attempts + (IF outbox'[x].expired THEN 1 ELSE 0)
                              <= 1 + spent'.expiries
      BY DEF ClaimsAreExpiries
    <2>1. outbox[x].attempts + (IF outbox[x].expired THEN 1 ELSE 0) <= 1 + spent.expiries
      BY DEF DeliveryInv, ClaimsAreExpiries
    <2>2. spent'.expiries \in Nat
      BY RuntimeAssumption DEF RuntimeTypeOK
    <2> QED
      BY <2>1, <2>2, RowType DEF QuietRow
  <1>4. UnqueuedFirst'
    BY DEF UnqueuedFirst, QuietRow, DeliveryInv
  <1>5. CompletesWhatWasSent'
    BY <1>1 DEF CompletesWhatWasSent, QuietWorker, DeliveryInv
  <1>6. SentReachedPhone'
    BY <1>1 DEF SentReachedPhone, QuietRow
  <1> QED
    BY <1>2, <1>3, <1>4, <1>5, <1>6 DEF DeliveryInv

LEMMA SameRow ==
    ASSUME RuntimeTypeOK, DeliveryInv, NEW x \in Inputs,
           outbox'[x] = outbox[x], event'[x] = event[x], spent'.expiries = spent.expiries
    PROVE  QuietRow(x)
  BY RowType DEF QuietRow, DeliveryInv, ClaimsAreExpiries, SentReachedPhone

\* The one execution that moves goes to a stage without a copy.
LEMMA OneMoves ==
    ASSUME RuntimeTypeOK, NEW w \in Workers, NEW rec,
           rec.at \notin {"send", "complete"}, Becomes(w, rec)
    PROVE  \A v \in Workers : QuietWorker(v)
  BY DEF RuntimeTypeOK, Becomes, QuietWorker

LEMMA EndsQuietly ==
    ASSUME RuntimeTypeOK, NEW w \in Workers, Ends(w)
    PROVE  \A v \in Workers : QuietWorker(v)
  <1>1. Idle.at = "idle"
    BY DEF Idle, IdleWorker
  <1> QED
    BY <1>1, OneMoves DEF Ends

LEMMA MovesQuietly ==
    ASSUME RuntimeTypeOK, NEW w \in Workers, NEW stage \in {"claim", "fail"}, Moves(w, stage)
    PROVE  \A v \in Workers : QuietWorker(v)
  <1>1. [worker[w] EXCEPT !.at = stage].at = stage
    BY DEF RuntimeTypeOK, Executions
  <1> QED
    BY <1>1, OneMoves DEF Moves

LEMMA DeliversQuietly ==
    ASSUME RuntimeTypeOK, NEW w \in Workers, NEW replied, Delivers(w, replied)
    PROVE  \A v \in Workers : QuietWorker(v)
  BY EndsQuietly, MovesQuietly DEF Delivers

LEMMA SameRows ==
    ASSUME RuntimeTypeOK, RuntimeTypeOK', DeliveryInv, \A w \in Workers : QuietWorker(w),
           phone' = phone, outbox' = outbox, event' = event, spent'.expiries = spent.expiries
    PROVE  DeliveryInv'
  BY SameRow, QuietDelivery

\* Leases, plans, snapshots, replays, and what happens around the executions.
LEMMA BeforeDelivery ==
    ASSUME RuntimeTypeOK, RuntimeTypeOK', DeliveryInv, NEW w \in Workers,
           \/ \E i \in Inbound : Receive(w, i)
           \/ \E c \in Commands : Snapshot(w, c)
           \/ PlanTurn(w) \/ Replay(w) \/ SendRejected(w) \/ Fault(w)
    PROVE  DeliveryInv'
  <1>1. phone' = phone /\ outbox' = outbox /\ event' = event /\ spent'.expiries = spent.expiries
    BY DEF Receive, AcquireInbound, Snapshot, PlanTurn, Replay, SendRejected, Fault, store,
           RuntimeTypeOK
  <1>2. CASE \E i \in Inbound : Receive(w, i)
    <2>1. PICK i \in Inbound : Receive(w, i)
      BY <1>2
    <2>2. LeaseOf(i).at = "plan"
      BY DEF LeaseOf, Idle, IdleWorker
    <2>3. \A v \in Workers : QuietWorker(v)
      BY <2>1, <2>2, OneMoves, EndsQuietly DEF Receive, Ends
    <2> QED
      BY <1>1, <2>3, SameRows
  <1>3. CASE \E c \in Commands : Snapshot(w, c)
    <2>1. PICK rec : rec.at = "replay" /\ Becomes(w, rec)
      BY <1>3 DEF Snapshot, Idle, IdleWorker
    <2> QED
      BY <1>1, <2>1, OneMoves, SameRows
  <1>4. CASE PlanTurn(w)
    <2>1. PICK next, outcome, reply : Plans(w, next, outcome, reply)
      BY <1>4 DEF PlanTurn
    <2>2. PICK rec : rec.at = "commit_turn" /\ Becomes(w, rec)
      BY <2>1 DEF Plans, RuntimeTypeOK, Executions
    <2> QED
      BY <1>1, <2>2, OneMoves, SameRows
  <1>5. CASE Replay(w)
    <2>1. ASSUME NEW q, NEW a, Decides(w, q, a) PROVE \A v \in Workers : QuietWorker(v)
      <3>1. PICK rec : rec.at = "commit_operator" /\ Becomes(w, rec)
        BY <2>1 DEF Decides, RuntimeTypeOK, Executions
      <3> QED
        BY <3>1, OneMoves
    <2>2. \A v \in Workers : QuietWorker(v)
      BY <1>5, <2>1, EndsQuietly, DeliversQuietly DEF Replay
    <2> QED
      BY <1>1, <2>2, SameRows
  <1>6. CASE SendRejected(w) \/ Fault(w)
    <2>1. \A v \in Workers : QuietWorker(v)
      BY <1>6, EndsQuietly, MovesQuietly DEF SendRejected, Fault
    <2> QED
      BY <1>1, <2>1, SameRows
  <1> QED
    BY <1>2, <1>3, <1>4, <1>5, <1>6

(***************************************************************************)
(* Commits                                                                 *)
(***************************************************************************)

\* What a commit of x may do to its rows: its event is new, its reply too.
LEMMA CommitRow ==
    ASSUME RuntimeTypeOK, DeliveryInv, NEW x \in Inputs, event[x].revision = 0,
           event'[x].revision # 0, \A y \in Inputs \ {x} : event'[y] = event[y],
           NEW began, NEW ack, NEW announces,
           \/ outbox' = outbox
           \/ outbox' = [outbox EXCEPT ![x] = QueuedReply(began, ack, announces)],
           spent' = spent
    PROVE  \A y \in Inputs : QuietRow(y)
  <1>1. outbox[x] = NoReply
    BY RowType DEF DeliveryInv, UnqueuedFirst
  <1>2. \A y \in Inputs \ {x} : event'[y] = event[y] /\ outbox'[y] = outbox[y]
    BY RowType
  <1>3. \A y \in Inputs \ {x} : QuietRow(y)
    BY <1>2, SameRow
  <1>4. CASE outbox' = outbox
    <2>1. QuietRow(x)
      BY <1>1, <1>4, RowType DEF QuietRow, NoReply
    <2> QED
      BY <1>3, <2>1
  <1>5. CASE outbox' = [outbox EXCEPT ![x] = QueuedReply(began, ack, announces)]
    <2>1. outbox'[x] = QueuedReply(began, ack, announces)
      BY <1>5, RowType
    <2>2. /\ QueuedReply(began, ack, announces).status = "PENDING"
          /\ QueuedReply(began, ack, announces).attempts = 0
          /\ ~ QueuedReply(began, ack, announces).expired
      BY DEF QueuedReply, NoReply
    <2>3. outbox[x].attempts = 0
      BY <1>1 DEF NoReply
    <2>4. QuietRow(x)
      BY <1>1, <2>1, <2>2, <2>3, RowType DEF QuietRow
    <2> QED
      BY <1>3, <2>4
  <1> QED
    BY <1>4, <1>5

LEMMA CommitRows ==
    ASSUME RuntimeTypeOK, RuntimeTypeOK', DeliveryInv, NEW x \in Inputs, spent' = spent,
           NEW e, NEW v, NEW k, NEW s, NEW o, NEW r, NEW m, NEW b, NEW a,
           \/ CommitTurn(x, e, k, s, o, r, m, b, a)
           \/ CommitOperator(x, e, v, k, s, r, m, b, a)
    PROVE  \A y \in Inputs : QuietRow(y)
  <1>1. event[x].revision = 0
    BY DEF CommitTurn, CommitOperator, TurnVerdict, OperatorVerdict
  <1>2. cs.revision \in Nat
    BY DEF RuntimeTypeOK, TypeOK
  <1>3. event'[x].revision = cs.revision + 1
    <2>1. event \in [Inputs -> Events]
      BY RowType
    <2>2. CASE CommitTurn(x, e, k, s, o, r, m, b, a)
      BY <2>1, <2>2 DEF CommitTurn
    <2>3. CASE CommitOperator(x, e, v, k, s, r, m, b, a)
      BY <2>1, <2>3 DEF CommitOperator
    <2> QED
      BY <2>2, <2>3
  <1>4. \A y \in Inputs \ {x} : event'[y] = event[y]
    BY RowType DEF CommitTurn, CommitOperator
  <1>5. PICK ack : \/ outbox' = outbox
                   \/ outbox' = [outbox EXCEPT ![x] = QueuedReply(b, ack, a)]
    BY DEF CommitTurn, CommitOperator
  <1> QED
    BY <1>1, <1>2, <1>3, <1>4, <1>5, CommitRow

LEMMA CommitDelivery ==
    ASSUME RuntimeTypeOK, RuntimeTypeOK', CurrentLease, DeliveryInv, NEW w \in Workers,
           CommitTurnStep(w) \/ CommitOperatorStep(w)
    PROVE  DeliveryInv'
  <1> DEFINE x == worker[w].input
  <1>1. x \in Inputs /\ phone' = phone /\ spent' = spent
    BY DEF RuntimeTypeOK, Executions, CommitTurnStep, CommitOperatorStep
  <1>2. \A v \in Workers : QuietWorker(v)
    BY EndsQuietly, DeliversQuietly DEF CommitTurnStep, CommitOperatorStep
  <1>3. CASE UNCHANGED store
    BY <1>1, <1>2, <1>3, SameRows DEF store
  <1>4. CASE ~ UNCHANGED store
    <2>1. PICK e, v, k, s, o, r, m, b, a :
              \/ CommitTurn(x, e, k, s, o, r, m, b, a)
              \/ CommitOperator(x, e, v, k, s, r, m, b, a)
      BY <1>4 DEF CommitTurnStep, CommitOperatorStep
    <2>2. \A y \in Inputs : QuietRow(y)
      BY <1>1, <2>1, CommitRows
    <2> QED
      BY <1>1, <1>2, <2>2, QuietDelivery
  <1> QED
    BY <1>3, <1>4

(***************************************************************************)
(* Claims, calls to the provider and what becomes of them                  *)
(***************************************************************************)

\* An execution that claims x is one more that may send it.
LEMMA ClaimStep ==
    ASSUME RuntimeTypeOK, RuntimeTypeOK', DeliveryInv, NEW w \in Workers,
           NEW x \in Inputs, worker[w].input = x,
           ClaimDelivery(w), Claim(x), Moves(w, "send")
    PROVE  DeliveryInv'
  <1>1. phone' = phone /\ spent' = spent /\ event' = event
    BY DEF ClaimDelivery, Claim
  <1>2. /\ outbox'[x].status = "PROCESSING" /\ outbox'[x].attempts = outbox[x].attempts + 1
        /\ ~ outbox'[x].expired
        /\ \A y \in Inputs \ {x} : outbox'[y] = outbox[y]
    BY <1>1, RowType DEF Claim, Replies
  <1>3. /\ worker'[w].at = "send" /\ worker'[w].input = x
        /\ \A v \in Workers \ {w} : worker'[v] = worker[v]
    BY DEF RuntimeTypeOK, Executions, Moves, Becomes
  <1>4. \A y : Copies(y)' = Copies(y)
    BY <1>1 DEF Copies
  <1>5. CopiesAreClaimed'
    <2>1. Senders(x)' = Senders(x) \cup {w}
      BY <1>3 DEF Senders
    <2>2. \A y \in Inputs \ {x} : Senders(y)' \in SUBSET Senders(y)
      BY <1>3 DEF Senders
    <2>3. ASSUME NEW y \in Inputs
          PROVE  /\ IsFiniteSet(Senders(y)')
                 /\ Copies(y)' + Cardinality(Senders(y)') <= outbox'[y].attempts
      <3>1. IsFiniteSet(Senders(y)) /\ Copies(y) + Cardinality(Senders(y)) <= outbox[y].attempts
        BY DEF DeliveryInv, CopiesAreClaimed
      <3>2. Copies(y) \in Nat /\ Cardinality(Senders(y)) \in Nat /\ outbox[y].attempts \in Nat
        BY <3>1, CopiesType, RowType, FS_CardinalityType
      <3>3. CASE y = x
        <4>1. /\ IsFiniteSet(Senders(y)')
              /\ \/ Cardinality(Senders(y)') = Cardinality(Senders(y))
                 \/ Cardinality(Senders(y)') = Cardinality(Senders(y)) + 1
          BY <2>1, <3>1, <3>3, FS_AddElement
        <4> QED
          BY <1>2, <1>4, <3>1, <3>2, <3>3, <4>1
      <3>4. CASE y # x
        <4>1. IsFiniteSet(Senders(y)') /\ Cardinality(Senders(y)') <= Cardinality(Senders(y))
          BY <2>2, <3>1, <3>4, FS_Subset
        <4>2. Cardinality(Senders(y)') \in Nat
          BY <4>1, FS_CardinalityType
        <4> QED
          BY <1>2, <1>4, <3>1, <3>2, <3>4, <4>1, <4>2
      <3> QED
        BY <3>3, <3>4
    <2> QED
      BY <2>3 DEF CopiesAreClaimed
  <1>6. ClaimsAreExpiries'
    <2>1. outbox[x].status = "PENDING" \/ (outbox[x].status = "PROCESSING" /\ outbox[x].expired)
      BY DEF Claim, Claimable
    <2>2. outbox'[x].attempts <= 1 + spent.expiries
      BY <1>1, <1>2, <2>1, RowType DEF DeliveryInv, ClaimsAreExpiries
    <2> SUFFICES ASSUME NEW y \in Inputs
                 PROVE  /\ outbox'[y].status = "PENDING" =>
                              outbox'[y].attempts = 0 /\ ~ outbox'[y].expired
                        /\ outbox'[y].attempts + (IF outbox'[y].expired THEN 1 ELSE 0)
                              <= 1 + spent'.expiries
      BY DEF ClaimsAreExpiries
    <2>3. CASE y = x
      BY <1>1, <1>2, <2>2, <2>3, RowType
    <2>4. CASE y # x
      BY <1>1, <1>2, <2>4 DEF DeliveryInv, ClaimsAreExpiries
    <2> QED
      BY <2>3, <2>4
  <1>7. UnqueuedFirst'
    <2>1. outbox[x].status # "NONE"
      BY DEF Claim, Claimable
    <2>2. event[x].revision # 0
      BY <1>1, <2>1 DEF DeliveryInv, UnqueuedFirst, NoReply
    <2> QED
      BY <1>1, <1>2, <2>2 DEF DeliveryInv, UnqueuedFirst
  <1>8. CompletesWhatWasSent'
    BY <1>3, <1>4 DEF DeliveryInv, CompletesWhatWasSent
  <1>9. SentReachedPhone'
    BY <1>1, <1>2, <1>4 DEF DeliveryInv, SentReachedPhone
  <1> QED
    BY <1>5, <1>6, <1>7, <1>8, <1>9 DEF DeliveryInv

LEMMA ClaimDeliveryStep ==
    ASSUME RuntimeTypeOK, RuntimeTypeOK', DeliveryInv, NEW w \in Workers, ClaimDelivery(w)
    PROVE  DeliveryInv'
  <1> DEFINE x == worker[w].input
  <1>1. x \in Inputs /\ phone' = phone /\ spent' = spent
    BY DEF RuntimeTypeOK, Executions, ClaimDelivery
  <1>2. CASE Claim(x) /\ Moves(w, "send")
    BY <1>1, <1>2, ClaimStep
  <1>3. CASE CancelStale(x) /\ Ends(w)
    <2>1. /\ outbox'[x] = [outbox[x] EXCEPT !.status = "CANCELLED"] /\ event' = event
          /\ \A y \in Inputs \ {x} : outbox'[y] = outbox[y]
      BY <1>1, <1>3, RowType DEF CancelStale
    <2>2. outbox[x].status # "NONE"
      BY <1>3 DEF CancelStale, Claimable
    <2>3. event[x].revision # 0
      BY <1>1, <2>2 DEF DeliveryInv, UnqueuedFirst, NoReply
    <2>4. QuietRow(x)
      BY <1>1, <2>1, <2>3, RowType DEF QuietRow, Replies
    <2>5. \A y \in Inputs : QuietRow(y)
      BY <1>1, <2>1, <2>4, SameRow
    <2> QED
      BY <1>1, <1>3, <2>5, EndsQuietly, QuietDelivery
  <1>4. CASE Ends(w) /\ UNCHANGED store
    BY <1>1, <1>4, EndsQuietly, SameRows DEF store
  <1> QED
    BY <1>2, <1>3, <1>4 DEF ClaimDelivery

\* The copy an execution was to send is on the phone: it is counted there now.
LEMMA SendTextStep ==
    ASSUME RuntimeTypeOK, RuntimeTypeOK', DeliveryInv, NEW w \in Workers, SendText(w),
           NEW x \in Inputs, worker[w].input = x
    PROVE  DeliveryInv'
  <1>1. /\ phone \in Seq(Inputs) /\ phone' = Append(phone, x)
        /\ outbox' = outbox /\ event' = event /\ spent' = spent /\ worker[w].at = "send"
    BY DEF RuntimeTypeOK, Executions, SendText, store, At
  <1>2. PICK stage \in {"complete", "fail"} :
          /\ worker'[w].at = stage /\ worker'[w].input = x
          /\ \A v \in Workers \ {w} : worker'[v] = worker[v]
    BY DEF RuntimeTypeOK, Executions, SendText, Moves, Becomes
  <1>3. \A y : Copies(y)' = IF y = x THEN Copies(y) + 1 ELSE Copies(y)
    <2> DEFINE Where(y) == {k \in DOMAIN phone : phone[k] = y}
    <2>1. /\ Len(phone) \in Nat /\ DOMAIN phone = 1 .. Len(phone)
          /\ DOMAIN phone' = 1 .. Len(phone) + 1 /\ phone'[Len(phone) + 1] = x
          /\ \A k \in 1 .. Len(phone) : phone'[k] = phone[k]
      BY <1>1
    <2>2. {k \in DOMAIN phone' : phone'[k] = x} = Where(x) \cup {Len(phone) + 1}
      BY <2>1
    <2>3. \A y : y # x => {k \in DOMAIN phone' : phone'[k] = y} = Where(y)
      BY <2>1
    <2>4. IsFiniteSet(Where(x)) /\ Len(phone) + 1 \notin Where(x)
      <3>1. IsFiniteSet(Where(x))
        BY CopiesType
      <3> QED
        BY <2>1, <3>1
    <2>5. Cardinality(Where(x) \cup {Len(phone) + 1}) = Cardinality(Where(x)) + 1
      BY <2>4, FS_AddElement
    <2>6. \A y : Copies(y)' = Cardinality({k \in DOMAIN phone' : phone'[k] = y})
      BY DEF Copies
    <2>7. \A y : Copies(y) = Cardinality(Where(y))
      BY DEF Copies
    <2> QED
      BY <2>2, <2>3, <2>5, <2>6, <2>7
  <1>4. CopiesAreClaimed'
    <2>1. Senders(x)' = Senders(x) \ {w} /\ w \in Senders(x)
      BY <1>1, <1>2 DEF Senders
    <2>2. \A y \in Inputs \ {x} : Senders(y)' = Senders(y)
      BY <1>1, <1>2 DEF Senders
    <2>3. ASSUME NEW y \in Inputs
          PROVE  /\ IsFiniteSet(Senders(y)')
                 /\ Copies(y)' + Cardinality(Senders(y)') <= outbox'[y].attempts
      <3>1. IsFiniteSet(Senders(y)) /\ Copies(y) + Cardinality(Senders(y)) <= outbox[y].attempts
        BY DEF DeliveryInv, CopiesAreClaimed
      <3>2. Copies(y) \in Nat /\ Cardinality(Senders(y)) \in Nat /\ outbox[y].attempts \in Nat
        BY <3>1, CopiesType, RowType, FS_CardinalityType
      <3>3. CASE y = x
        <4>1. /\ IsFiniteSet(Senders(y)')
              /\ Cardinality(Senders(y)') = Cardinality(Senders(y)) - 1
          BY <2>1, <3>1, <3>3, FS_RemoveElement
        <4> QED
          BY <1>1, <1>3, <3>1, <3>2, <3>3, <4>1
      <3>4. CASE y # x
        BY <1>1, <1>3, <2>2, <3>1, <3>4
      <3> QED
        BY <3>3, <3>4
    <2> QED
      BY <2>3 DEF CopiesAreClaimed
  <1>5. \A y \in Inputs : Copies(y)' >= Copies(y) /\ Copies(y) \in Nat
    <2>1. \A y : Copies(y) \in Nat
      BY CopiesType
    <2> QED
      BY <1>3, <2>1
  <1>6. ClaimsAreExpiries' /\ UnqueuedFirst' /\ SentReachedPhone'
    <2>1. \A y \in Inputs : Copies(y) > 0 => Copies(y)' > 0
      BY <1>3, <1>5
    <2>2. SentReachedPhone'
      BY <1>1, <2>1 DEF DeliveryInv, SentReachedPhone
    <2> QED
      BY <1>1, <2>2 DEF DeliveryInv, ClaimsAreExpiries, UnqueuedFirst
  <1>7. CompletesWhatWasSent'
    <2> SUFFICES ASSUME NEW v \in Workers, worker'[v].at = "complete"
                 PROVE  Copies(worker[v].input)' > 0
      BY DEF CompletesWhatWasSent
    <2>1. CASE v = w
      BY <1>2, <1>3, <1>5, <2>1
    <2>2. CASE v # w
      <3>1. Copies(worker[v].input) > 0 /\ worker[v].input \in Inputs
        BY <1>2, <2>2 DEF DeliveryInv, CompletesWhatWasSent, RuntimeTypeOK, Executions
      <3>2. Copies(worker[v].input)' >= Copies(worker[v].input)
        BY <1>2, <1>3, <1>5, <2>2, <3>1
      <3> QED
        BY <1>2, <1>3, <1>5, <2>2, <3>1
    <2> QED
      BY <2>1, <2>2
  <1> QED
    BY <1>4, <1>6, <1>7 DEF DeliveryInv

LEMMA SettleRows ==
    ASSUME RuntimeTypeOK, DeliveryInv, NEW x \in Inputs, NEW status \in {"SENT", "FAILED"},
           Settle(x, status), status = "SENT" => Copies(x) > 0, spent' = spent
    PROVE  \A y \in Inputs : QuietRow(y)
  <1>1. event' = event
    BY DEF Settle
  <1>2. CASE outbox' = outbox
    BY <1>1, <1>2, SameRow
  <1>3. CASE /\ outbox[x].status = "PROCESSING"
             /\ outbox' = [outbox EXCEPT ![x].status = status]
    <2>1. /\ outbox'[x] = [outbox[x] EXCEPT !.status = status]
          /\ \A y \in Inputs \ {x} : outbox'[y] = outbox[y]
      BY <1>3, RowType
    <2>2. event[x].revision # 0
      BY <1>3 DEF DeliveryInv, UnqueuedFirst, NoReply
    <2>3. QuietRow(x)
      BY <1>1, <2>1, <2>2, RowType DEF QuietRow, Replies
    <2> QED
      BY <1>1, <2>1, <2>3, SameRow
  <1> QED
    BY <1>2, <1>3 DEF Settle

LEMMA SettleStep ==
    ASSUME RuntimeTypeOK, RuntimeTypeOK', DeliveryInv, NEW w \in Workers,
           CompleteDelivery(w) \/ FailDelivery(w)
    PROVE  DeliveryInv'
  <1> DEFINE x == worker[w].input
  <1>1. x \in Inputs /\ phone' = phone /\ spent' = spent
    BY DEF RuntimeTypeOK, Executions, CompleteDelivery, FailDelivery
  <1>2. \A v \in Workers : QuietWorker(v)
    BY EndsQuietly, MovesQuietly DEF CompleteDelivery, FailDelivery
  <1>3. CompleteDelivery(w) => Copies(x) > 0
    BY DEF CompleteDelivery, At, DeliveryInv, CompletesWhatWasSent
  <1>4. CASE UNCHANGED store
    BY <1>1, <1>2, <1>4, SameRows DEF store
  <1>5. CASE Settle(x, "FAILED")
    BY <1>1, <1>2, <1>5, SettleRows, QuietDelivery
  <1>6. CASE CompleteDelivery(w) /\ Settle(x, "SENT")
    BY <1>1, <1>2, <1>3, <1>6, SettleRows, QuietDelivery
  <1> QED
    BY <1>4, <1>5, <1>6 DEF CompleteDelivery, FailDelivery

(***************************************************************************)
(* Every step                                                              *)
(***************************************************************************)

\* Only the expiry of a claim touches the replies, and pays for the next claim.
LEMMA AroundDelivery ==
    ASSUME RuntimeTypeOK, RuntimeTypeOK', DeliveryInv,
           \/ \E c \in Commands : Compose(c)
           \/ \E m \in Modes : Panel(m)
           \/ \E x \in Inputs : Expire(x)
           \/ Deploy \/ Upgrade \/ UNCHANGED vars
    PROVE  DeliveryInv'
  <1>1. phone' = phone /\ worker' = worker /\ event' = event
    BY DEF Compose, Panel, SetAutomationMode, Expire, ClaimExpires, Deploy, Upgrade,
           UpgradeCatalog, vars, store
  <1>2. \A w \in Workers : QuietWorker(w)
    BY <1>1 DEF QuietWorker
  <1>3. CASE \E x \in Inputs : Expire(x)
    <2>1. PICK x \in Inputs : Expire(x)
      BY <1>3
    <2>2. spent'.expiries = spent.expiries + 1
      BY <2>1 DEF Expire, RuntimeTypeOK
    <2>3. /\ outbox[x].status = "PROCESSING" /\ outbox'[x] = [outbox[x] EXCEPT !.expired = TRUE]
          /\ \A y \in Inputs \ {x} : outbox'[y] = outbox[y]
      BY <2>1, RowType DEF Expire, ClaimExpires
    <2>4. event[x].revision # 0
      BY <2>3 DEF DeliveryInv, UnqueuedFirst, NoReply
    <2>5. QuietRow(x)
      BY <1>1, <2>2, <2>3, <2>4, RowType DEF QuietRow, Replies
    <2>6. \A y \in Inputs \ {x} : QuietRow(y)
      BY <1>1, <2>2, <2>3, RowType
      DEF QuietRow, DeliveryInv, ClaimsAreExpiries, SentReachedPhone
    <2> QED
      BY <1>1, <1>2, <2>5, <2>6, QuietDelivery
  <1>4. CASE ~ \E x \in Inputs : Expire(x)
    <2>1. outbox' = outbox /\ spent'.expiries = spent.expiries
      BY <1>4 DEF Compose, Panel, SetAutomationMode, Deploy, Upgrade, UpgradeCatalog, vars, store,
             RuntimeTypeOK
    <2> QED
      BY <1>1, <1>2, <2>1, SameRows
  <1> QED
    BY <1>3, <1>4

LEMMA DeliveryNext ==
    ASSUME RuntimeTypeOK, RuntimeTypeOK', CurrentLease, DeliveryInv, [RuntimeNext]_vars
    PROVE  DeliveryInv'
  <1>1. ASSUME NEW w \in Workers, Progress(w) PROVE DeliveryInv'
    <2>1. worker[w].input \in Inputs
      BY DEF RuntimeTypeOK, Executions
    <2> QED
      BY <1>1, <2>1, BeforeDelivery, CommitDelivery, ClaimDeliveryStep, SendTextStep, SettleStep
      DEF Progress
  <1>2. ASSUME NEW w \in Workers,
               \/ \E i \in Inbound : Receive(w, i)
               \/ \E c \in Commands : Snapshot(w, c)
               \/ Fault(w)
        PROVE  DeliveryInv'
    BY <1>2, BeforeDelivery
  <1> QED
    BY <1>1, <1>2, AroundDelivery DEF RuntimeNext

THEOREM DeliveryInvariant == RuntimeSpec => []DeliveryInv
  <1>1. RuntimeInit => DeliveryInv
    BY DeliveryInit
  <1>2. RuntimeInv => RuntimeTypeOK /\ CurrentLease
    BY DEF RuntimeInv
  <1>3. RuntimeInv /\ RuntimeInv' /\ DeliveryInv /\ [RuntimeNext]_vars => DeliveryInv'
    BY <1>2, DeliveryNext DEF RuntimeInv
  <1> QED
    BY <1>1, <1>3, RuntimeInvariant, PTL DEF RuntimeSpec

\* The citizen gets a reply again only for a claim that outlived its five
\* minutes, and the attempts a row counts are never fewer than the copies sent,
\* however many executions deliver and wherever they die.
THEOREM SendsAreClaimed == RuntimeSpec => []AttemptsCoverSends
  <1>1. RuntimeInv /\ DeliveryInv => AttemptsCoverSends
    <2> SUFFICES ASSUME RuntimeInv, DeliveryInv, NEW x \in Inputs
                 PROVE  Copies(x) <= outbox[x].attempts /\ outbox[x].attempts <= 1 + spent.expiries
      BY DEF AttemptsCoverSends
    <2>1. RuntimeTypeOK
      BY DEF RuntimeInv
    <2>2. IsFiniteSet(Senders(x)) /\ Copies(x) + Cardinality(Senders(x)) <= outbox[x].attempts
      BY DEF DeliveryInv, CopiesAreClaimed
    <2>3. Copies(x) \in Nat /\ Cardinality(Senders(x)) \in Nat
      BY <2>1, <2>2, CopiesType, FS_CardinalityType
    <2> QED
      BY <2>1, <2>2, <2>3, RowType DEF DeliveryInv, ClaimsAreExpiries
  <1> QED
    BY <1>1, RuntimeInvariant, DeliveryInvariant, PTL

\* A row says SENT only of a reply the provider took.
THEOREM SentIsOnThePhone == RuntimeSpec => []SentReachedPhone
  <1>1. DeliveryInv => SentReachedPhone
    BY DEF DeliveryInv
  <1> QED
    BY <1>1, DeliveryInvariant, PTL

(***************************************************************************)
(* Replies that a person has overtaken                                     *)
(***************************************************************************)

Queued(x) == outbox[x].status # "NONE"

\* A row belongs to a conversation some commit has made official, and no row
\* is ahead of it.
QueuedIsOfficial ==
    \A x \in Inputs : Queued(x) => conv.official /\ outbox[x].revision <= cs.revision

\* Only a RESUME takes the conversation from the person, and its commit moves
\* the revision past every row that was queued before.
OvertakenIsOver ==
    \A x \in overtaken : Queued(x) /\ (conv.mode # "bot" \/ outbox[x].revision < cs.revision)

OvertakenInv == QueuedIsOfficial /\ OvertakenIsOver

SameClaims == \A x \in overtaken : ~ outbox[x].ack => outbox'[x].attempts = outbox[x].attempts

\* A step that queues nothing and leaves the control alone.
LEMMA QuietOvertaken ==
    ASSUME OvertakenInv, overtaken \in SUBSET Inputs, overtaken' = overtaken,
           conv'.mode = conv.mode, conv'.official = conv.official, cs'.revision = cs.revision,
           \A x \in Inputs : /\ outbox'[x].revision = outbox[x].revision
                             /\ outbox'[x].status = "NONE" <=> outbox[x].status = "NONE"
    PROVE  OvertakenInv'
  BY DEF OvertakenInv, QueuedIsOfficial, OvertakenIsOver, Queued

\* A commit moves the revision past every row but the one it queues itself,
\* and that one no person can have overtaken before.
LEMMA CommitOvertaken ==
    ASSUME RuntimeTypeOK, DeliveryInv, OvertakenInv, NEW x \in Inputs,
           NEW e, NEW v, NEW k, NEW s, NEW o, NEW r, NEW m, NEW b, NEW a,
           \/ CommitTurn(x, e, k, s, o, r, m, b, a)
           \/ CommitOperator(x, e, v, k, s, r, m, b, a)
    PROVE  OvertakenInv' /\ SameClaims
  <1>1. /\ cs.revision \in Nat /\ outbox \in [Inputs -> Replies]
        /\ conv \in Conversations /\ overtaken \in SUBSET Inputs
        /\ \A y \in Inputs : outbox[y].revision \in Nat
    BY DEF RuntimeTypeOK, TypeOK, Replies
  <1>2. outbox[x] = NoReply
    BY DEF CommitTurn, CommitOperator, TurnVerdict, OperatorVerdict, DeliveryInv, UnqueuedFirst
  <1>3. /\ cs'.revision = cs.revision + 1 /\ overtaken' = overtaken
        /\ conv'.official
    <2>1. cs'.revision = cs.revision + 1 /\ overtaken' = overtaken
      <3>1. CASE CommitTurn(x, e, k, s, o, r, m, b, a)
        BY <3>1 DEF CommitTurn, StoreState
      <3>2. CASE CommitOperator(x, e, v, k, s, r, m, b, a)
        BY <3>2 DEF CommitOperator, StoreState
      <3> QED
        BY <3>1, <3>2
    <2>2. PICK mode : conv' = Project(mode, s)
      BY DEF CommitTurn, CommitOperator
    <2>3. conv'.official
      BY <1>1, <2>2 DEF Project, Conversations
    <2> QED
      BY <2>1, <2>3
  <1>4. PICK ack : \/ outbox' = outbox
                   \/ outbox' = [outbox EXCEPT ![x] = QueuedReply(b, ack, a)]
    BY DEF CommitTurn, CommitOperator
  <1>5. \A y \in Inputs \ {x} : outbox'[y] = outbox[y]
    BY <1>1, <1>4
  <1>6. outbox'[x] = NoReply \/ outbox'[x].revision = cs.revision + 1
    BY <1>1, <1>2, <1>4 DEF QueuedReply, NoReply
  <1>7. x \notin overtaken
    BY <1>2 DEF OvertakenInv, OvertakenIsOver, Queued, NoReply
  <1>8. QueuedIsOfficial'
    <2> SUFFICES ASSUME NEW y \in Inputs, outbox'[y].status # "NONE"
                 PROVE  outbox'[y].revision <= cs'.revision
      BY <1>3 DEF QueuedIsOfficial, Queued
    <2>1. CASE y = x
      BY <1>1, <1>3, <1>6, <2>1 DEF NoReply
    <2>2. CASE y # x
      BY <1>1, <1>3, <1>5, <2>2 DEF OvertakenInv, QueuedIsOfficial, Queued
    <2> QED
      BY <2>1, <2>2
  <1>9. OvertakenIsOver'
    <2> SUFFICES ASSUME NEW y \in overtaken
                 PROVE  outbox'[y].status # "NONE" /\ outbox'[y].revision < cs'.revision
      BY <1>3 DEF OvertakenIsOver, Queued
    <2>1. y \in Inputs \ {x} /\ outbox[y].status # "NONE"
      BY <1>1, <1>7 DEF OvertakenInv, OvertakenIsOver, Queued
    <2>2. outbox[y].revision <= cs.revision
      BY <2>1 DEF OvertakenInv, QueuedIsOfficial, Queued
    <2> QED
      BY <1>1, <1>3, <1>5, <2>1, <2>2
  <1>10. SameClaims
    BY <1>1, <1>5, <1>7 DEF SameClaims
  <1> QED
    BY <1>8, <1>9, <1>10 DEF OvertakenInv

\* A panel call overtakes what is queued; the bot gets back only a row of the
\* old panel, which has nothing queued.
LEMMA PanelOvertaken ==
    ASSUME RuntimeTypeOK, OvertakenInv, NEW m \in Modes, Panel(m)
    PROVE  OvertakenInv' /\ SameClaims
  <1>1. /\ conv'.mode = m /\ conv'.official = conv.official /\ cs' = cs /\ outbox' = outbox
        /\ overtaken' = IF m = "bot" THEN overtaken
                        ELSE overtaken \cup {x \in Inputs : outbox[x].status # "NONE"}
        /\ m = "bot" => ~ conv.official
        /\ overtaken \in SUBSET Inputs
    BY DEF Panel, SetAutomationMode, PanelMode, RuntimeTypeOK, TypeOK, Conversations
  <1>2. QueuedIsOfficial'
    BY <1>1 DEF OvertakenInv, QueuedIsOfficial, Queued
  <1>3. OvertakenIsOver'
    BY <1>1 DEF OvertakenInv, QueuedIsOfficial, OvertakenIsOver, Queued
  <1> QED
    BY <1>1, <1>2, <1>3 DEF OvertakenInv, SameClaims

\* What can be claimed of the overtaken is the acknowledgement of a handoff.
LEMMA ClaimOvertaken ==
    ASSUME RuntimeTypeOK, OvertakenInv, NEW x \in Inputs, Claim(x)
    PROVE  OvertakenInv' /\ SameClaims
  <1>1. /\ outbox \in [Inputs -> Replies] /\ overtaken \in SUBSET Inputs
        /\ cs.revision \in Nat
        /\ conv' = conv /\ cs' = cs /\ overtaken' = overtaken
        /\ outbox' = [outbox EXCEPT ![x].status = "PROCESSING", ![x].attempts = @ + 1,
                                    ![x].expired = FALSE]
        /\ outbox[x].status # "NONE"
    BY DEF Claim, Claimable, RuntimeTypeOK, TypeOK
  <1>2. /\ \A y \in Inputs \ {x} : outbox'[y] = outbox[y]
        /\ outbox'[x].revision = outbox[x].revision /\ outbox'[x].status = "PROCESSING"
    BY <1>1 DEF Replies
  <1>3. OvertakenInv'
    BY <1>1, <1>2, QuietOvertaken
  <1>4. x \in overtaken => outbox[x].ack
    BY <1>1 DEF OvertakenInv, OvertakenIsOver, Queued, Claim, Superseded
  <1>5. SameClaims
    BY <1>1, <1>2, <1>4 DEF SameClaims
  <1> QED
    BY <1>3, <1>5

\* Cancelling, settling and expiring keep what a row counts.
LEMMA RowOvertaken ==
    ASSUME RuntimeTypeOK, OvertakenInv, NEW x \in Inputs,
           \/ CancelStale(x) \/ Settle(x, "SENT") \/ Settle(x, "FAILED") \/ ClaimExpires(x)
    PROVE  OvertakenInv' /\ SameClaims
  <1>1. /\ outbox \in [Inputs -> Replies] /\ overtaken \in SUBSET Inputs
        /\ conv' = conv /\ cs' = cs /\ overtaken' = overtaken
    BY DEF CancelStale, Settle, ClaimExpires, RuntimeTypeOK, TypeOK
  <1>2. \A y \in Inputs : /\ outbox'[y].revision = outbox[y].revision
                          /\ outbox'[y].attempts = outbox[y].attempts
                          /\ outbox'[y].status = "NONE" <=> outbox[y].status = "NONE"
    BY <1>1 DEF CancelStale, Claimable, Settle, ClaimExpires, Replies
  <1>3. OvertakenInv'
    BY <1>1, <1>2, QuietOvertaken
  <1> QED
    BY <1>1, <1>2, <1>3 DEF SameClaims

LEMMA OvertakenStep ==
    ASSUME RuntimeTypeOK, DeliveryInv, OvertakenInv, [RuntimeNext]_vars
    PROVE  OvertakenInv' /\ SameClaims
  <1>1. conv \in Conversations /\ TypeOK /\ overtaken \in SUBSET Inputs
        /\ \A w \in Workers : worker[w].input \in Inputs
    BY DEF RuntimeTypeOK, TypeOK, Executions
  <1>2. ASSUME UNCHANGED store PROVE OvertakenInv' /\ SameClaims
    BY <1>1, <1>2, QuietOvertaken DEF store, SameClaims
  <1>3. ASSUME NEW w \in Workers, CommitTurnStep(w) \/ CommitOperatorStep(w)
        PROVE  OvertakenInv' /\ SameClaims
    <2>1. CASE ~ UNCHANGED store
      <3>1. PICK e, v, k, s, o, r, m, b, a :
                \/ CommitTurn(worker[w].input, e, k, s, o, r, m, b, a)
                \/ CommitOperator(worker[w].input, e, v, k, s, r, m, b, a)
        BY <1>3, <2>1 DEF CommitTurnStep, CommitOperatorStep
      <3> QED
        BY <1>1, <3>1, CommitOvertaken
    <2> QED
      BY <1>2, <2>1
  <1>4. ASSUME NEW w \in Workers,
               ClaimDelivery(w) \/ CompleteDelivery(w) \/ FailDelivery(w)
        PROVE  OvertakenInv' /\ SameClaims
    BY <1>1, <1>2, <1>4, ClaimOvertaken, RowOvertaken
    DEF ClaimDelivery, CompleteDelivery, FailDelivery
  <1>5. ASSUME NEW x \in Inputs, Expire(x) PROVE OvertakenInv' /\ SameClaims
    BY <1>5, RowOvertaken DEF Expire
  <1>6. ASSUME NEW m \in Modes, Panel(m) PROVE OvertakenInv' /\ SameClaims
    BY <1>6, PanelOvertaken
  <1>7. ASSUME NEW w \in Workers, NEW i \in Inbound, Receive(w, i)
        PROVE  OvertakenInv' /\ SameClaims
    <2>1. /\ conv'.mode = conv.mode /\ conv'.official = conv.official
          /\ cs'.revision = cs.revision /\ outbox' = outbox /\ overtaken' = overtaken
      BY <1>1, <1>7 DEF Receive, AcquireInbound, Conversations, TypeOK
    <2> QED
      BY <1>1, <2>1, QuietOvertaken DEF SameClaims
  <1>8. ASSUME Upgrade PROVE OvertakenInv' /\ SameClaims
    <2>1. /\ conv' = conv /\ cs'.revision = cs.revision /\ outbox' = outbox
          /\ overtaken' = overtaken
      BY <1>1, <1>8 DEF Upgrade, UpgradeCatalog, TypeOK
    <2> QED
      BY <1>1, <2>1, QuietOvertaken DEF SameClaims
  <1>9. ASSUME \/ \E w \in Workers : \/ PlanTurn(w) \/ Replay(w) \/ SendText(w)
                                     \/ SendRejected(w) \/ Fault(w)
                                     \/ \E c \in Commands : Snapshot(w, c)
               \/ \E c \in Commands : Compose(c)
               \/ Deploy \/ UNCHANGED vars
        PROVE  OvertakenInv' /\ SameClaims
    <2>1. UNCHANGED store
      BY <1>9 DEF PlanTurn, Replay, SendText, SendRejected, Fault, Snapshot, Compose, Deploy, vars
    <2> QED
      BY <1>2, <2>1
  <1> QED
    BY <1>3, <1>4, <1>5, <1>6, <1>7, <1>8, <1>9 DEF RuntimeNext, Progress

\* Whatever was queued when a person took over or closed stays unclaimed for
\* good, except for the acknowledgement of a handoff: no RESUME, late claim or
\* expired claim lets the bot speak over the person.
THEOREM OvertakenStaysUnclaimed == RuntimeSpec => NoOvertakenClaim
  <1>1. RuntimeInit => OvertakenInv
    BY DEF RuntimeInit, Init, OvertakenInv, QueuedIsOfficial, OvertakenIsOver, Queued, NoReply
  <1>2. RuntimeInv => RuntimeTypeOK
    BY DEF RuntimeInv
  <1>3. RuntimeInv /\ DeliveryInv /\ OvertakenInv /\ [RuntimeNext]_vars => OvertakenInv'
    BY <1>2, OvertakenStep
  <1>4. RuntimeInv /\ DeliveryInv /\ OvertakenInv /\ [RuntimeNext]_vars =>
          [\A x \in overtaken : ~ outbox[x].ack => outbox'[x].attempts = outbox[x].attempts]_vars
    BY <1>2, OvertakenStep DEF SameClaims
  <1> QED
    BY <1>1, <1>3, <1>4, RuntimeInvariant, DeliveryInvariant, PTL DEF RuntimeSpec, NoOvertakenClaim
=============================================================================
