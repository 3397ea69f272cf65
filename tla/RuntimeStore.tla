---------------------------- MODULE RuntimeStore ----------------------------
(***************************************************************************)
(* The transactional store of the official runtime: the tables of schema   *)
(* support_runtime and the conversation row of the panel, for ONE          *)
(* conversation, with one action per SECURITY DEFINER function that writes *)
(* them.  Every function takes the conversation's advisory lock or its row *)
(* FOR UPDATE, so a transaction is one atomic step.  What is not atomic is *)
(* now(): PostgreSQL fixes it when the transaction starts, which can be    *)
(* before the transactions it waited for.  Transactions that write the     *)
(* conversation row are numbered by conv.version (its updated_at), and a   *)
(* transaction carries began, the number it would have had when it started.*)
(*                                                                         *)
(* Here the callers are arbitrary: the arguments are any values.  Module   *)
(* OfficialRuntime restricts them to what the edge function computes.      *)
(***************************************************************************)
EXTENDS Integers, FiniteSets

CONSTANTS
    Inbound,     \* external_message_ids of the citizen's messages
    Commands,    \* command_ids of the operator's commands
    Resumes,     \* the commands of type RESUME; the others are decisions
    Goals,       \* goals that may become a service request
    MaxCatalog,  \* catalog hashes are 1 .. MaxCatalog, in order of deployment
    MaxWait      \* a transaction waits for at most MaxWait earlier ones

Inputs == Inbound \cup Commands

ASSUME StoreAssumption ==
    /\ Inbound \cap Commands = {}
    /\ Resumes \subseteq Commands
    /\ MaxCatalog \in Nat \ {0}
    /\ MaxWait \in Nat

Catalogs == 1 .. MaxCatalog
NoCatalog == 0

VARIABLES
    conv,      \* public.support_conversations: who controls it, queue, version
    cs,        \* support_runtime.conversation_state
    receipt,   \* support_runtime.inbound_receipts: status
    event,     \* turn_events and operator_events: the row of each input
    outbox,    \* outbound_queue and its message: the reply of each input
    requests,  \* goals with a row in public.support_service_requests
    overtaken  \* history: replies already queued when a person took over or closed

store == <<conv, cs, receipt, event, outbox, requests, overtaken>>

(***************************************************************************)
(* Rows.                                                                   *)
(***************************************************************************)

\* The engine state, as far as the store and its callers tell states apart:
\* the inputs it has absorbed, its requests, whether it asked for a person,
\* and whether a question to the citizen is pending (and no document review).
States == [null : BOOLEAN, applied : SUBSET Inputs, requests : SUBSET Goals,
           handoff : BOOLEAN, asking : BOOLEAN]

NullState == [null |-> TRUE, applied |-> {}, requests |-> {},
              handoff |-> FALSE, asking |-> FALSE]

Modes == {"bot", "human", "closed"}

NoEvent == [revision |-> 0, outcome |-> "NONE", catalog |-> NoCatalog, replied |-> FALSE]

NoReply == [status |-> "NONE", createdAt |-> 0, revision |-> 0, ack |-> FALSE,
            announces |-> {}, attempts |-> 0, expired |-> FALSE]

TurnOutcomes == {"PROPOSED", "CLARIFICATION", "HUMAN_ACTIVE", "INTERPRETATION_UNAVAILABLE"}

Conversations == [mode : Modes, takeoverAt : Nat, version : Nat, official : BOOLEAN,
                  queue : {"inbox", "waiting_citizen", "closed"}]

Outcomes == TurnOutcomes \cup {"NONE", "OPERATOR"}

Events == [revision : Nat, outcome : Outcomes, catalog : Catalogs \cup {NoCatalog},
           replied : BOOLEAN]

Replies == [status : {"NONE", "PENDING", "PROCESSING", "SENT", "FAILED", "CANCELLED"},
            createdAt : Nat, revision : Nat, ack : BOOLEAN, announces : SUBSET Goals,
            attempts : Nat, expired : BOOLEAN]

TypeOK ==
    /\ conv \in Conversations
    /\ cs \in [revision : Nat, catalog : Catalogs \cup {NoCatalog}, state : States]
    /\ receipt \in [Inbound -> {"NONE", "RECEIVED", "COMMITTED", "HUMAN_ACTIVE"}]
    /\ event \in [Inputs -> Events]
    /\ outbox \in [Inputs -> Replies]
    /\ requests \in SUBSET Goals
    /\ overtaken \in SUBSET Inputs

Init ==
    /\ conv = [mode |-> "bot", takeoverAt |-> 0, version |-> 0, official |-> FALSE,
               queue |-> "inbox"]
    /\ cs = [revision |-> 0, catalog |-> NoCatalog, state |-> NullState]
    /\ receipt = [i \in Inbound |-> "NONE"]
    /\ event = [x \in Inputs |-> NoEvent]
    /\ outbox = [x \in Inputs |-> NoReply]
    /\ requests = {}
    /\ overtaken = {}

\* The possible values of now() in the transaction that runs next.
Begun == {t \in 1 .. conv.version + 1 : conv.version + 1 - t <= MaxWait}

(***************************************************************************)
(* support_runtime_acquire_inbound                                         *)
(***************************************************************************)

\* Mutated form: the first version of the function, before its recovery fix.
IsDuplicateOnceReceived(i) == receipt[i] # "NONE"

IsDuplicate(i) == receipt[i] \in {"COMMITTED", "HUMAN_ACTIVE"}

AcquireInbound(i, catalog) ==
    /\ ~ IsDuplicate(i)
    /\ receipt' = [receipt EXCEPT ![i] = "RECEIVED"]
    /\ conv' = IF receipt[i] = "NONE"
               THEN [conv EXCEPT !.queue = "inbox", !.version = @ + 1]
               ELSE conv
    /\ cs' = [cs EXCEPT !.catalog = IF @ = NoCatalog THEN catalog ELSE @]
    /\ UNCHANGED <<event, outbox, requests, overtaken>>

(***************************************************************************)
(* The helpers shared by the two commits                                   *)
(***************************************************************************)

\* Mutated form: a pending question decides the queue alone.
QueueQuestionFirst(mode, next) == IF next.asking THEN "waiting_citizen" ELSE "inbox"

\* "One queue policy shared by inbound and operator commits."
QueueOf(mode, next) ==
    IF mode = "closed" THEN "closed"
    ELSE IF mode = "human" \/ next.handoff \/ ~ next.asking THEN "inbox"
    ELSE "waiting_citizen"

\* project_conversation: mode, queue and version of the panel's row.
Project(mode, next) ==
    [conv EXCEPT !.mode = mode,
                 !.official = TRUE,
                 !.version = @ + 1,
                 !.queue = QueueOf(mode, next)]

\* materialize_requests: a row for every request record of the state.
Materialized(next) == requests \cup next.requests

\* reply_with_protocols: requests whose protocol no SENT reply has announced.
Unannounced(next) ==
    {g \in next.requests : \A x \in Inputs : outbox[x].status = "SENT" => g \notin outbox[x].announces}

QueuedReply(began, ack, announces) ==
    [NoReply EXCEPT !.status = "PENDING", !.createdAt = began,
                    !.revision = cs.revision + 1, !.ack = ack, !.announces = announces]

\* Mutated form: the new state is stored under the old revision.
StoreStateSameRevision(catalog, next) ==
    [cs EXCEPT !.catalog = catalog, !.state = next]

StoreState(catalog, next) ==
    [revision |-> cs.revision + 1, catalog |-> catalog, state |-> next]

(***************************************************************************)
(* support_runtime_commit_turn                                             *)
(***************************************************************************)

\* Mutated form: the expected revision is not compared.
TurnVerdictAnyRevision(i, expected, catalog) ==
    IF event[i].revision # 0 THEN "replayed"
    ELSE IF ~ cs.state.null /\ cs.catalog # catalog THEN "refused"
    ELSE "commit"

\* Mutated form: the catalog hash is not compared.
TurnVerdictAnyCatalog(i, expected, catalog) ==
    IF event[i].revision # 0 THEN "replayed"
    ELSE IF cs.revision # expected THEN "refused"
    ELSE "commit"

TurnVerdict(i, expected, catalog) ==
    IF event[i].revision # 0 THEN "replayed"
    ELSE IF cs.revision # expected \/ (~ cs.state.null /\ cs.catalog # catalog) THEN "refused"
    ELSE "commit"

\* Mutated form: the mode is the one planned from the lease.
TurnModePlanned(projected) == projected

\* "A human takeover after acquire must win."
TurnMode(projected) == IF conv.mode # "bot" THEN conv.mode ELSE projected

CommitTurn(i, expected, catalog, next, outcome, reply, projected, began, announces) ==
    /\ receipt[i] # "NONE"
    /\ TurnVerdict(i, expected, catalog) = "commit"
    /\ LET mode   == TurnMode(projected)
           queued == reply /\ conv.mode = "bot"
       IN  /\ announces \subseteq (IF queued THEN Unannounced(next) ELSE {})
           /\ outbox' = IF queued
                        THEN [outbox EXCEPT ![i] =
                                QueuedReply(began, mode = "human" /\ next.handoff, announces)]
                        ELSE outbox
           /\ conv' = Project(mode, next)
           /\ receipt' = [receipt EXCEPT ![i] = IF mode # "bot" THEN "HUMAN_ACTIVE" ELSE "COMMITTED"]
           /\ event' = [event EXCEPT ![i] = [revision |-> cs.revision + 1, outcome |-> outcome,
                                             catalog |-> catalog, replied |-> queued]]
    /\ cs' = StoreState(catalog, next)
    /\ requests' = Materialized(next)
    /\ UNCHANGED overtaken

(***************************************************************************)
(* support_runtime_commit_operator                                         *)
(***************************************************************************)

OperatorVerdict(c, expected, control, catalog) ==
    IF event[c].revision # 0 THEN "replayed"
    ELSE IF \/ cs.state.null \/ cs.revision # expected \/ cs.catalog # catalog
            \/ c \in Resumes /\ control # conv.version THEN "refused"
    ELSE "commit"

OperatorMode(c, projected) ==
    IF c \in Resumes THEN "bot" ELSE TurnMode(projected)

CommitOperator(c, expected, control, catalog, next, reply, projected, began, announces) ==
    /\ OperatorVerdict(c, expected, control, catalog) = "commit"
    /\ c \in Resumes => projected = "bot"
    /\ LET mode   == OperatorMode(c, projected)
           queued == reply /\ mode = "bot"
       IN  /\ announces \subseteq (IF queued THEN Unannounced(next) ELSE {})
           /\ outbox' = IF queued
                        THEN [outbox EXCEPT ![c] = QueuedReply(began, FALSE, announces)]
                        ELSE outbox
           /\ conv' = Project(mode, next)
           /\ event' = [event EXCEPT ![c] = [revision |-> cs.revision + 1, outcome |-> "OPERATOR",
                                             catalog |-> catalog, replied |-> queued]]
    /\ cs' = StoreState(catalog, next)
    /\ requests' = Materialized(next)
    /\ UNCHANGED <<receipt, overtaken>>

(***************************************************************************)
(* The outbox: support_runtime_claim_, complete_ and fail_delivery         *)
(***************************************************************************)

\* Mutated form: a row in progress can be claimed again at once.
ClaimableInProgress(x) == outbox[x].status \in {"PENDING", "PROCESSING"}

Claimable(x) ==
    \/ outbox[x].status = "PENDING"
    \/ outbox[x].status = "PROCESSING" /\ outbox[x].expired

\* Mutated form: the current mode is not looked at.
SupersededAnyMode(x) ==
    \/ conv.takeoverAt > outbox[x].createdAt
    \/ outbox[x].revision # cs.revision

\* STALE_OR_HUMAN_TAKEOVER
Superseded(x) ==
    \/ conv.mode # "bot" /\ ~ (conv.mode = "human" /\ outbox[x].ack)
    \/ conv.takeoverAt > outbox[x].createdAt
    \/ outbox[x].revision # cs.revision

Claim(x) ==
    /\ Claimable(x)
    /\ ~ Superseded(x)
    /\ outbox' = [outbox EXCEPT ![x].status = "PROCESSING", ![x].attempts = @ + 1,
                                ![x].expired = FALSE]
    /\ UNCHANGED <<conv, cs, receipt, event, requests, overtaken>>

\* Mutated form: a superseded reply is refused but not cancelled.
CancelStaleKeepsRow(x) ==
    /\ Claimable(x)
    /\ Superseded(x)
    /\ UNCHANGED store

CancelStale(x) ==
    /\ Claimable(x)
    /\ Superseded(x)
    /\ outbox' = [outbox EXCEPT ![x].status = "CANCELLED"]
    /\ UNCHANGED <<conv, cs, receipt, event, requests, overtaken>>

\* complete_delivery and fail_delivery do not know who claimed the row.
Settle(x, status) ==
    /\ outbox' = IF outbox[x].status = "PROCESSING"
                 THEN [outbox EXCEPT ![x].status = status]
                 ELSE outbox
    /\ UNCHANGED <<conv, cs, receipt, event, requests, overtaken>>

\* Five minutes pass since the row was claimed.
ClaimExpires(x) ==
    /\ outbox[x].status = "PROCESSING"
    /\ ~ outbox[x].expired
    /\ outbox' = [outbox EXCEPT ![x].expired = TRUE]
    /\ UNCHANGED <<conv, cs, receipt, event, requests, overtaken>>

(***************************************************************************)
(* set_support_automation_mode, for an official and for a legacy row       *)
(***************************************************************************)

\* Mutated form: taking over or closing does not touch updated_at.
PanelModeSameVersion(m, began) ==
    [conv EXCEPT !.mode = m, !.takeoverAt = IF m = "human" THEN began ELSE @]

\* What the panel's queue becomes; the legacy branch keeps it on a takeover.
PanelQueue(m) ==
    IF m = "closed" THEN "closed"
    ELSE IF conv.official THEN "inbox"
    ELSE IF m = "bot" THEN "waiting_citizen"
    ELSE conv.queue

\* human_takeover_at: the official branch moves it on every takeover and
\* keeps it otherwise; the legacy branch keeps the first and clears it.
TakeoverAt(m, began) ==
    IF conv.official
    THEN IF m = "human" THEN began ELSE conv.takeoverAt
    ELSE IF m = "human" THEN (IF conv.takeoverAt = 0 THEN began ELSE conv.takeoverAt) ELSE 0

PanelMode(m, began) ==
    [conv EXCEPT !.mode = m, !.takeoverAt = TakeoverAt(m, began), !.queue = PanelQueue(m),
                 !.version = @ + 1]

SetAutomationMode(m, began) ==
    /\ conv.version > 0
    /\ conv.official => m # "bot"     \* "Use the official RESUME command"
    /\ conv' = PanelMode(m, began)
    /\ overtaken' = IF m = "bot" THEN overtaken
                    ELSE overtaken \cup {x \in Inputs : outbox[x].status # "NONE"}
    /\ UNCHANGED <<cs, receipt, event, outbox, requests>>

(***************************************************************************)
(* support_runtime_upgrade_catalog                                         *)
(***************************************************************************)

UpgradeCatalog(from, to) ==
    /\ from # to
    /\ cs' = IF cs.catalog = from /\ ~ cs.state.null THEN [cs EXCEPT !.catalog = to] ELSE cs
    /\ UNCHANGED <<conv, receipt, event, outbox, requests, overtaken>>

(***************************************************************************)
(* The store with arbitrary service-role callers                           *)
(***************************************************************************)

StoredStates == {s \in States : ~ s.null}

AnyTurn == \E i \in Inbound, e \in 0 .. Cardinality(Inputs), k \in Catalogs, s \in StoredStates,
              o \in TurnOutcomes, r \in BOOLEAN, m \in {"bot", "human"}, b \in Begun,
              a \in SUBSET Goals : CommitTurn(i, e, k, s, o, r, m, b, a)

AnyCommand == \E c \in Commands, e \in 0 .. Cardinality(Inputs), v \in 1 .. conv.version,
                 k \in Catalogs, s \in StoredStates, r \in BOOLEAN, m \in {"bot", "human"},
                 b \in Begun, a \in SUBSET Goals : CommitOperator(c, e, v, k, s, r, m, b, a)

AnyDelivery == \E x \in Inputs : \/ Claim(x) \/ CancelStale(x)
                                 \/ Settle(x, "SENT") \/ Settle(x, "FAILED")
                                 \/ ClaimExpires(x)

Next ==
    \/ \E i \in Inbound, k \in Catalogs : AcquireInbound(i, k)
    \/ AnyTurn
    \/ AnyCommand
    \/ AnyDelivery
    \/ \E m \in Modes, b \in Begun : SetAutomationMode(m, b)
    \/ \E f, t \in Catalogs : UpgradeCatalog(f, t)

Spec == Init /\ [][Next]_store

(***************************************************************************)
(* Properties                                                              *)
(***************************************************************************)

\* The turn events and the operator events, two tables with a unique key
\* each, number the conversation's history without a gap or a clash between
\* the two: every revision up to the current one is the row of one input.
RevisionLog ==
    /\ \A x \in Inputs : event[x].revision <= cs.revision
    /\ \A x, y \in Inputs : x # y /\ event[x].revision = event[y].revision
                             => event[x].revision = 0
    /\ \A r \in 1 .. cs.revision : \E x \in Inputs : event[x].revision = r
=============================================================================
