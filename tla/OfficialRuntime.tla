--------------------------- MODULE OfficialRuntime ---------------------------
(***************************************************************************)
(* The official runtime of one conversation: concurrent executions of the  *)
(* edge function support-runtime-inbound (the workers) over RuntimeStore.  *)
(* An execution handles one citizen message (acquire, plan, commit,        *)
(* deliver) or one operator command (snapshot, replay lookup, commit,      *)
(* deliver).  Between two of its calls anything else may happen: another   *)
(* execution, a panel takeover, a deployment, or its own death.            *)
(***************************************************************************)
EXTENDS RuntimeStore, Sequences

CONSTANTS
    Workers,     \* executions that may run at the same time
    Direct,      \* SUPPORT_RUNTIME_DELIVERY_MODE is DIRECT (else QUEUE_ONLY)
    MaxPanel,    \* bound: calls of set_support_automation_mode
    MaxExpiries, \* bound: claims that outlive their five minutes
    MaxFaults    \* bound: executions that end early (crash, timeout, error)

ASSUME RuntimeAssumption ==
    /\ Inbound # {}
    /\ Direct \in BOOLEAN
    /\ MaxPanel \in Nat /\ MaxExpiries \in Nat /\ MaxFaults \in Nat

VARIABLES
    worker,    \* what each execution holds in memory
    command,   \* the operator's commands, as the panel composed them
    phone,     \* the replies handed to the messaging provider, in order
    deployed,  \* catalog hash of the deployed function
    upgraded,  \* last catalog support_runtime_upgrade_catalog was run for
    spent      \* how much of each bound is used up

vars == <<store, worker, command, phone, deployed, upgraded, spent>>

Stages == {"idle", "plan", "commit_turn", "replay", "commit_operator",
           "claim", "send", "complete", "fail"}

IdleWorker(x) == [at |-> "idle", input |-> x, catalog |-> 1, revision |-> 0, control |-> 0,
                  mode |-> "HUMAN_ACTIVE", state |-> NullState, outcome |-> "NONE",
                  reply |-> FALSE]

\* An execution that ended keeps nothing: its record is this one.
Idle == IdleWorker(CHOOSE x \in Inputs : TRUE)

Uncomposed == [sent |-> FALSE, expected |-> 0, control |-> 0,
               shown |-> [mode |-> "bot", takeoverAt |-> 0, received |-> {}]]

Executions == [at : Stages, input : Inputs, catalog : Catalogs, revision : Nat, control : Nat,
               mode : {"BOT_ACTIVE", "HUMAN_ACTIVE"}, state : States, outcome : Outcomes,
               reply : BOOLEAN]

Compositions == [sent : BOOLEAN, expected : Nat, control : Nat,
                 shown : [mode : Modes, takeoverAt : Nat, received : SUBSET Inbound]]

RuntimeTypeOK ==
    /\ TypeOK
    /\ worker \in [Workers -> Executions]
    /\ command \in [Commands -> Compositions]
    /\ phone \in Seq(Inputs)
    /\ deployed \in Catalogs
    /\ upgraded \in Catalogs
    /\ spent \in [panel : 0 .. MaxPanel, expiries : 0 .. MaxExpiries, faults : 0 .. MaxFaults]

RuntimeInit ==
    /\ Init
    /\ worker = [w \in Workers |-> Idle]
    /\ command = [c \in Commands |-> Uncomposed]
    /\ phone = <<>>
    /\ deployed = 1
    /\ upgraded = 1
    /\ spent = [panel |-> 0, expiries |-> 0, faults |-> 0]

At(w, stage) == worker[w].at = stage

Becomes(w, rec) == worker' = [worker EXCEPT ![w] = rec]
Ends(w) == Becomes(w, Idle)
Moves(w, stage) == Becomes(w, [worker[w] EXCEPT !.at = stage])

\* The transaction of w starts after w last read the store.
BegunBy(w) == {t \in Begun : t > worker[w].control}

(***************************************************************************)
(* One official turn: processOfficialTurn                                  *)
(***************************************************************************)

\* The lease of acquireInbound, as this transaction leaves the store.
LeaseOf(i) ==
    [Idle EXCEPT !.at = "plan", !.input = i, !.catalog = deployed,
                 !.revision = cs'.revision, !.control = conv'.version, !.state = cs'.state,
                 !.mode = IF conv'.mode = "bot" THEN "BOT_ACTIVE" ELSE "HUMAN_ACTIVE"]

\* "a controlled conversation migration is required"
CatalogMismatch == ~ cs'.state.null /\ cs'.catalog # deployed

Receive(w, i) ==
    /\ At(w, "idle")
    /\ AcquireInbound(i, deployed)
    /\ Becomes(w, IF CatalogMismatch THEN Idle ELSE LeaseOf(i))
    /\ UNCHANGED <<command, phone, deployed, upgraded, spent>>

\* A turn that does not change the state still stores it; it opens no request,
\* for what was ready got its request when it became so.  A file that waits
\* for review silences the pending question, whatever the outcome.
Kept(w, a) == [worker[w].state EXCEPT !.null = FALSE, !.asking = a]

\* The state after one input: requests are opened, never dropped.
Absorbed(w, q, h, a) ==
    [worker[w].state EXCEPT !.null = FALSE, !.applied = @ \cup {worker[w].input},
                            !.requests = q, !.handoff = h, !.asking = a]

MoreRequests(w) == {q \in SUBSET Goals : worker[w].state.requests \subseteq q}

Plans(w, next, outcome, reply) ==
    Becomes(w, [worker[w] EXCEPT !.at = "commit_turn", !.state = next,
                                 !.outcome = outcome, !.reply = reply])

\* The outcomes of planTurn and of the official information reply.
PlanTurn(w) ==
    /\ At(w, "plan")
    /\ LET s == worker[w].state
       IN  \/ /\ worker[w].mode = "HUMAN_ACTIVE"
              /\ \E a \in {s.asking, FALSE} : Plans(w, Kept(w, a), "HUMAN_ACTIVE", FALSE)
           \/ /\ worker[w].mode = "BOT_ACTIVE"
              /\ \E a \in {s.asking, FALSE} :
                   \/ Plans(w, Kept(w, a), "INTERPRETATION_UNAVAILABLE", FALSE)
                   \/ Plans(w, Kept(w, a), "CLARIFICATION", TRUE)
           \/ /\ worker[w].mode = "BOT_ACTIVE"
              /\ \E q \in MoreRequests(w), h \in {s.handoff, TRUE}, a, r \in BOOLEAN :
                   Plans(w, Absorbed(w, q, h, a), "PROPOSED", r)
    /\ UNCHANGED <<store, command, phone, deployed, upgraded, spent>>

\* Mutated form: the projection forgets the handoff of the planned state.
ProjectedModeNoHandoff(w) ==
    IF worker[w].input \notin Resumes /\ worker[w].mode = "HUMAN_ACTIVE" THEN "human" ELSE "bot"

\* panelProjection, and what the two services force on it.
ProjectedMode(w) ==
    IF worker[w].input \in Resumes THEN "bot"
    ELSE IF worker[w].state.handoff \/ worker[w].mode = "HUMAN_ACTIVE" THEN "human"
    ELSE "bot"

\* deliver() with the outbox id the commit returned, if it returned one.
Delivers(w, replied) == IF replied /\ Direct THEN Moves(w, "claim") ELSE Ends(w)

CommitTurnStep(w) ==
    LET i == worker[w].input
        t == worker[w]
        v == TurnVerdict(i, t.revision, t.catalog)
    IN  /\ At(w, "commit_turn")
        /\ \/ /\ v = "commit"
              /\ \E b \in BegunBy(w), a \in SUBSET t.state.requests :
                   CommitTurn(i, t.revision, t.catalog, t.state, t.outcome, t.reply,
                              ProjectedMode(w), b, a)
              /\ Delivers(w, event'[i].replied)
           \/ /\ v = "replayed"
              /\ Delivers(w, event[i].replied)
              /\ UNCHANGED store
           \/ /\ v = "refused"
              /\ Ends(w)
              /\ UNCHANGED store
        /\ UNCHANGED <<command, phone, deployed, upgraded, spent>>

(***************************************************************************)
(* One operator command: processOfficialOperator                           *)
(***************************************************************************)

\* What the operator sees of the control of the conversation, and its version.
ControlShown == [mode |-> conv.mode, takeoverAt |-> conv.takeoverAt,
                 received |-> {i \in Inbound : receipt[i] # "NONE"}]

\* The panel reads OPERATOR_SNAPSHOT and the operator decides on what it shows.
Compose(c) ==
    /\ ~ command[c].sent
    /\ ~ cs.state.null
    /\ command' = [command EXCEPT ![c] =
         [sent |-> TRUE, expected |-> cs.revision, control |-> conv.version,
          shown |-> ControlShown]]
    /\ UNCHANGED <<store, worker, phone, deployed, upgraded, spent>>

\* Any execution may get the command, more than once: the panel retries.
Snapshot(w, c) ==
    /\ At(w, "idle")
    /\ command[c].sent
    /\ cs.catalog = deployed
    /\ Becomes(w, [Idle EXCEPT !.at = "replay", !.input = c, !.catalog = deployed,
                               !.revision = cs.revision, !.control = conv.version,
                               !.state = cs.state,
                               !.mode = IF conv.mode = "bot" THEN "BOT_ACTIVE" ELSE "HUMAN_ACTIVE"])
    /\ UNCHANGED <<store, command, phone, deployed, upgraded, spent>>

\* 409: the attendance moved since the operator looked at it.
Outdated(w) ==
    LET c == worker[w].input
    IN  \/ worker[w].revision # command[c].expected
        \/ c \in Resumes /\ worker[w].control # command[c].control

\* applyOperatorCommand: a RESUME ends the handoff, a decision keeps it.  A
\* decision that does not apply to the state any more is rejected (400).
Decides(w, q, a) ==
    Becomes(w, [worker[w] EXCEPT
                  !.at = "commit_operator",
                  !.state = Absorbed(w, q, @.handoff /\ worker[w].input \notin Resumes, a),
                  !.outcome = "OPERATOR"])

Replay(w) ==
    LET c == worker[w].input
    IN  /\ At(w, "replay")
        /\ \/ /\ event[c].revision # 0
              /\ Delivers(w, event[c].replied)
           \/ /\ event[c].revision = 0
              /\ Outdated(w)
              /\ Ends(w)
           \/ /\ event[c].revision = 0
              /\ ~ Outdated(w)
              /\ \/ Ends(w)
                 \/ \E q \in MoreRequests(w), a \in BOOLEAN : Decides(w, q, a)
        /\ UNCHANGED <<store, command, phone, deployed, upgraded, spent>>

CommitOperatorStep(w) ==
    LET c == worker[w].input
        t == worker[w]
        v == OperatorVerdict(c, t.revision, command[c].control, t.catalog)
    IN  /\ At(w, "commit_operator")
        /\ \/ /\ v = "commit"
              /\ \E b \in BegunBy(w), a \in SUBSET t.state.requests :
                   CommitOperator(c, t.revision, command[c].control, t.catalog, t.state,
                                  ProjectedMode(w) = "bot", ProjectedMode(w), b, a)
              /\ Delivers(w, event'[c].replied)
           \/ /\ v = "replayed"
              /\ Delivers(w, event[c].replied)
              /\ UNCHANGED store
           \/ /\ v = "refused"
              /\ Ends(w)
              /\ UNCHANGED store
        /\ UNCHANGED <<command, phone, deployed, upgraded, spent>>

(***************************************************************************)
(* deliver(): claim, send outside any transaction, then settle             *)
(***************************************************************************)

ClaimDelivery(w) ==
    LET x == worker[w].input
    IN  /\ At(w, "claim")
        /\ \/ Claim(x) /\ Moves(w, "send")
           \/ CancelStale(x) /\ Ends(w)
           \/ ~ Claimable(x) /\ Ends(w) /\ UNCHANGED store
        /\ UNCHANGED <<command, phone, deployed, upgraded, spent>>

\* The provider takes the message; its answer may still be lost.
SendText(w) ==
    /\ At(w, "send")
    /\ phone' = Append(phone, worker[w].input)
    /\ \E stage \in {"complete", "fail"} : Moves(w, stage)
    /\ UNCHANGED <<store, command, deployed, upgraded, spent>>

\* Mutated form: the provider's refusal is taken for success.
SendRejectedUnnoticed(w) ==
    /\ At(w, "send")
    /\ Moves(w, "complete")
    /\ UNCHANGED <<store, command, phone, deployed, upgraded, spent>>

SendRejected(w) ==
    /\ At(w, "send")
    /\ Moves(w, "fail")
    /\ UNCHANGED <<store, command, phone, deployed, upgraded, spent>>

\* The call that completes the delivery may fail before or after it took effect.
CompleteDelivery(w) ==
    /\ At(w, "complete")
    /\ \/ Settle(worker[w].input, "SENT") /\ Ends(w)
       \/ Settle(worker[w].input, "SENT") /\ Moves(w, "fail")
       \/ UNCHANGED store /\ Moves(w, "fail")
    /\ UNCHANGED <<command, phone, deployed, upgraded, spent>>

FailDelivery(w) ==
    /\ At(w, "fail")
    /\ Settle(worker[w].input, "FAILED")
    /\ Ends(w)
    /\ UNCHANGED <<command, phone, deployed, upgraded, spent>>

(***************************************************************************)
(* What happens around the executions                                      *)
(***************************************************************************)

Fault(w) ==
    /\ ~ At(w, "idle")
    /\ spent.faults < MaxFaults
    /\ spent' = [spent EXCEPT !.faults = @ + 1]
    /\ Ends(w)
    /\ UNCHANGED <<store, command, phone, deployed, upgraded>>

Panel(m) ==
    /\ spent.panel < MaxPanel
    /\ spent' = [spent EXCEPT !.panel = @ + 1]
    /\ \E b \in Begun : SetAutomationMode(m, b)
    /\ UNCHANGED <<worker, command, phone, deployed, upgraded>>

Expire(x) ==
    /\ spent.expiries < MaxExpiries
    /\ spent' = [spent EXCEPT !.expiries = @ + 1]
    /\ ClaimExpires(x)
    /\ UNCHANGED <<worker, command, phone, deployed, upgraded>>

\* Mutated form: a catalog hash nobody knows is deployed.
DeployUnknown ==
    /\ deployed <= MaxCatalog
    /\ deployed' = deployed + 1
    /\ UNCHANGED <<store, worker, command, phone, upgraded, spent>>

\* Executions in progress keep the catalog they started with.
Deploy ==
    /\ deployed < MaxCatalog
    /\ deployed' = deployed + 1
    /\ UNCHANGED <<store, worker, command, phone, upgraded, spent>>

\* The release procedure runs the upgrade once per deployed catalog.
Upgrade ==
    /\ upgraded < deployed
    /\ upgraded' = upgraded + 1
    /\ UpgradeCatalog(upgraded, upgraded + 1)
    /\ UNCHANGED <<worker, command, phone, deployed, spent>>

Progress(w) ==
    \/ PlanTurn(w)
    \/ CommitTurnStep(w)
    \/ Replay(w)
    \/ CommitOperatorStep(w)
    \/ ClaimDelivery(w)
    \/ SendText(w)
    \/ SendRejected(w)
    \/ CompleteDelivery(w)
    \/ FailDelivery(w)

RuntimeNext ==
    \/ \E w \in Workers, i \in Inbound : Receive(w, i)
    \/ \E w \in Workers, c \in Commands : Snapshot(w, c)
    \/ \E w \in Workers : Progress(w)
    \/ \E w \in Workers : Fault(w)
    \/ \E c \in Commands : Compose(c)
    \/ \E m \in Modes : Panel(m)
    \/ \E x \in Inputs : Expire(x)
    \/ Deploy
    \/ Upgrade

RuntimeSpec == RuntimeInit /\ [][RuntimeNext]_vars

\* An execution that the platform does not end early (Fault) takes its next
\* step: it holds no lock between two calls and waits for no other execution.
\* The ingress posts a message again until it is accepted (an assumption about
\* the webhook, which is not in the repository; the recovery migration relies
\* on it), and the release procedure runs the upgrade after a deployment.
Redeliver(i) == receipt[i] = "RECEIVED" /\ \E w \in Workers : Receive(w, i)

Fairness ==
    /\ \A w \in Workers : WF_vars(Progress(w))
    /\ \A i \in Inbound : WF_vars(Redeliver(i))
    /\ WF_vars(Upgrade)

FairSpec == RuntimeSpec /\ Fairness

(***************************************************************************)
(* Safety                                                                  *)
(***************************************************************************)

\* Two executions may plan from the same lease while the other commits.  The
\* two event tables number one history, and the stored state has absorbed
\* every input which that history says changed it, and no other: no commit
\* overwrites an earlier one.
NoLostUpdate ==
    /\ RevisionLog
    /\ cs.state.applied = {x \in Inputs : event[x].outcome \in {"PROPOSED", "OPERATOR"}}

\* What an execution holds fits the stage it is at.
Fits(e) ==
    /\ e.at \in {"plan", "commit_turn"} => e.input \in Inbound
    /\ e.at \in {"replay", "commit_operator"} => e.input \in Commands /\ command[e.input].sent
    /\ e.at = "commit_turn" => e.outcome \in TurnOutcomes
    /\ e.at = "commit_operator" => e.outcome = "OPERATOR"

\* No commit has come between the lease of e and now, unless the revision
\* tells: e holds the stored state, or what its own input makes of it.
Leased(e) ==
    /\ e.at # "idle" => e.revision <= cs.revision
    /\ e.at = "commit_operator" /\ e.input \in Resumes => ~ e.state.handoff
    /\ e.revision = cs.revision =>
          /\ e.at \in {"plan", "replay"} => e.state = cs.state
          /\ e.at \in {"commit_turn", "commit_operator"} =>
                /\ cs.state.requests \subseteq e.state.requests
                /\ e.state.applied = IF e.outcome \in {"PROPOSED", "OPERATOR"}
                                     THEN cs.state.applied \cup {e.input}
                                     ELSE cs.state.applied

\* An execution that has read the stored state and whose lease no commit has
\* overtaken still holds that state, or what its own input makes of it, and
\* only a RESUME drops a handoff: this is why comparing revisions is enough.
CurrentLease == \A w \in Workers : Fits(worker[w]) /\ Leased(worker[w])

\* The same hazard seen from the panel: every row of support_service_requests
\* is a request the stored state still knows, and every request the state
\* knows has its row, although rows are only ever inserted.
NoOrphanRequest == requests = cs.state.requests

\* Once the engine asked for a person, the bot stays silent until a RESUME:
\* no takeover, closure, late commit or decision gives it the conversation.
HandoffStaysWithTeam == cs.state.handoff => conv.mode # "bot"

\* The panel shows an official conversation as waiting for the citizen only
\* when the bot owns it and its state really asks the citizen something.
WaitingCitizenIsAsked ==
    conv.official /\ conv.queue = "waiting_citizen" =>
        conv.mode = "bot" /\ cs.state.asking /\ ~ cs.state.handoff

\* A RESUME takes effect only if the operator saw the control as it is now:
\* the same mode and takeover, and every citizen message received so far.
ResumeSeesCurrentControl ==
    [][\A c \in Resumes : event[c].revision = 0 /\ event'[c].revision # 0 =>
          command[c].shown = ControlShown]_vars

\* Neither an execution that outlived a deployment nor an upgrade puts a
\* stored state back under an older catalog.
CatalogNeverRegresses == [][~ cs.state.null => cs'.catalog >= cs.catalog]_vars

\* A reply that was queued when a person took over or closed is never claimed
\* afterwards, not even when a RESUME has returned the conversation to the
\* bot.  The acknowledgement of a handoff is excepted, see AckIsOvertaken.
NoOvertakenClaim ==
    [][\A x \in overtaken : ~ outbox[x].ack => outbox'[x].attempts = outbox[x].attempts]_vars

Copies(x) == Cardinality({k \in DOMAIN phone : phone[k] = x})

\* The citizen gets a reply more than once only if a claim outlived its five
\* minutes, and the row's attempts never count fewer than were sent.
AttemptsCoverSends ==
    \A x \in Inputs : /\ Copies(x) <= outbox[x].attempts
                      /\ outbox[x].attempts <= 1 + spent.expiries

\* SENT is never recorded for a reply the provider did not take, whichever
\* of two executions settles the row.
SentReachedPhone == \A x \in Inputs : outbox[x].status = "SENT" => Copies(x) > 0

\* The runtime implements the conversation log: the input at each position is
\* the one whose event has that revision.
Log == INSTANCE ConversationLog WITH
    log   <- [r \in 1 .. cs.revision |-> CHOOSE x \in Inputs : event[x].revision = r],
    owner <- IF conv.mode = "bot" THEN "bot" ELSE "team"

ImplementsLog == Log!Spec

(***************************************************************************)
(* Liveness                                                                *)
(***************************************************************************)

\* The upgrade has passed this conversation by: no later turn can run on it.
Stranded == ~ cs.state.null /\ cs.catalog < upgraded

\* A message whose execution died before the commit is not lost: redelivered,
\* it is committed, whatever the mode, the panel and other turns do, unless a
\* late execution has stranded the conversation (AbsentStateTakesDeployedCatalog).
ReceivedIsCommitted ==
    \A i \in Inbound : receipt[i] = "RECEIVED" ~> event[i].revision # 0 \/ Stranded

\* When no execution dies, a queued reply is sent, refused or cancelled.
QueuedReplySettles ==
    \A x \in Inputs : outbox[x].status = "PENDING" ~>
                          \/ outbox[x].status \in {"SENT", "FAILED", "CANCELLED"}
                          \/ spent.faults > 0

(***************************************************************************)
(* What the repository says and the code does not keep                     *)
(***************************************************************************)

\* "operator takeover after handoff acknowledgement creation blocks delivery"
AckIsOvertaken ==
    [][\A x \in overtaken : outbox[x].ack => outbox'[x].attempts = outbox[x].attempts]_vars

\* "never deliver a superseded question": what is handed to the provider is
\* the reply of the current revision.
NeverDeliverSuperseded ==
    [][\A x \in Inputs : phone' = Append(phone, x) => outbox[x].revision = cs.revision]_vars

\* "Estados ausentes sao inicializados pelo catalogo atualmente implantado":
\* a state created after a deployment is under the deployed catalog.
AbsentStateTakesDeployedCatalog ==
    [][cs.state.null /\ ~ cs'.state.null => cs'.catalog = deployed]_vars
=============================================================================
