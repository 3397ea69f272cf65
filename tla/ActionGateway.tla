---------------------------- MODULE ActionGateway ----------------------------
(***************************************************************************)
(* The gateway in front of the tools that have effects                     *)
(* (motor-v2/action_gateway.ts): concurrent callers of one process invoke  *)
(* it with an idempotency key; it executes a key once, remembers the       *)
(* outcome and replays it.  Its memory dies with the process; what it sent *)
(* out may still take effect.  The executor is external: it promises to    *)
(* enforce the key durably (action_gateway.ts:22), and may refuse, answer  *)
(* nonsense or throw, before or after the effect.                          *)
(* Hashes are what they are taken of, so a receipt is the request, whose   *)
(* payload, tool and claims it binds, with the effect it refers to.        *)
(***************************************************************************)
EXTENDS Integers, FiniteSets

CONSTANTS
    Caller,          \* concurrent invocations
    Request,         \* [tool, key, payload, confirmed, receipt, claims]
    EffectsAllowed,  \* an executor was injected and external effects are allowed
    MaxInvocations,  \* bound on the invocations of a behaviour
    MaxEra           \* bound on the restarts of the process

Policy(confirmation, receipt) == [confirmation |-> confirmation, receipt |-> receipt]
ToolPolicy ==
    [tool \in {"handoff.request", "booking.request", "payment.request", "document.submit",
               "confirmation.record", "execution.confirm", "resolution.confirm"} |->
        CASE tool = "handoff.request" -> Policy(FALSE, "handoff_acceptance")
          [] tool = "booking.request" -> Policy(TRUE, "booking_confirmation")
          [] tool = "payment.request" -> Policy(TRUE, "payment_confirmation")
          [] tool = "document.submit" -> Policy(TRUE, "document_confirmation")
          [] tool = "confirmation.record" -> Policy(TRUE, "explicit_user_confirmation")
          [] tool = "execution.confirm" -> Policy(TRUE, "execution_confirmation")
          [] tool = "resolution.confirm" -> Policy(TRUE, "resolution_confirmation")]

RequestKeys == {r.key : r \in Request}
NoRequest == [key |-> "none"]
ASSUME GatewayAssumption ==
    /\ EffectsAllowed \in BOOLEAN /\ MaxInvocations \in Nat /\ MaxEra \in Nat
    /\ "none" \notin RequestKeys

VARIABLES
    invocation,  \* caller -> what it asked and where that is
    recorded,    \* key -> the request and the outcome remembered for it
    inflight,    \* key -> the caller that executes it, if any
    sent,        \* requests handed to the executor
    performed,   \* key -> the request whose effect took place
    answered,    \* answers given: caller's request, outcome, receipt, era
    era,         \* restarts so far
    invocations
gatewayVars == <<invocation, recorded, inflight, sent, performed, answered, era, invocations>>

Outcomes == {"denied", "proposed", "executed", "replayed"}
NoRecord == [outcome |-> "none", receipt |-> NoRequest]
ActionRecord == [outcome : Outcomes, receipt : Request \cup {NoRequest}]
Unasked == [at |-> "idle", request |-> NoRequest]

GatewayTypeOK ==
    /\ invocation \in [Caller -> [at : {"hashing", "executing", "waiting"}, request : Request]
                                 \cup {Unasked}]
    /\ recorded \in [RequestKeys -> [request : Request \cup {NoRequest},
                                     record : ActionRecord \cup {NoRecord}]]
    /\ inflight \in [RequestKeys -> SUBSET Caller]
    /\ sent \subseteq Request
    /\ performed \in [RequestKeys -> Request \cup {NoRequest}]
    /\ answered \subseteq [request : Request, record : ActionRecord, era : 0..MaxEra]
    /\ era \in 0..MaxEra /\ invocations \in 0..MaxInvocations

-----------------------------------------------------------------------------
(* A request and its outcome.                                              *)

IsValid(r) == r.tool \in DOMAIN ToolPolicy /\ r.claims # {}
IsPermitted(r) ==
    /\ r.receipt = ToolPolicy[r.tool].receipt
    /\ ToolPolicy[r.tool].confirmation => r.confirmed
    /\ EffectsAllowed

Without(outcome) == [outcome |-> outcome, receipt |-> NoRequest]
WithReceipt(outcome, r) == [outcome |-> outcome, receipt |-> r]
Replay(record) ==
    IF record.receipt # NoRequest THEN [record EXCEPT !.outcome = "replayed"] ELSE record

Nothing == [request |-> NoRequest, record |-> NoRecord]
Reply(r, record) == [request |-> r, record |-> record, era |-> era]

GatewayInit ==
    /\ invocation = [c \in Caller |-> Unasked]
    /\ recorded = [k \in RequestKeys |-> Nothing]
    /\ inflight = [k \in RequestKeys |-> {}]
    /\ sent = {} /\ performed = [k \in RequestKeys |-> NoRequest]
    /\ answered = {} /\ era = 0 /\ invocations = 0

-----------------------------------------------------------------------------
(* The gateway.                                                            *)

\* up to the first await: a request that is not well formed is refused at once
Invoke(c, r) ==
    /\ invocation[c] = Unasked /\ invocations < MaxInvocations
    /\ invocations' = invocations + 1
    /\ IF IsValid(r)
       THEN /\ invocation' = [invocation EXCEPT ![c] = [at |-> "hashing", request |-> r]]
            /\ UNCHANGED answered
       ELSE /\ answered' = answered \cup {Reply(r, Without("denied"))}
            /\ UNCHANGED invocation
    /\ UNCHANGED <<recorded, inflight, sent, performed, era>>

Replies(c, record) ==
    /\ answered' = answered \cup {Reply(invocation[c].request, record)}
    /\ invocation' = [invocation EXCEPT ![c] = Unasked]

\* the key is taken by another request, remembered or under way
KeyIsTakenInFlight(r) == \E d \in inflight[r.key] : invocation[d].request # r
KeyIsTaken(r) ==
    \/ recorded[r.key] # Nothing /\ recorded[r.key].request # r
    \/ \E d \in inflight[r.key] : invocation[d].request # r

\* once the request is hashed: one look at the memory decides, without a pause
RefuseReuse(c) ==
    LET r == invocation[c].request IN
    /\ invocation[c].at = "hashing" /\ KeyIsTaken(r)
    /\ Replies(c, Without("denied"))
    /\ UNCHANGED <<recorded, inflight, sent, performed, era, invocations>>

ReplayPrior(c) ==
    LET r == invocation[c].request IN
    /\ invocation[c].at = "hashing" /\ ~KeyIsTaken(r) /\ recorded[r.key] # Nothing
    /\ Replies(c, Replay(recorded[r.key].record))
    /\ UNCHANGED <<recorded, inflight, sent, performed, era, invocations>>

AwaitInflight(c) ==
    LET r == invocation[c].request IN
    /\ invocation[c].at = "hashing" /\ ~KeyIsTaken(r)
    /\ recorded[r.key] = Nothing /\ inflight[r.key] # {}
    /\ invocation' = [invocation EXCEPT ![c].at = "waiting"]
    /\ UNCHANGED <<recorded, inflight, sent, performed, answered, era, invocations>>

IsFree(r) == ~KeyIsTaken(r) /\ recorded[r.key] = Nothing

\* executeOnce: what the policy denies is remembered as an outcome too
Deny(c) ==
    LET r == invocation[c].request IN
    /\ invocation[c].at = "hashing" /\ IsFree(r) /\ inflight[r.key] = {} /\ ~IsPermitted(r)
    /\ recorded' = [recorded EXCEPT ![r.key] = [request |-> r, record |-> Without("denied")]]
    /\ Replies(c, Without("denied"))
    /\ UNCHANGED <<inflight, sent, performed, era, invocations>>

Hands(c) ==
    LET r == invocation[c].request IN
    /\ invocation[c].at = "hashing" /\ IsFree(r) /\ IsPermitted(r)
    /\ inflight' = [inflight EXCEPT ![r.key] = @ \cup {c}]
    /\ sent' = sent \cup {r}
    /\ invocation' = [invocation EXCEPT ![c].at = "executing"]
    /\ UNCHANGED <<recorded, performed, answered, era, invocations>>
ExecuteAnyway(c) == Hands(c)
Execute(c) == Hands(c) /\ inflight[invocation[c].request.key] = {}

\* the outcome of the execution is remembered for the key, then answered
Settles(c, record) ==
    LET r == invocation[c].request IN
    /\ invocation[c].at = "executing"
    /\ recorded' = [recorded EXCEPT ![r.key] = [request |-> r, record |-> record]]
    /\ inflight' = [inflight EXCEPT ![r.key] = @ \ {c}]
    /\ Replies(c, record)
    /\ UNCHANGED <<sent, performed, era, invocations>>

ExecutorAccepts(c) ==
    LET r == invocation[c].request IN
    Settles(c, WithReceipt("executed", r)) /\ performed[r.key] = r

\* it threw, refused or answered nonsense: the effect may have taken place
ExecutorFailsForgotten(c) ==
    LET r == invocation[c].request IN
    /\ invocation[c].at = "executing"
    /\ inflight' = [inflight EXCEPT ![r.key] = @ \ {c}]
    /\ Replies(c, Without("proposed"))
    /\ UNCHANGED <<recorded, sent, performed, era, invocations>>
ExecutorFails(c) == Settles(c, Without("proposed"))

\* whoever awaited the execution is handed its outcome
Handed(c) ==
    LET r == invocation[c].request IN
    /\ invocation[c].at = "waiting" /\ recorded[r.key] # Nothing
    /\ Replies(c, Replay(recorded[r.key].record))
    /\ UNCHANGED <<recorded, inflight, sent, performed, era, invocations>>

\* the effect takes place outside, also after the process that asked has died
Perform(r) ==
    /\ r \in sent /\ performed[r.key] = NoRequest
    /\ performed' = [performed EXCEPT ![r.key] = r]
    /\ UNCHANGED <<invocation, recorded, inflight, sent, answered, era, invocations>>

\* the process restarts: the gateway remembers nothing, nobody is answered
RestartGateway ==
    /\ era < MaxEra /\ era' = era + 1
    /\ invocation' = [c \in Caller |-> Unasked]
    /\ recorded' = [k \in RequestKeys |-> Nothing]
    /\ inflight' = [k \in RequestKeys |-> {}]
    /\ UNCHANGED <<sent, performed, answered, invocations>>

GatewayNext ==
    \/ \E c \in Caller :
          \/ \E r \in Request : Invoke(c, r)
          \/ RefuseReuse(c) \/ ReplayPrior(c) \/ AwaitInflight(c) \/ Deny(c)
          \/ Execute(c) \/ ExecutorAccepts(c) \/ ExecutorFails(c) \/ Handed(c)
    \/ \E r \in Request : Perform(r)
    \/ RestartGateway

GatewaySpec == GatewayInit /\ [][GatewayNext]_gatewayVars
\* an event loop runs what is ready; an executor answers or the call throws
GatewayFairness ==
    \A c \in Caller : WF_gatewayVars(
        \/ RefuseReuse(c) \/ ReplayPrior(c) \/ AwaitInflight(c) \/ Deny(c)
        \/ Execute(c) \/ ExecutorAccepts(c) \/ ExecutorFails(c) \/ Handed(c))

-----------------------------------------------------------------------------
(* What an answer of the gateway is worth.                                 *)

Granting == {"executed", "replayed"}

\* Whoever is told that something was executed holds a receipt of its own
\* request, and that request, permitted by the policy of its tool, is the one
\* that took effect (executeOnce, replay), whatever else used its key, at the
\* same time or before a restart.
AnswersBacked ==
    \A a \in answered : a.record.outcome \in Granting =>
        /\ a.record.receipt = a.request /\ performed[a.request.key] = a.request
        /\ IsValid(a.request) /\ IsPermitted(a.request)

\* An outcome is final: two answers to the same request in one process agree
\* on the effect, so nobody hears of an effect after being told that it is
\* unknown (invoke's memory of the key).
OneVerdict ==
    \A a, b \in answered :
        a.request = b.request /\ a.era = b.era => a.record.receipt = b.record.receipt

\* Concurrent invocations of a key are serialised: one executes, the others
\* wait for it (inflight).
ExecutedByOne ==
    \A c, d \in Caller :
        (/\ invocation[c].at = "executing" /\ invocation[d].at = "executing"
         /\ invocation[c].request.key = invocation[d].request.key) => c = d

\* Every invocation is answered, those that wait for another's execution
\* included, unless the process restarts.
InvocationsEnd == \A c \in Caller : invocation[c] # Unasked ~> invocation[c] = Unasked
=============================================================================
