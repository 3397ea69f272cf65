--------------------------- MODULE ShadowSession ---------------------------
(***************************************************************************)
(* One session of the shadow schema (support_vnext_shadow): the jobs that  *)
(* warn a silent citizen and close the session, and the requests a citizen *)
(* confirms.  A call is one transaction, in as many steps as it waits for  *)
(* row locks; what it writes is seen at its commit.  Two transactions that *)
(* wait for one another are told apart by PostgreSQL, which aborts one.    *)
(* Times are facts: a job is due or not, a confirmation expired or not.    *)
(***************************************************************************)
EXTENDS Integers, FiniteSets

CONSTANTS
    Callers,         \* concurrent transactions
    MaxGeneration,   \* bound on the citizen's messages the session hears of
    MaxProposals,    \* bound on the confirmations proposed
    Yeses          \* inbound messages classified as affirmative

ASSUME SessionAssumption == MaxGeneration \in Nat /\ MaxProposals \in Nat

Proposals == 1..MaxProposals
Jobs == (1..MaxGeneration) \X {"WARNING", "CLOSE"}

VARIABLES
    session,     \* status, generation, version and whether a person is active
    jobs,        \* inactivity_jobs: job -> status
    due,         \* jobs whose due_at has passed
    outbox,      \* generations whose warning is in inactivity_outbox
    decided,     \* state_version the last decision plan expects
    proposals,   \* pending_confirmations: status, version, whether expired
    classified,  \* affirmative classifications: <<answer, confirmation>>
    authorized,  \* confirmation_authorizations: <<answer, confirmation>>
    spent,       \* the classifications and authorizations consumed
    requests,    \* service_requests: <<answer, confirmation>>
    tx           \* caller -> where its transaction is and the rows it holds
sessionVars == <<session, jobs, due, outbox, decided, proposals, classified, authorized,
                 spent, requests, tx>>
inactivityVars == <<session, jobs, due, outbox>>
confirmationVars == <<decided, proposals, classified, authorized, spent, requests>>

NoTx == [at |-> "idle", jobs |-> {}, about |-> <<0, 0>>, fresh |-> FALSE]
SessionInit ==
    /\ session = [status |-> "ACTIVE", generation |-> 0, version |-> 0, human |-> FALSE]
    /\ jobs = [j \in Jobs |-> "none"] /\ due = {} /\ outbox = {}
    /\ decided = 0
    /\ proposals = [n \in Proposals |-> [status |-> "none", version |-> 0, expired |-> FALSE]]
    /\ classified = {} /\ authorized = {} /\ spent = {} /\ requests = {}
    /\ tx = [c \in Callers |-> NoTx]

-----------------------------------------------------------------------------
(* Row locks.                                                              *)

HoldsSessionToSchedule(c) == tx[c].at = "scheduling"
HoldsSession(c) == tx[c].at \in {"scheduling", "running"}
HoldsJob(c, j) == tx[c].at \in {"claimed", "running", "cancelled"} /\ j \in tx[c].jobs
SessionIsFree(c) == \A d \in Callers \ {c} : ~HoldsSession(d)
AreFree(c, some) == \A d \in Callers \ {c}, j \in some : ~HoldsJob(d, j)
Scheduled == {j \in Jobs : jobs[j] = "SCHEDULED"}

IsAt(c, place) == tx[c].at = place
Waits(c, record) == tx' = [tx EXCEPT ![c] = record]
Ends(c) == Waits(c, NoTx)
\* a request in progress, or a person, puts inactivity off
IsSuppressed == session.human \/ requests # {}

-----------------------------------------------------------------------------
(* schedule_inactivity_transaction_v2: the session, then its jobs.         *)

BeginSchedule(c) ==
    /\ IsAt(c, "idle") /\ SessionIsFree(c) /\ session.generation < MaxGeneration
    /\ Waits(c, [NoTx EXCEPT !.at = "scheduling"])
    /\ UNCHANGED <<inactivityVars, confirmationVars>>
Schedule(c) ==
    LET g == session.generation + 1 IN
    /\ IsAt(c, "scheduling") /\ session.status # "CLOSED" /\ ~IsSuppressed
    /\ AreFree(c, Scheduled)
    /\ jobs' = [j \in Jobs |-> CASE j = <<g, "WARNING">> -> "SCHEDULED"
                                 [] j \in Scheduled -> "CANCELLED"
                                 [] OTHER -> jobs[j]]
    /\ session' = [session EXCEPT !.status = "WARNING_PENDING", !.generation = g,
                                  !.version = @ + 1]
    /\ Ends(c) /\ UNCHANGED <<due, outbox, confirmationVars>>
SkipSchedule(c) ==
    /\ IsAt(c, "scheduling") /\ (session.status = "CLOSED" \/ IsSuppressed)
    /\ Ends(c) /\ UNCHANGED <<inactivityVars, confirmationVars>>

\* cancel_inactivity_transaction_v2: its jobs, as the statement saw them, then
\* the session; a closed session is not matched and not waited for
BeginCancel(c) ==
    /\ IsAt(c, "idle") /\ session.generation < MaxGeneration
    /\ Waits(c, [NoTx EXCEPT !.at = "cancelling", !.jobs = Scheduled])
    /\ UNCHANGED <<inactivityVars, confirmationVars>>
CancelJobs(c) ==
    /\ IsAt(c, "cancelling") /\ AreFree(c, tx[c].jobs)
    /\ Waits(c, [tx[c] EXCEPT !.at = "cancelled", !.jobs = @ \cap Scheduled])
    /\ UNCHANGED <<inactivityVars, confirmationVars>>
Cancel(c) ==
    /\ IsAt(c, "cancelled") /\ (SessionIsFree(c) \/ session.status = "CLOSED")
    /\ jobs' = [j \in Jobs |-> IF j \in tx[c].jobs THEN "CANCELLED" ELSE jobs[j]]
    /\ session' = IF session.status = "CLOSED" THEN session
                  ELSE [session EXCEPT !.status = "ACTIVE", !.generation = @ + 1,
                                       !.version = @ + 1]
    /\ Ends(c) /\ UNCHANGED <<due, outbox, confirmationVars>>

-----------------------------------------------------------------------------
(* run_due_inactivity_jobs_v2: jobs nobody holds, then the session.        *)

ClaimJobs(c) ==
    /\ IsAt(c, "idle")
    /\ \E some \in SUBSET {j \in Scheduled \cap due : AreFree(c, {j})} :
          some # {} /\ Waits(c, [NoTx EXCEPT !.at = "claimed", !.jobs = some])
    /\ UNCHANGED <<inactivityVars, confirmationVars>>
\* what it goes by is the session it read, locked to the end
Look(c) ==
    /\ IsAt(c, "claimed") /\ SessionIsFree(c)
    /\ Waits(c, [tx[c] EXCEPT !.at = "running", !.about = <<session.generation, session.status>>])
    /\ UNCHANGED <<inactivityVars, confirmationVars>>

\* the job of the session's generation whose turn it is, if it is in the batch;
\* a generation has its two jobs one after the other
IsTimely(j, seen) ==
    /\ j[1] = seen[1]
    /\ <<j[2], seen[2]>> \in {<<"WARNING", "WARNING_PENDING">>, <<"CLOSE", "WARNING_SENT">>}
RunJobs(c) ==
    LET batch == tx[c].jobs
        \* no policy, or two that fit, skips a job too
        ran == {j \in batch : IsTimely(j, tx[c].about) /\ ~IsSuppressed} IN
    /\ IsAt(c, "running")
    /\ \E done \in {ran, {}} :
          LET warnings == {j[1] : j \in {k \in done : k[2] = "WARNING"}} IN
          /\ jobs' = [j \in Jobs |-> CASE j \in done -> "COMPLETED"
                                       [] j \in batch \ done -> "SKIPPED"
                                       [] j[2] = "CLOSE" /\ j[1] \in warnings -> "SCHEDULED"
                                       [] OTHER -> jobs[j]]
          /\ outbox' = outbox \cup warnings
          /\ session' = IF done = {} THEN session
                        ELSE [session EXCEPT !.version = @ + 1,
                                 !.status = IF warnings = {} THEN "CLOSED" ELSE "WARNING_SENT"]
    /\ Ends(c) /\ UNCHANGED <<due, confirmationVars>>

-----------------------------------------------------------------------------
(* Requests: proposed, answered, authorized and confirmed.                 *)

\* a decision plan is made for the state the session is in
Decide ==
    /\ decided # session.version /\ decided' = session.version
    /\ UNCHANGED <<inactivityVars, proposals, classified, authorized, spent, requests, tx>>
IsPending(n) == proposals[n].status = "PENDING"
\* propose_request_transaction; one confirmation of a topic is pending at a time
Propose(c, n) ==
    /\ IsAt(c, "idle") /\ SessionIsFree(c)
    /\ session.status # "CLOSED" /\ decided = session.version
    /\ proposals[n].status = "none" /\ \A m \in Proposals : ~IsPending(m)
    /\ proposals' = [proposals EXCEPT ![n] =
                        [status |-> "PENDING", version |-> session.version, expired |-> FALSE]]
    /\ UNCHANGED <<inactivityVars, decided, classified, authorized, spent, requests, tx>>
\* persist_inbound_classification, under the classifier's authority
Classify(c, a, n) ==
    /\ IsAt(c, "idle") /\ SessionIsFree(c)
    /\ session.status # "CLOSED" /\ proposals[n].status # "none"
    /\ classified' = classified \cup {<<a, n>>}
    /\ UNCHANGED <<inactivityVars, decided, proposals, authorized, spent, requests, tx>>
\* authorize_persisted_confirmation; an inbound message authorizes once
Consents(a, n) == <<a, n>> \in classified \ spent /\ IsPending(n) /\ ~proposals[n].expired
AuthorizeAgain(a, n) ==
    /\ Consents(a, n) /\ authorized' = authorized \cup {<<a, n>>}
    /\ UNCHANGED <<inactivityVars, decided, proposals, classified, spent, requests, tx>>
Authorize(a, n) ==
    /\ Consents(a, n) /\ \A m \in Proposals : <<a, m>> \notin authorized
    /\ authorized' = authorized \cup {<<a, n>>}
    /\ UNCHANGED <<inactivityVars, decided, proposals, classified, spent, requests, tx>>

\* confirm_request_transaction: now() is when it begins; then it waits for the rows
BeginConfirm(c, a, n) ==
    /\ IsAt(c, "idle") /\ <<a, n>> \in authorized
    /\ Waits(c, [NoTx EXCEPT !.at = "confirming", !.about = <<a, n>>,
                             !.fresh = ~proposals[n].expired])
    /\ UNCHANGED <<inactivityVars, confirmationVars>>
IsConfirmable(a, n, fresh) ==
    /\ IsPending(n) /\ fresh /\ <<a, n>> \in (classified \cap authorized) \ spent
    /\ session.status # "CLOSED" /\ session.version = proposals[n].version
Confirm(c) ==
    LET a == tx[c].about[1]
        n == tx[c].about[2] IN
    /\ IsAt(c, "confirming") /\ SessionIsFree(c) /\ IsConfirmable(a, n, tx[c].fresh)
    /\ proposals' = [proposals EXCEPT ![n].status = "CONSUMED"]
    /\ spent' = spent \cup {<<a, n>>} /\ requests' = requests \cup {<<a, n>>}
    /\ Ends(c) /\ UNCHANGED <<inactivityVars, decided, classified, authorized>>
\* ALREADY_CONFIRMED (found before the session is locked) or REJECTED
RefuseConfirm(c) ==
    LET a == tx[c].about[1]
        n == tx[c].about[2] IN
    /\ IsAt(c, "confirming") /\ ~IsConfirmable(a, n, tx[c].fresh)
    /\ SessionIsFree(c) \/ proposals[n].status = "CONSUMED"
    /\ Ends(c) /\ UNCHANGED <<inactivityVars, confirmationVars>>

Decline(n) ==
    /\ IsPending(n) /\ ~proposals[n].expired
    /\ proposals' = [proposals EXCEPT ![n].status = "DECLINED"]
    /\ UNCHANGED <<inactivityVars, decided, classified, authorized, spent, requests, tx>>
\* get_request_confirmation_status reads without a lock and then writes
PeekStatus(c, n) ==
    /\ IsAt(c, "idle") /\ IsPending(n) /\ proposals[n].expired
    /\ Waits(c, [NoTx EXCEPT !.at = "peeked", !.about = <<0, n>>])
    /\ UNCHANGED <<inactivityVars, confirmationVars>>
MarkExpired(c) ==
    /\ IsAt(c, "peeked") /\ proposals' = [proposals EXCEPT ![tx[c].about[2]].status = "EXPIRED"]
    /\ Ends(c)
    /\ UNCHANGED <<inactivityVars, decided, classified, authorized, spent, requests>>

-----------------------------------------------------------------------------
(* Time, people and PostgreSQL.                                            *)

BecomeDue ==
    /\ \E j \in Scheduled \ due : due' = due \cup {j}
    /\ UNCHANGED <<session, jobs, outbox, confirmationVars, tx>>
LetExpire(n) ==
    /\ IsPending(n) /\ ~proposals[n].expired
    /\ proposals' = [proposals EXCEPT ![n].expired = TRUE]
    /\ UNCHANGED <<inactivityVars, decided, classified, authorized, spent, requests, tx>>
\* written by what is outside the schema's functions, under the row's lock
PersonActs ==
    /\ \A c \in Callers : ~HoldsSession(c)
    /\ session' = [session EXCEPT !.human = ~@]
    /\ UNCHANGED <<jobs, due, outbox, confirmationVars, tx>>

WaitsFor(c, d) ==
    \/ tx[c].at \in {"claimed", "cancelled"} /\ HoldsSession(d)
    \/ IsAt(c, "scheduling") /\ \E j \in Scheduled : HoldsJob(d, j)
    \/ IsAt(c, "cancelling") /\ \E j \in tx[c].jobs : HoldsJob(d, j)
\* a deadlock, found after a second, ends either transaction and all it wrote
Abort(c) ==
    /\ \E d \in Callers \ {c} : WaitsFor(c, d) /\ WaitsFor(d, c)
    /\ Ends(c) /\ UNCHANGED <<inactivityVars, confirmationVars>>

Inactivity(c) ==
    \/ BeginSchedule(c) \/ Schedule(c) \/ SkipSchedule(c)
    \/ BeginCancel(c) \/ CancelJobs(c) \/ Cancel(c)
    \/ ClaimJobs(c) \/ Look(c) \/ RunJobs(c) \/ Abort(c)
Confirmation(c) ==
    \/ \E n \in Proposals :
          \/ Propose(c, n) \/ PeekStatus(c, n)
          \/ \E a \in Yeses : Classify(c, a, n) \/ BeginConfirm(c, a, n)
    \/ Confirm(c) \/ RefuseConfirm(c) \/ MarkExpired(c)
Unheld == \E n \in Proposals : \/ Decline(n) \/ LetExpire(n)
                               \/ \E a \in Yeses : Authorize(a, n)
Silence == (\E c \in Callers : Inactivity(c)) \/ BecomeDue \/ PersonActs
Consent == (\E c \in Callers : Confirmation(c)) \/ Unheld \/ Decide
SessionNext == Silence \/ Consent
SessionSpec == SessionInit /\ [][SessionNext]_sessionVars

-----------------------------------------------------------------------------
(* What the schema promises.                                               *)

\* A session closes for silence only when the warning of its own generation went to
\* the outbox and that generation's closing job fell due with nothing heard of the
\* citizen in between, however workers, new messages and cancellations overlap; and
\* a closed session is never opened, warned or asked again
\* (schedule_, cancel_ and run_due_inactivity_jobs_v2).
ClosedOnlyAfterSilence ==
    [][/\ (session.status # "CLOSED" /\ session'.status = "CLOSED") =>
             /\ session.status = "WARNING_SENT" /\ session.generation \in outbox
             /\ <<session.generation, "CLOSE">> \in due
             /\ jobs'[<<session.generation, "CLOSE">>] = "COMPLETED"
       /\ session.status = "CLOSED" =>
             /\ session'.status = "CLOSED" /\ outbox' = outbox
             /\ requests' = requests]_sessionVars

\* One answer of the citizen makes at most one request and one confirmation at most
\* one, also when a status query marks as expired a confirmation that was consumed
\* meanwhile; and each request spent the consent that was given to it and to no
\* other (authorize_persisted_confirmation, confirm_request_transaction).
OneRequestPerAnswer ==
    /\ \A r, q \in requests : (r[1] = q[1] \/ r[2] = q[2]) => r = q
    /\ requests = spent /\ spent \subseteq classified \cap authorized
    /\ \A r \in requests : proposals[r[2]].status \in {"CONSUMED", "EXPIRED"}
=============================================================================
