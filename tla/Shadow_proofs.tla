--------------------------- MODULE Shadow_proofs ----------------------------
(***************************************************************************)
(* Theorems of the components beside the official route that keep rows of their*)
(* own: the sessions of the shadow schema, its stored evidence, and the    *)
(* documents of a conversation.                                            *)
(***************************************************************************)
EXTENDS ShadowSession, ShadowStore, Attachments, TLAPS

-----------------------------------------------------------------------------
(***************************************************************************)
(* What the row locks of the shadow schema are worth, for any number of    *)
(* concurrent transactions, generations, proposals and answers.            *)
(***************************************************************************)

SessionRows == [status : {"ACTIVE", "WARNING_PENDING", "WARNING_SENT", "CLOSED"},
                generation : Nat, version : Nat, human : BOOLEAN]

LEMMA SessionRowInit == SessionInit => session \in SessionRows
  BY DEF SessionInit, SessionRows

\* A row that was written is the old one with another status, generation and version.
LEMMA RowWritten ==
    ASSUME session \in SessionRows, NEW g \in Nat, NEW v \in Nat,
           NEW word \in {"ACTIVE", "WARNING_PENDING", "WARNING_SENT", "CLOSED"}
    PROVE  [session EXCEPT !.status = word, !.generation = g, !.version = v] \in SessionRows
  BY DEF SessionRows

LEMMA SessionRowNext ==
    ASSUME session \in SessionRows, [SessionNext]_sessionVars
    PROVE  session' \in SessionRows
  <1>1. ASSUME NEW c \in Callers, Inactivity(c) PROVE session' \in SessionRows
    <2>0. /\ session.generation + 1 \in Nat /\ session.generation \in Nat
          /\ session.version + 1 \in Nat
      BY DEF SessionRows
    <2>1. CASE Schedule(c)
      <3>1. session' = [session EXCEPT !.status = "WARNING_PENDING",
                                       !.generation = session.generation + 1, !.version = @ + 1]
        BY <2>1 DEF Schedule
      <3> QED
        BY <2>0, <3>1, RowWritten
    <2>2. CASE Cancel(c)
      <3>1. \/ session' = session
            \/ session' = [session EXCEPT !.status = "ACTIVE",
                                          !.generation = session.generation + 1,
                                          !.version = @ + 1]
        BY <2>2 DEF Cancel
      <3> QED
        BY <2>0, <3>1, RowWritten
    <2>3. CASE RunJobs(c)
      <3>1. \/ session' = session
            \/ \E word \in {"CLOSED", "WARNING_SENT"} :
                  session' = [session EXCEPT !.version = @ + 1, !.status = word]
        BY <2>3 DEF RunJobs
      <3>2. ASSUME NEW word \in {"CLOSED", "WARNING_SENT"}, NEW v \in Nat
            PROVE  [session EXCEPT !.version = v, !.status = word] \in SessionRows
        BY DEF SessionRows
      <3> QED
        BY <2>0, <3>1, <3>2
    <2> QED
      BY <1>1, <2>1, <2>2, <2>3
      DEF Inactivity, BeginSchedule, SkipSchedule, BeginCancel, CancelJobs, ClaimJobs, Look,
          Abort, inactivityVars
  <1>2. CASE BecomeDue \/ PersonActs
    BY <1>2 DEF BecomeDue, PersonActs, SessionRows
  <1>3. CASE Consent \/ UNCHANGED sessionVars
    BY <1>3 DEF Consent, Confirmation, Unheld, Decide, Propose, Classify, Authorize, BeginConfirm,
           Confirm, RefuseConfirm, Decline, PeekStatus, MarkExpired, LetExpire, inactivityVars,
           sessionVars
  <1> QED
    BY <1>1, <1>2, <1>3 DEF SessionNext, Silence

(***************************************************************************)
(* Requests                                                                *)
(***************************************************************************)

ProposalRows == [status : {"none", "PENDING", "CONSUMED", "DECLINED", "EXPIRED"},
                 version : Nat, expired : BOOLEAN]

ConsentTypeOK ==
    /\ session \in SessionRows
    /\ proposals \in [Proposals -> ProposalRows]
    /\ authorized \subseteq Yeses \X Proposals

\* What makes one answer worth one request: it is authorized for one proposal.
AnswersOnce == \A r, q \in authorized : r[1] = q[1] => r = q

ConsentInv ==
    /\ ConsentTypeOK
    /\ AnswersOnce
    /\ OneRequestPerAnswer

LEMMA ConsentInit == SessionInit => ConsentInv
  BY SessionRowInit
  DEF SessionInit, ConsentInv, ConsentTypeOK, ProposalRows, AnswersOnce, OneRequestPerAnswer

\* Steps that leave what was asked, answered and requested alone.
LEMMA ConsentUntouched ==
    ASSUME ConsentInv, session' \in SessionRows,
           UNCHANGED <<proposals, classified, authorized, spent, requests>>
    PROVE  ConsentInv'
  BY DEF ConsentInv, ConsentTypeOK, AnswersOnce, OneRequestPerAnswer

\* A proposal moves on; one that was consumed is at most marked expired.
LEMMA ProposalMoves ==
    ASSUME ConsentInv, session' \in SessionRows,
           UNCHANGED <<classified, authorized, spent, requests>>,
           proposals' \in [Proposals -> ProposalRows],
           \A n \in Proposals : proposals[n].status \in {"CONSUMED", "EXPIRED"} =>
                                    proposals'[n].status \in {"CONSUMED", "EXPIRED"}
    PROVE  ConsentInv'
  <1>1. \A r \in requests : r[2] \in Proposals
    BY DEF ConsentInv, ConsentTypeOK, OneRequestPerAnswer
  <1> QED
    BY <1>1 DEF ConsentInv, ConsentTypeOK, AnswersOnce, OneRequestPerAnswer

LEMMA ProposalSteps ==
    ASSUME ConsentInv, session' \in SessionRows, NEW n \in Proposals,
           \/ \E c \in Callers : Propose(c, n)
           \/ Decline(n) \/ LetExpire(n)
    PROVE  ConsentInv'
  <1>1. proposals \in [Proposals -> ProposalRows] /\ session.version \in Nat
    BY DEF ConsentInv, ConsentTypeOK, SessionRows
  <1>2. CASE \E c \in Callers : Propose(c, n)
    <2> DEFINE offered == [status |-> "PENDING", version |-> session.version, expired |-> FALSE]
    <2>1. offered \in ProposalRows
      BY <1>1 DEF ProposalRows
    <2>2. proposals' = [proposals EXCEPT ![n] = offered] /\ proposals[n].status = "none"
      BY <1>2 DEF Propose
    <2> HIDE DEF offered
    <2> QED
      BY <1>1, <1>2, <2>1, <2>2, ProposalMoves DEF Propose
  <1>3. CASE Decline(n)
    <2>1. [proposals[n] EXCEPT !.status = "DECLINED"] \in ProposalRows
      BY <1>1 DEF ProposalRows
    <2>2. proposals' \in [Proposals -> ProposalRows]
      BY <1>1, <1>3, <2>1 DEF Decline
    <2> QED
      BY <1>1, <1>3, <2>2, ProposalMoves DEF Decline, IsPending
  <1>4. CASE LetExpire(n)
    <2>1. [proposals[n] EXCEPT !.expired = TRUE] \in ProposalRows
      BY <1>1 DEF ProposalRows
    <2>2. proposals' \in [Proposals -> ProposalRows]
      BY <1>1, <1>4, <2>1 DEF LetExpire
    <2> QED
      BY <1>1, <1>4, <2>2, ProposalMoves DEF LetExpire, IsPending
  <1> QED
    BY <1>2, <1>3, <1>4

\* A status query may mark as expired what was consumed since it looked.
LEMMA MarkExpiredStep ==
    ASSUME ConsentInv, session' \in SessionRows, NEW c \in Callers, MarkExpired(c)
    PROVE  ConsentInv'
  <1> DEFINE n == tx[c].about[2]
  <1>1. proposals \in [Proposals -> ProposalRows]
    BY DEF ConsentInv, ConsentTypeOK
  <1>2. proposals' = [proposals EXCEPT ![n].status = "EXPIRED"]
    BY DEF MarkExpired
  <1>3. \A m \in Proposals : [proposals[m] EXCEPT !.status = "EXPIRED"] \in ProposalRows
    BY <1>1 DEF ProposalRows
  <1>4. \A m \in Proposals :
           proposals'[m] = IF m = n THEN [proposals[m] EXCEPT !.status = "EXPIRED"]
                           ELSE proposals[m]
    BY <1>1, <1>2
  <1>5. proposals' \in [Proposals -> ProposalRows]
    BY <1>1, <1>2, <1>3, <1>4
  <1>6. \A m \in Proposals : proposals'[m].status \in {proposals[m].status, "EXPIRED"}
    BY <1>1, <1>4 DEF ProposalRows
  <1> QED
    BY <1>5, <1>6, ProposalMoves DEF MarkExpired

\* An inbound message is authorized for one proposal only.
LEMMA AuthorizeStep ==
    ASSUME ConsentInv, session' \in SessionRows, NEW a \in Yeses, NEW n \in Proposals,
           Authorize(a, n)
    PROVE  ConsentInv'
  <1>1. /\ authorized' = authorized \cup {<<a, n>>}
        /\ UNCHANGED <<proposals, classified, spent, requests>>
    BY DEF Authorize
  <1>2. \A r \in authorized : r[1] # a
    <2> SUFFICES ASSUME NEW r \in authorized, r[1] = a PROVE FALSE
      OBVIOUS
    <2>1. PICK m \in Proposals : r = <<a, m>>
      BY DEF ConsentInv, ConsentTypeOK
    <2> QED
      BY <2>1 DEF Authorize
  <1>3. AnswersOnce'
    BY <1>1, <1>2 DEF ConsentInv, AnswersOnce
  <1>4. ConsentTypeOK' /\ OneRequestPerAnswer'
    BY <1>1 DEF ConsentInv, ConsentTypeOK, OneRequestPerAnswer
  <1> QED
    BY <1>3, <1>4 DEF ConsentInv

\* Of two requests one would have found the proposal consumed, or be the other.
LEMMA ConfirmStep ==
    ASSUME ConsentInv, session' \in SessionRows, NEW c \in Callers, Confirm(c)
    PROVE  ConsentInv'
  <1> DEFINE a == tx[c].about[1]
             n == tx[c].about[2]
  <1>1. /\ IsConfirmable(a, n, tx[c].fresh)
        /\ proposals' = [proposals EXCEPT ![n].status = "CONSUMED"]
        /\ spent' = spent \cup {<<a, n>>} /\ requests' = requests \cup {<<a, n>>}
        /\ UNCHANGED <<classified, authorized>>
    BY DEF Confirm
  <1> HIDE DEF a, n
  <1>2. <<a, n>> \in classified \cap authorized /\ proposals[n].status = "PENDING"
    BY <1>1 DEF IsConfirmable, IsPending
  <1>3. a \in Yeses /\ n \in Proposals /\ proposals \in [Proposals -> ProposalRows]
    BY <1>2 DEF ConsentInv, ConsentTypeOK
  <1>4. /\ proposals' \in [Proposals -> ProposalRows] /\ proposals'[n].status = "CONSUMED"
        /\ \A m \in Proposals \ {n} : proposals'[m] = proposals[m]
    <2>1. [proposals[n] EXCEPT !.status = "CONSUMED"] \in ProposalRows
      BY <1>3 DEF ProposalRows
    <2> QED
      BY <1>1, <1>3, <2>1 DEF ProposalRows
  <1>5. \A r \in requests : r \in authorized /\ r[2] \in Proposals /\ r[2] # n
    BY <1>2 DEF ConsentInv, ConsentTypeOK, OneRequestPerAnswer
  <1>6. \A r \in requests : r[1] # a
    <2> SUFFICES ASSUME NEW r \in requests, r[1] = a PROVE FALSE
      OBVIOUS
    <2>1. r = <<a, n>>
      BY <1>2, <1>5 DEF ConsentInv, AnswersOnce
    <2> QED
      BY <1>5, <2>1
  <1>7. OneRequestPerAnswer'
    <2>1. \A r, q \in requests' : (r[1] = q[1] \/ r[2] = q[2]) => r = q
      BY <1>1, <1>5, <1>6 DEF ConsentInv, OneRequestPerAnswer
    <2>2. requests' = spent' /\ spent' \subseteq (classified \cap authorized)'
      BY <1>1, <1>2 DEF ConsentInv, OneRequestPerAnswer
    <2>3. \A r \in requests' : proposals'[r[2]].status \in {"CONSUMED", "EXPIRED"}
      BY <1>1, <1>4, <1>5 DEF ConsentInv, OneRequestPerAnswer
    <2> QED
      BY <2>1, <2>2, <2>3 DEF OneRequestPerAnswer
  <1> QED
    BY <1>1, <1>4, <1>7 DEF ConsentInv, ConsentTypeOK, AnswersOnce

LEMMA ConsentNext ==
    ASSUME ConsentInv, [SessionNext]_sessionVars
    PROVE  ConsentInv'
  <1>1. session' \in SessionRows
    BY SessionRowNext DEF ConsentInv, ConsentTypeOK
  <1>2. ASSUME NEW c \in Callers, NEW n \in Proposals, NEW a \in Yeses, Classify(c, a, n)
        PROVE  ConsentInv'
    <2>1. /\ classified \subseteq classified'
          /\ UNCHANGED <<proposals, authorized, spent, requests>>
      BY <1>2 DEF Classify
    <2> QED
      BY <1>1, <2>1 DEF ConsentInv, ConsentTypeOK, AnswersOnce, OneRequestPerAnswer
  <1>3. CASE UNCHANGED <<proposals, classified, authorized, spent, requests>>
    BY <1>1, <1>3, ConsentUntouched
  <1>4. CASE Silence \/ Decide \/ UNCHANGED sessionVars
    <2>1. UNCHANGED <<proposals, classified, authorized, spent, requests>>
      BY <1>4 DEF Silence, Decide, sessionVars, Inactivity, BeginSchedule, Schedule, SkipSchedule,
             BeginCancel, CancelJobs, Cancel, ClaimJobs, Look, RunJobs, Abort, BecomeDue,
             PersonActs, confirmationVars
    <2> QED
      BY <1>3, <2>1
  <1>5. ASSUME NEW c \in Callers, Confirmation(c) PROVE ConsentInv'
    <2>1. ASSUME NEW n \in Proposals,
                 PeekStatus(c, n) \/ (\E a \in Yeses : BeginConfirm(c, a, n)) \/ RefuseConfirm(c)
          PROVE  ConsentInv'
      BY <1>3, <2>1 DEF PeekStatus, BeginConfirm, RefuseConfirm, confirmationVars
    <2>2. CASE RefuseConfirm(c)
      BY <1>3, <2>2 DEF RefuseConfirm, confirmationVars
    <2> QED
      BY <1>1, <1>2, <1>5, <2>1, <2>2, ProposalSteps, ConfirmStep, MarkExpiredStep DEF Confirmation
  <1>6. CASE Unheld
    BY <1>1, <1>6, ProposalSteps, AuthorizeStep DEF Unheld
  <1> QED
    BY <1>4, <1>5, <1>6 DEF SessionNext, Consent

\* One answer of the citizen makes at most one request, however classifications,
\* authorizations, confirmations and status queries overlap.
THEOREM AnswersMakeOneRequest == SessionSpec => []OneRequestPerAnswer
  <1>1. ConsentInv /\ [SessionNext]_sessionVars => ConsentInv'
    BY ConsentNext
  <1>2. ConsentInv => OneRequestPerAnswer
    BY DEF ConsentInv
  <1> QED
    BY ConsentInit, <1>1, <1>2, PTL DEF SessionSpec

(***************************************************************************)
(* Inactivity                                                              *)
(***************************************************************************)

Transactions ==
    [at : {"idle", "scheduling", "cancelling", "cancelled", "claimed", "running", "confirming",
           "peeked"},
     jobs : SUBSET Jobs, fresh : BOOLEAN,
     about : (Yeses \cup Nat) \X (Nat \cup {"ACTIVE", "WARNING_PENDING", "WARNING_SENT", "CLOSED"})]

\* The lock of the session's row.
OneHolder == \A c, d \in Callers : HoldsSession(c) /\ HoldsSession(d) => c = d

\* What a worker goes by is the session as it is until it ends.
Running ==
    \A c \in Callers : IsAt(c, "running") => tx[c].about = <<session.generation, session.status>>

ClaimsAreDue == \A c \in Callers : tx[c].at \in {"claimed", "running"} => tx[c].jobs \subseteq due

Warned == session.status = "WARNING_SENT" => session.generation \in outbox

SilenceInv ==
    /\ session \in SessionRows
    /\ tx \in [Callers -> Transactions]
    /\ OneHolder
    /\ Running
    /\ ClaimsAreDue
    /\ Warned

LEMMA NoTxType == NoTx \in Transactions /\ NoTx.at = "idle"
  BY DEF NoTx, Transactions

LEMMA SilenceInit == SessionInit => SilenceInv
  BY SessionRowInit, NoTxType
  DEF SessionInit, SilenceInv, OneHolder, HoldsSession, Running, IsAt, ClaimsAreDue, Warned

\* A transaction goes on: it holds the session only if nobody else does.
LEMMA TxMoves ==
    ASSUME SilenceInv, NEW c \in Callers, NEW rec \in Transactions, Waits(c, rec),
           session' = session, outbox' = outbox, due' = due,
           rec.at \in {"scheduling", "running"} => SessionIsFree(c),
           rec.at = "running" => rec.about = <<session.generation, session.status>>,
           rec.at \in {"claimed", "running"} => rec.jobs \subseteq due
    PROVE  SilenceInv'
  <1>1. /\ tx'[c] = rec /\ tx' \in [Callers -> Transactions]
        /\ \A d \in Callers \ {c} : tx'[d] = tx[d]
    BY DEF SilenceInv, Waits
  <1>2. OneHolder'
    BY <1>1 DEF SilenceInv, OneHolder, HoldsSession, SessionIsFree
  <1>3. Running' /\ ClaimsAreDue'
    BY <1>1 DEF SilenceInv, Running, IsAt, ClaimsAreDue
  <1> QED
    BY <1>1, <1>2, <1>3 DEF SilenceInv, Warned

\* A transaction ends: what it wrote of the session nobody else was looking at.
LEMMA TxEnds ==
    ASSUME SilenceInv, NEW c \in Callers, Ends(c), session' \in SessionRows, due' = due,
           outbox \subseteq outbox',
           \/ session' = session
           \/ /\ \A d \in Callers \ {c} : ~ HoldsSession(d)
              /\ session'.status = "WARNING_SENT" => session'.generation \in outbox'
    PROVE  SilenceInv'
  <1>1. /\ tx'[c].at = "idle" /\ tx' \in [Callers -> Transactions]
        /\ \A d \in Callers \ {c} : tx'[d] = tx[d]
    BY NoTxType DEF SilenceInv, Ends, Waits
  <1>2. OneHolder'
    BY <1>1 DEF SilenceInv, OneHolder, HoldsSession
  <1>3. Running' /\ ClaimsAreDue' /\ Warned'
    BY <1>1 DEF SilenceInv, Running, IsAt, ClaimsAreDue, Warned, HoldsSession
  <1> QED
    BY <1>1, <1>2, <1>3 DEF SilenceInv

\* A worker warns a session that waits for its warning, closes one that was
\* warned, or leaves it alone.
LEMMA RunOutcome ==
    ASSUME SilenceInv, NEW c \in Callers, RunJobs(c)
    PROVE  \/ session' = session /\ outbox' = outbox
           \/ /\ session.status = "WARNING_PENDING" /\ session'.status = "WARNING_SENT"
              /\ session'.generation = session.generation
              /\ session.generation \in outbox' /\ outbox \subseteq outbox'
           \/ /\ session.status = "WARNING_SENT" /\ session'.status = "CLOSED"
              /\ session.generation \in outbox /\ outbox' = outbox
              /\ <<session.generation, "CLOSE">> \in due
              /\ jobs'[<<session.generation, "CLOSE">>] = "COMPLETED"
  <1> DEFINE seen == <<session.generation, session.status>>
             ran == {j \in tx[c].jobs : IsTimely(j, tx[c].about) /\ ~IsSuppressed}
             Warnings(done) == {j[1] : j \in {k \in done : k[2] = "WARNING"}}
  <1>1. /\ tx[c].about = seen /\ tx[c].jobs \subseteq Jobs /\ tx[c].jobs \subseteq due
        /\ session \in SessionRows
    BY DEF RunJobs, SilenceInv, Running, ClaimsAreDue, IsAt, Transactions
  <1>2. PICK done \in {ran, {}} :
          /\ jobs' = [j \in Jobs |-> CASE j \in done -> "COMPLETED"
                                       [] j \in tx[c].jobs \ done -> "SKIPPED"
                                       [] j[2] = "CLOSE" /\ j[1] \in Warnings(done) -> "SCHEDULED"
                                       [] OTHER -> jobs[j]]
          /\ outbox' = outbox \cup Warnings(done)
          /\ session' = IF done = {} THEN session
                        ELSE [session EXCEPT !.version = @ + 1,
                                 !.status = IF Warnings(done) = {} THEN "CLOSED" ELSE "WARNING_SENT"]
    BY DEF RunJobs
  <1>3. CASE done = {}
    <2>1. Warnings(done) = {}
      BY <1>3
    <2> QED
      BY <1>2, <1>3, <2>1
  <1>4. CASE done # {}
    <2>1. done = ran
      BY <1>2, <1>4
    <2>2. PICK j \in ran : TRUE
      BY <1>4, <2>1
    <2>3. \A k \in ran : /\ k \in Jobs /\ k \in due /\ k[1] = session.generation
                         /\ \/ k[2] = "WARNING" /\ session.status = "WARNING_PENDING"
                            \/ k[2] = "CLOSE" /\ session.status = "WARNING_SENT"
      BY <1>1 DEF IsTimely
    <2>4. session' = [session EXCEPT !.version = @ + 1,
                          !.status = IF Warnings(done) = {} THEN "CLOSED" ELSE "WARNING_SENT"]
      BY <1>2, <1>4
    <2>5. /\ session'.generation = session.generation
          /\ session'.status = IF Warnings(done) = {} THEN "CLOSED" ELSE "WARNING_SENT"
      BY <1>1, <2>4 DEF SessionRows
    <2>6. CASE j[2] = "WARNING" /\ session.status = "WARNING_PENDING"
      <3>1. session.generation \in Warnings(done)
        BY <2>1, <2>3, <2>6
      <3> QED
        BY <1>2, <2>5, <2>6, <3>1
    <2>7. CASE j[2] = "CLOSE" /\ session.status = "WARNING_SENT"
      <3>1. Warnings(done) = {}
        BY <2>1, <2>3, <2>7
      <3>2. j = <<session.generation, "CLOSE">>
        BY <2>3, <2>7 DEF Jobs
      <3>3. jobs'[j] = "COMPLETED"
        BY <1>2, <2>1, <2>2, <2>3
      <3>4. session.generation \in outbox
        BY <2>7 DEF SilenceInv, Warned
      <3> QED
        BY <1>2, <2>3, <2>5, <2>7, <3>1, <3>2, <3>3, <3>4
    <2> QED
      BY <2>3, <2>6, <2>7
  <1> QED
    BY <1>3, <1>4

LEMMA RunJobsStep ==
    ASSUME SilenceInv, session' \in SessionRows, NEW c \in Callers, RunJobs(c)
    PROVE  SilenceInv'
  <1>1. \A d \in Callers \ {c} : ~ HoldsSession(d)
    BY DEF RunJobs, SilenceInv, OneHolder, HoldsSession, IsAt
  <1>2. Ends(c) /\ due' = due
    BY DEF RunJobs
  <1> QED
    BY <1>1, <1>2, RunOutcome, TxEnds

LEMMA ScheduleSteps ==
    ASSUME SilenceInv, session' \in SessionRows, NEW c \in Callers,
           \/ BeginSchedule(c) \/ Schedule(c) \/ SkipSchedule(c)
           \/ BeginCancel(c) \/ CancelJobs(c) \/ Cancel(c)
    PROVE  SilenceInv'
  <1>1. tx[c] \in Transactions
    BY DEF SilenceInv
  <1>2. CASE BeginSchedule(c)
    <2> DEFINE rec == [NoTx EXCEPT !.at = "scheduling"]
    <2>1. rec \in Transactions /\ rec.at = "scheduling"
      BY NoTxType DEF Transactions
    <2> HIDE DEF rec
    <2>2. Waits(c, rec) /\ SessionIsFree(c) /\ UNCHANGED <<session, outbox, due>>
      BY <1>2 DEF BeginSchedule, inactivityVars, rec
    <2> QED
      BY <2>1, <2>2, TxMoves
  <1>3. CASE Schedule(c)
    <2>1. \A d \in Callers \ {c} : ~ HoldsSession(d)
      BY <1>3 DEF Schedule, SilenceInv, OneHolder, HoldsSession, IsAt
    <2>2. session'.status = "WARNING_PENDING"
      BY <1>3 DEF Schedule, SilenceInv, SessionRows
    <2> QED
      BY <1>3, <2>1, <2>2, TxEnds DEF Schedule
  <1>4. CASE SkipSchedule(c)
    BY <1>4, TxEnds DEF SkipSchedule, inactivityVars
  <1>5. CASE BeginCancel(c)
    <2> DEFINE rec == [NoTx EXCEPT !.at = "cancelling", !.jobs = Scheduled]
    <2>1. rec \in Transactions /\ rec.at = "cancelling"
      BY NoTxType DEF Transactions, Scheduled
    <2> HIDE DEF rec
    <2>2. Waits(c, rec) /\ UNCHANGED <<session, outbox, due>>
      BY <1>5 DEF BeginCancel, inactivityVars, rec
    <2> QED
      BY <2>1, <2>2, TxMoves
  <1>6. CASE CancelJobs(c)
    <2> DEFINE rec == [tx[c] EXCEPT !.at = "cancelled", !.jobs = @ \cap Scheduled]
    <2>0. tx[c].jobs \cap Scheduled \in SUBSET Jobs
      BY DEF Scheduled
    <2>1. rec \in Transactions /\ rec.at = "cancelled"
      BY <1>1, <2>0 DEF Transactions
    <2> HIDE DEF rec
    <2>2. Waits(c, rec) /\ UNCHANGED <<session, outbox, due>>
      BY <1>6 DEF CancelJobs, inactivityVars, rec
    <2> QED
      BY <2>1, <2>2, TxMoves
  <1>7. CASE Cancel(c)
    <2>1. \/ session' = session
          \/ session'.status = "ACTIVE" /\ SessionIsFree(c)
      BY <1>7 DEF Cancel, SilenceInv, SessionRows
    <2> QED
      BY <1>7, <2>1, TxEnds DEF Cancel, SessionIsFree
  <1> QED
    BY <1>2, <1>3, <1>4, <1>5, <1>6, <1>7

LEMMA WorkerSteps ==
    ASSUME SilenceInv, NEW c \in Callers, ClaimJobs(c) \/ Look(c) \/ Abort(c)
    PROVE  SilenceInv'
  <1>1. tx[c] \in Transactions /\ session \in SessionRows
    BY DEF SilenceInv
  <1>2. CASE ClaimJobs(c)
    <2>1. PICK some \in SUBSET (Scheduled \cap due) :
            Waits(c, [NoTx EXCEPT !.at = "claimed", !.jobs = some])
      BY <1>2 DEF ClaimJobs
    <2> DEFINE rec == [NoTx EXCEPT !.at = "claimed", !.jobs = some]
    <2>2. some \in SUBSET Jobs /\ some \subseteq due
      BY DEF Scheduled
    <2>3. rec \in Transactions /\ rec.at = "claimed" /\ rec.jobs = some
      BY <2>2, NoTxType DEF Transactions
    <2>4. Waits(c, rec)
      BY <2>1
    <2> HIDE DEF rec
    <2> QED
      BY <1>2, <2>2, <2>3, <2>4, TxMoves DEF ClaimJobs, inactivityVars
  <1>3. CASE Look(c)
    <2> DEFINE about == <<session.generation, session.status>>
               rec == [tx[c] EXCEPT !.at = "running", !.about = about]
    <2>1. about \in (Yeses \cup Nat) \X
                    (Nat \cup {"ACTIVE", "WARNING_PENDING", "WARNING_SENT", "CLOSED"})
      BY <1>1 DEF SessionRows
    <2>2. rec \in Transactions /\ rec.at = "running" /\ rec.about = about /\ rec.jobs = tx[c].jobs
      BY <1>1, <2>1 DEF Transactions
    <2>3. tx[c].jobs \subseteq due
      BY <1>3 DEF Look, IsAt, SilenceInv, ClaimsAreDue
    <2>4. Waits(c, rec) /\ SessionIsFree(c) /\ UNCHANGED <<session, outbox, due>>
      BY <1>3 DEF Look, inactivityVars
    <2> HIDE DEF rec
    <2> QED
      BY <2>2, <2>3, <2>4, TxMoves
  <1>4. CASE Abort(c)
    <2>1. Ends(c) /\ UNCHANGED <<session, outbox, due>>
      BY <1>4 DEF Abort, inactivityVars
    <2> QED
      BY <1>1, <2>1, TxEnds
  <1> QED
    BY <1>2, <1>3, <1>4

\* Confirmations read the session, and wait for its row, but do not write it.
LEMMA ConsentSteps ==
    ASSUME SilenceInv, Consent
    PROVE  SilenceInv'
  <1>1. session \in SessionRows
    BY DEF SilenceInv
  <1>2. UNCHANGED <<session, outbox, due>>
    BY DEF Consent, Confirmation, Unheld, Decide, Propose, Classify, Authorize, BeginConfirm,
           Confirm, RefuseConfirm, Decline, PeekStatus, MarkExpired, LetExpire, inactivityVars
  <1>3. CASE tx' = tx
    BY <1>2, <1>3
    DEF SilenceInv, OneHolder, HoldsSession, Running, IsAt, ClaimsAreDue, Warned
  <1>4. ASSUME NEW c \in Callers, Ends(c) PROVE SilenceInv'
    BY <1>1, <1>2, <1>4, TxEnds
  <1>5. ASSUME NEW c \in Callers, NEW n \in Proposals, PeekStatus(c, n) PROVE SilenceInv'
    <2> DEFINE rec == [NoTx EXCEPT !.at = "peeked", !.about = <<0, n>>]
    <2>0. <<0, n>> \in (Yeses \cup Nat) \X Nat
      BY SessionAssumption DEF Proposals
    <2>1. rec \in Transactions /\ rec.at = "peeked"
      BY <2>0, NoTxType DEF Transactions
    <2>2. Waits(c, rec)
      BY <1>5 DEF PeekStatus
    <2> HIDE DEF rec
    <2> QED
      BY <1>2, <2>1, <2>2, TxMoves
  <1>6. ASSUME NEW c \in Callers, NEW n \in Proposals, NEW a \in Yeses, BeginConfirm(c, a, n)
        PROVE  SilenceInv'
    <2>1. PICK fresh \in BOOLEAN :
            Waits(c, [NoTx EXCEPT !.at = "confirming", !.about = <<a, n>>, !.fresh = fresh])
      BY <1>6 DEF BeginConfirm
    <2> DEFINE rec == [NoTx EXCEPT !.at = "confirming", !.about = <<a, n>>, !.fresh = fresh]
    <2>0. <<a, n>> \in (Yeses \cup Nat) \X Nat
      BY SessionAssumption DEF Proposals
    <2>2. rec \in Transactions /\ rec.at = "confirming"
      BY <2>0, NoTxType DEF Transactions
    <2>3. Waits(c, rec)
      BY <2>1
    <2> HIDE DEF rec
    <2> QED
      BY <1>2, <2>2, <2>3, TxMoves
  <1>7. CASE Unheld \/ Decide
    BY <1>3, <1>7 DEF Unheld, Decide, Authorize, Decline, LetExpire
  <1>8. ASSUME NEW c \in Callers, Confirmation(c) PROVE SilenceInv'
    BY <1>3, <1>4, <1>5, <1>6, <1>8
    DEF Confirmation, Propose, Classify, Confirm, RefuseConfirm, MarkExpired
  <1> QED
    BY <1>7, <1>8 DEF Consent

LEMMA SilenceNext ==
    ASSUME SilenceInv, [SessionNext]_sessionVars
    PROVE  SilenceInv'
  <1>1. session' \in SessionRows
    BY SessionRowNext DEF SilenceInv
  <1>2. ASSUME NEW c \in Callers, Inactivity(c) PROVE SilenceInv'
    BY <1>1, <1>2, RunJobsStep, ScheduleSteps, WorkerSteps DEF Inactivity
  <1>3. CASE BecomeDue
    BY <1>3 DEF BecomeDue, SilenceInv, OneHolder, HoldsSession, Running, IsAt, ClaimsAreDue, Warned
  <1>4. CASE PersonActs
    <2>1. session'.generation = session.generation /\ session'.status = session.status
      BY <1>4 DEF PersonActs, SilenceInv, SessionRows
    <2> QED
      BY <1>1, <1>4, <2>1
      DEF PersonActs, SilenceInv, OneHolder, HoldsSession, Running, IsAt, ClaimsAreDue, Warned
  <1>5. CASE UNCHANGED sessionVars
    BY <1>5
    DEF sessionVars, SilenceInv, OneHolder, HoldsSession, Running, IsAt, ClaimsAreDue, Warned
  <1> QED
    BY <1>2, <1>3, <1>4, <1>5, ConsentSteps DEF SessionNext, Silence

LEMMA ClosingStep ==
    ASSUME SilenceInv, [SessionNext]_sessionVars
    PROVE  /\ session.status # "CLOSED" /\ session'.status = "CLOSED" =>
                 /\ session.status = "WARNING_SENT" /\ session.generation \in outbox
                 /\ <<session.generation, "CLOSE">> \in due
                 /\ jobs'[<<session.generation, "CLOSE">>] = "COMPLETED"
           /\ session.status = "CLOSED" =>
                 session'.status = "CLOSED" /\ outbox' = outbox /\ requests' = requests
  <1>1. ASSUME NEW c \in Callers, RunJobs(c)
        PROVE  /\ requests' = requests
               /\ \/ session' = session /\ outbox' = outbox
                  \/ session.status = "WARNING_PENDING" /\ session'.status = "WARNING_SENT"
                  \/ /\ session.status = "WARNING_SENT" /\ session'.status = "CLOSED"
                     /\ session.generation \in outbox /\ outbox' = outbox
                     /\ <<session.generation, "CLOSE">> \in due
                     /\ jobs'[<<session.generation, "CLOSE">>] = "COMPLETED"
    BY <1>1, RunOutcome DEF RunJobs, confirmationVars
  <1>2. ASSUME NEW c \in Callers, Schedule(c) \/ Cancel(c)
        PROVE  /\ session.status = "CLOSED" => session' = session
               /\ session.status # "CLOSED" => session'.status # "CLOSED"
               /\ outbox' = outbox /\ requests' = requests
    BY <1>2 DEF Schedule, Cancel, SilenceInv, SessionRows, confirmationVars
  <1>3. CASE PersonActs
    BY <1>3 DEF PersonActs, SilenceInv, SessionRows, confirmationVars
  <1>4. ASSUME NEW c \in Callers, Confirm(c)
        PROVE  session' = session /\ session.status # "CLOSED"
    BY <1>4 DEF Confirm, IsConfirmable, inactivityVars
  <1>5. ASSUME NEW c \in Callers, Inactivity(c), ~ RunJobs(c), ~ Schedule(c), ~ Cancel(c)
        PROVE  UNCHANGED <<session, outbox, requests>>
    BY <1>5 DEF Inactivity, BeginSchedule, SkipSchedule, BeginCancel, CancelJobs, ClaimJobs, Look,
           Abort, inactivityVars, confirmationVars
  <1>6. ASSUME NEW c \in Callers, Confirmation(c), ~ Confirm(c)
        PROVE  UNCHANGED <<session, outbox, requests>>
    BY <1>6 DEF Confirmation, Propose, Classify, BeginConfirm, RefuseConfirm, PeekStatus,
           MarkExpired, inactivityVars, confirmationVars
  <1>7. CASE Unheld \/ Decide \/ BecomeDue \/ UNCHANGED sessionVars
    BY <1>7 DEF Unheld, Decide, BecomeDue, Authorize, Decline, LetExpire, inactivityVars,
           confirmationVars, sessionVars
  <1>8. CASE UNCHANGED <<session, outbox, requests>>
    BY <1>8
  <1>9. ASSUME NEW c \in Callers, Confirmation(c) PROVE session' = session
    BY <1>4, <1>6, <1>9
  <1>10. ASSUME NEW c \in Callers, Confirmation(c), session.status = "CLOSED"
         PROVE  UNCHANGED <<session, outbox, requests>>
    BY <1>4, <1>6, <1>10
  <1>11. CASE \E c \in Callers : Inactivity(c)
    BY <1>1, <1>2, <1>5, <1>11
  <1>12. CASE \E c \in Callers : Confirmation(c)
    BY <1>9, <1>10, <1>12
  <1> QED
    BY <1>3, <1>7, <1>11, <1>12 DEF SessionNext, Silence, Consent

\* A session closes for silence only after the warning of its own generation and
\* with that generation's closing job due, and then stays as it is.
THEOREM SilenceIsWarned == SessionSpec => ClosedOnlyAfterSilence
  <1>1. SilenceInv /\ [SessionNext]_sessionVars => SilenceInv'
    BY SilenceNext
  <1>2. SilenceInv /\ [SessionNext]_sessionVars =>
          [/\ (session.status # "CLOSED" /\ session'.status = "CLOSED") =>
                 /\ session.status = "WARNING_SENT" /\ session.generation \in outbox
                 /\ <<session.generation, "CLOSE">> \in due
                 /\ jobs'[<<session.generation, "CLOSE">>] = "COMPLETED"
           /\ session.status = "CLOSED" =>
                 /\ session'.status = "CLOSED" /\ outbox' = outbox
                 /\ requests' = requests]_sessionVars
    BY ClosingStep
  <1> QED
    BY SilenceInit, <1>1, <1>2, PTL DEF SessionSpec, ClosedOnlyAfterSilence

-----------------------------------------------------------------------------
(***************************************************************************)
(* What the stored evidence is worth, for any number of runners, episodes, *)
(* crashes and starts.  The argument does not use the event locks: the     *)
(* write looks at the record in the same step, so the locks only keep the  *)
(* look and the write together.                                            *)
(***************************************************************************)

\* An episode of the input is none of the absent ones.
LEMMA EpisodeIsSome ==
    ASSUME NEW r \in Runner, NEW k \in 1..Len(Lines[r])
    PROVE  Lines[r][k] \in Episodes /\ Lines[r][k].event \in EventIds /\ Lines[r][k] # NoEpisode
  <1>1. Lines[r] \in Seq(Episodes)
    BY ShadowAssumption
  <1>2. Lines[r][k] \in Episodes
    BY <1>1
  <1>3. Lines[r][k].event \in EventIds
    BY <1>2 DEF EventIds
  <1> QED
    BY <1>2, <1>3, ShadowAssumption DEF NoEpisode

\* The record of an episode is there, with exactly its content.
Recorded(e) == records[e.event] # Unrecorded /\ records[e.event].episode = e

AtWork == {"evaluating", "evaluated", "locked", "written", "listed"}
ShapesOk ==
    /\ DOMAIN records = EventIds /\ DOMAIN at = Runner
    /\ line \in [Runner -> Nat \ {0}]
\* Every line a runner left behind is stored; the line it works on is of its
\* cohort and, once it was written, stored too.
LinesOk ==
    \A r \in Runner :
        /\ \A k \in 1..(line[r] - 1) : /\ k \in 1..Len(Lines[r]) /\ Recorded(Lines[r][k])
                                       /\ Lines[r][k].cohort = CohortOf[r]
        /\ at[r] \in AtWork =>
              line[r] \in 1..Len(Lines[r]) /\ Here(r).cohort = CohortOf[r]
        /\ at[r] \in {"written", "listed"} => Recorded(Here(r))
ShadowInv == ShapesOk /\ LinesOk

LEMMA ShadowInitInv == ShadowInit => ShadowInv
  BY DEF ShadowInit, ShadowInv, ShapesOk, LinesOk, AtWork

\* A step of r that leaves what is recorded as it is and takes r, on the same
\* line, to a place that is allowed there.
LEMMA StayKeeps ==
    ASSUME ShadowInv, ShapesOk', NEW r \in Runner, NEW where,
           \A e \in EventIds : records[e] # Unrecorded => records'[e] = records[e],
           line' = line, at' = [at EXCEPT ![r] = where],
           where \in AtWork => line[r] \in 1..Len(Lines[r]) /\ Here(r).cohort = CohortOf[r],
           where \in {"written", "listed"} => Recorded(Here(r))'
    PROVE  ShadowInv'
  <1> USE DEF ShadowInv
  <1>1. at'[r] = where /\ \A q \in Runner \ {r} : at'[q] = at[q]
    BY DEF ShapesOk
  <1>2. \A q \in Runner : Here(q)' = Here(q)
    BY DEF Here
  <1>3. ASSUME NEW q \in Runner, NEW k \in 1..Len(Lines[q]), Recorded(Lines[q][k])
        PROVE  Recorded(Lines[q][k])'
    BY <1>3, EpisodeIsSome DEF Recorded
  <1>4. ASSUME NEW q \in Runner
        PROVE  /\ \A k \in 1..(line'[q] - 1) :
                     /\ k \in 1..Len(Lines[q]) /\ Recorded(Lines[q][k])'
                     /\ Lines[q][k].cohort = CohortOf[q]
               /\ at'[q] \in AtWork =>
                     line'[q] \in 1..Len(Lines[q]) /\ Here(q)'.cohort = CohortOf[q]
               /\ at'[q] \in {"written", "listed"} => Recorded(Here(q))'
    <2>1. \A k \in 1..(line'[q] - 1) :
             /\ k \in 1..Len(Lines[q]) /\ Recorded(Lines[q][k])'
             /\ Lines[q][k].cohort = CohortOf[q]
      BY <1>3 DEF LinesOk
    <2>2. CASE q = r
      BY <1>1, <1>2, <2>1, <2>2
    <2>3. CASE q # r
      <3>1. at'[q] \in AtWork =>
               line'[q] \in 1..Len(Lines[q]) /\ Here(q)'.cohort = CohortOf[q]
        BY <1>1, <1>2, <2>3 DEF LinesOk
      <3>2. ASSUME at'[q] \in {"written", "listed"} PROVE Recorded(Here(q))'
        <4>1. Recorded(Here(q)) /\ line[q] \in 1..Len(Lines[q])
          BY <1>1, <2>3, <3>2 DEF LinesOk, AtWork
        <4>2. Here(q).event \in EventIds
          BY <4>1, EpisodeIsSome DEF Here
        <4> QED
          BY <1>2, <4>1, <4>2 DEF Recorded
      <3> QED
        BY <2>1, <3>1, <3>2
    <2> QED
      BY <2>2, <2>3
  <1> QED
    BY <1>4 DEF LinesOk

\* A step of r that leaves its line behind, which is stored and of its cohort.
LEMMA NextLineKeeps ==
    ASSUME ShadowInv, NEW r \in Runner, NextLine(r), UNCHANGED records,
           line[r] \in 1..Len(Lines[r]), Here(r).cohort = CohortOf[r], Recorded(Here(r))
    PROVE  ShadowInv'
  <1> USE DEF ShadowInv
  <1>1. /\ at'[r] = "ready" /\ line'[r] = line[r] + 1 /\ line[r] \in Nat \ {0}
        /\ \A q \in Runner \ {r} : at'[q] = at[q] /\ line'[q] = line[q]
    BY DEF ShapesOk, NextLine, Goes
  <1>2. ShapesOk'
    <2>1. DOMAIN at' = Runner
      BY DEF ShapesOk, NextLine, Goes
    <2>2. line' \in [Runner -> Nat \ {0}]
      BY <1>1 DEF ShapesOk, NextLine
    <2> QED
      BY <2>1, <2>2 DEF ShapesOk
  <1>3. \A e : Recorded(e)' <=> Recorded(e)
    BY DEF Recorded
  <1>4. ASSUME NEW q \in Runner
        PROVE  /\ \A k \in 1..(line'[q] - 1) :
                     /\ k \in 1..Len(Lines[q]) /\ Recorded(Lines[q][k])'
                     /\ Lines[q][k].cohort = CohortOf[q]
               /\ at'[q] \in AtWork =>
                     line'[q] \in 1..Len(Lines[q]) /\ Here(q)'.cohort = CohortOf[q]
               /\ at'[q] \in {"written", "listed"} => Recorded(Here(q))'
    <2>1. CASE q = r
      <3>1. ASSUME NEW k \in 1..(line'[r] - 1)
            PROVE  /\ k \in 1..Len(Lines[r]) /\ Recorded(Lines[r][k])'
                   /\ Lines[r][k].cohort = CohortOf[r]
        <4>1. k = line[r] \/ k \in 1..(line[r] - 1)
          BY <1>1
        <4>2. CASE k = line[r]
          BY <1>3, <4>2 DEF Here
        <4>3. CASE k \in 1..(line[r] - 1)
          BY <1>3, <4>3 DEF LinesOk
        <4> QED
          BY <4>1, <4>2, <4>3
      <3>2. at'[r] \notin AtWork /\ at'[r] \notin {"written", "listed"}
        BY <1>1 DEF AtWork
      <3> QED
        BY <2>1, <3>1, <3>2
    <2>2. CASE q # r
      <3>1. Here(q)' = Here(q) /\ at'[q] = at[q] /\ line'[q] = line[q]
        BY <1>1, <2>2 DEF Here
      <3>2. Recorded(Here(q)) => Recorded(Here(q))'
        BY <3>1 DEF Recorded
      <3> QED
        BY <1>3, <3>1, <3>2 DEF LinesOk
    <2> QED
      BY <2>1, <2>2
  <1> QED
    BY <1>2, <1>4 DEF LinesOk

LEMMA OpenKeeps ==
    ASSUME ShadowInv, NEW r \in Runner, Open(r)
    PROVE  ShadowInv'
  <1> USE DEF ShadowInv
  <1>1. /\ at'[r] \in {"failed", "opening"} /\ line'[r] = 1
        /\ \A q \in Runner \ {r} : at'[q] = at[q] /\ line'[q] = line[q]
        /\ UNCHANGED records
    BY DEF Open, Exits, Goes, ShapesOk
  <1>2. ShapesOk'
    BY DEF Open, Exits, Goes, ShapesOk
  <1>3. ASSUME NEW q \in Runner
        PROVE  /\ \A k \in 1..(line'[q] - 1) :
                     /\ k \in 1..Len(Lines[q]) /\ Recorded(Lines[q][k])'
                     /\ Lines[q][k].cohort = CohortOf[q]
               /\ at'[q] \in AtWork =>
                     line'[q] \in 1..Len(Lines[q]) /\ Here(q)'.cohort = CohortOf[q]
               /\ at'[q] \in {"written", "listed"} => Recorded(Here(q))'
    <2>1. CASE q = r
      BY <1>1, <2>1 DEF AtWork
    <2>2. CASE q # r
      BY <1>1, <2>2 DEF LinesOk, Recorded, Here
    <2> QED
      BY <2>1, <2>2
  <1> QED
    BY <1>2, <1>3 DEF LinesOk

\* The record of r's episode, written where there was none.
LEMMA CommitNewKeeps ==
    ASSUME ShadowInv, NEW r \in Runner, CommitNew(r)
    PROVE  ShadowInv'
  <1>1. /\ line[r] \in 1..Len(Lines[r]) /\ Here(r).cohort = CohortOf[r]
        /\ DOMAIN records = EventIds
    BY DEF CommitNew, ShadowInv, LinesOk, ShapesOk, AtWork
  <1>2. Here(r).event \in EventIds /\ Here(r) # NoEpisode
    BY <1>1, EpisodeIsSome DEF Here
  <1>3. PICK new : new = [episode |-> Here(r), verdict |-> verdict[r]]
    OBVIOUS
  <1>4. records' = [records EXCEPT ![Here(r).event] = new]
    BY <1>3 DEF CommitNew, NewRecord
  <1>5. new.episode = Here(r) /\ new # Unrecorded
    BY <1>2, <1>3 DEF Unrecorded
  <1>6. \A e \in EventIds : records[e] # Unrecorded => records'[e] = records[e]
    BY <1>4 DEF CommitNew, ShadowInv, ShapesOk
  <1>7. Here(r)' = Here(r)
    BY DEF CommitNew, Here
  <1>8. Recorded(Here(r))'
    BY <1>1, <1>2, <1>4, <1>5, <1>7 DEF Recorded
  <1>9. ShapesOk'
    BY <1>4 DEF CommitNew, Goes, ShadowInv, ShapesOk
  <1>10. line' = line /\ at' = [at EXCEPT ![r] = "written"]
    BY DEF CommitNew, Goes
  <1> QED
    BY <1>1, <1>6, <1>8, <1>9, <1>10, StayKeeps

LEMMA ShadowNextInv ==
    ASSUME ShadowInv, [ShadowNext]_shadowVars
    PROVE  ShadowInv'
  <1> USE DEF ShadowInv
  <1>1. ASSUME NEW r \in Runner, Lookup(r) PROVE ShadowInv'
    <2>1. /\ line[r] \in 1..Len(Lines[r]) /\ UNCHANGED records
      BY <1>1 DEF Lookup, HasLine, ShapesOk
    <2>2. CASE Here(r).cohort = CohortOf[r] /\ Skip(r) /\ NextLine(r)
      <3>1. Recorded(Here(r))
        BY <2>2 DEF Skip, SkipAny, SameContent, Recorded
      <3> QED
        BY <2>1, <2>2, <3>1, NextLineKeeps
    <2>3. CASE Here(r).cohort = CohortOf[r] /\ Goes(r, "evaluating") /\ UNCHANGED line
      <3>1. ShapesOk'
        BY <2>1, <2>3 DEF Goes, ShapesOk
      <3> QED
        BY <2>1, <2>3, <3>1, StayKeeps DEF Goes
    <2>4. CASE Exits(r, "failed") /\ UNCHANGED line
      <3>1. ShapesOk'
        BY <2>1, <2>4 DEF Exits, Goes, ShapesOk
      <3> QED
        BY <2>1, <2>4, <3>1, StayKeeps DEF Exits, Goes, AtWork
    <2> QED
      BY <1>1, <2>2, <2>3, <2>4 DEF Lookup
  <1>2. ASSUME NEW r \in Runner, Evaluate(r) \/ LockEvent(r) PROVE ShadowInv'
    <2>1. /\ line[r] \in 1..Len(Lines[r]) /\ Here(r).cohort = CohortOf[r]
          /\ UNCHANGED <<records, line>>
      BY <1>2 DEF Evaluate, LockEvent, LinesOk, AtWork
    <2>2. PICK where \in {"failed", "evaluated", "locked"} : at' = [at EXCEPT ![r] = where]
      BY <1>2 DEF Evaluate, LockEvent, Exits, Goes
    <2>3. ShapesOk'
      BY <2>1, <2>2 DEF ShapesOk
    <2> QED
      BY <2>1, <2>2, <2>3, StayKeeps
  <1>3. ASSUME NEW r \in Runner,
               CheckpointAtOpen(r) \/ CommitRefused(r) \/ Report(r) \/ CrashRunner(r)
        PROVE  ShadowInv'
    <2>1. UNCHANGED <<records, line>>
      BY <1>3 DEF CheckpointAtOpen, CommitRefused, Report, CrashRunner
    <2>2. PICK where \in {"ready", "failed", "finished", "off"} : at' = [at EXCEPT ![r] = where]
      BY <1>3 DEF CheckpointAtOpen, CommitRefused, Report, CrashRunner, Exits, Goes
    <2>3. ShapesOk'
      BY <2>1, <2>2 DEF ShapesOk
    <2>4. where \notin AtWork
      BY <2>2 DEF AtWork
    <2> QED
      BY <2>1, <2>2, <2>3, <2>4, StayKeeps DEF AtWork
  <1>4. ASSUME NEW r \in Runner, ListAll(r) PROVE ShadowInv'
    <2>1. /\ line[r] \in 1..Len(Lines[r]) /\ Here(r).cohort = CohortOf[r]
          /\ Recorded(Here(r)) /\ UNCHANGED <<records, line>>
          /\ at' = [at EXCEPT ![r] = "listed"]
      BY <1>4 DEF ListAll, LinesOk, AtWork, Goes
    <2>2. Recorded(Here(r))'
      BY <2>1 DEF Recorded, Here
    <2>3. ShapesOk'
      BY <2>1 DEF ShapesOk
    <2> QED
      BY <2>1, <2>2, <2>3, StayKeeps
  <1>5. ASSUME NEW r \in Runner, CommitDuplicate(r) PROVE ShadowInv'
    <2>1. /\ line[r] \in 1..Len(Lines[r]) /\ Here(r).cohort = CohortOf[r]
          /\ NextLine(r) /\ UNCHANGED records
      BY <1>5 DEF CommitDuplicate, LinesOk, AtWork
    <2>2. Recorded(Here(r))
      BY <1>5 DEF CommitDuplicate, Skip, SkipAny, SameContent, Recorded
    <2> QED
      BY <2>1, <2>2, NextLineKeeps
  <1>6. ASSUME NEW r \in Runner, CheckpointAfterCommit(r) PROVE ShadowInv'
    <2>1. /\ line[r] \in 1..Len(Lines[r]) /\ Here(r).cohort = CohortOf[r]
          /\ Recorded(Here(r)) /\ NextLine(r) /\ UNCHANGED records
      BY <1>6 DEF CheckpointAfterCommit, LinesOk, AtWork
    <2> QED
      BY <2>1, NextLineKeeps
  <1>7. CASE UNCHANGED shadowVars
    BY <1>7 DEF shadowVars, ShapesOk, LinesOk, Recorded, Here
  <1> QED
    BY <1>1, <1>2, <1>3, <1>4, <1>5, <1>6, <1>7, OpenKeeps, CommitNewKeeps
    DEF ShadowNext, Works

LEMMA ShadowInvariant == ShadowSpec => []ShadowInv
  <1>1. ShadowInit => ShadowInv
    BY ShadowInitInv
  <1>2. ShadowInv /\ [ShadowNext]_shadowVars => ShadowInv'
    BY ShadowNextInv
  <1> QED
    BY <1>1, <1>2, PTL DEF ShadowSpec

\* A run that completed left a record of every line it processed, of exactly
\* that content and cohort.
THEOREM CompletedRunsAreStored == ShadowSpec => []CompletedIsStored
  <1>1. ShadowInv => CompletedIsStored
    BY DEF ShadowInv, LinesOk, CompletedIsStored, Recorded
  <1> QED
    BY <1>1, ShadowInvariant, PTL

\* What was recorded of an event is never replaced.
THEOREM RecordsAreFinal == ShadowSpec => RecordsStand
  <1>1. ShadowInv /\ [ShadowNext]_shadowVars =>
           [\A e \in EventIds : records[e] # Unrecorded => records'[e] = records[e]]_shadowVars
    <2> SUFFICES ASSUME ShadowInv, ShadowNext, NEW e \in EventIds, records[e] # Unrecorded
                 PROVE  records'[e] = records[e]
      OBVIOUS
    <2>1. ASSUME NEW r \in Runner, CommitNew(r) PROVE records'[e] = records[e]
      BY <2>1 DEF CommitNew, NewRecord, ShadowInv, ShapesOk
    <2>2. ASSUME NEW r \in Runner,
                 \/ Open(r) \/ CrashRunner(r) \/ CheckpointAtOpen(r) \/ Lookup(r) \/ Evaluate(r)
                 \/ LockEvent(r) \/ CommitDuplicate(r) \/ CommitRefused(r) \/ ListAll(r)
                 \/ CheckpointAfterCommit(r) \/ Report(r)
          PROVE  UNCHANGED records
      BY <2>2 DEF Open, CrashRunner, CheckpointAtOpen, Lookup, Evaluate, LockEvent,
                  CommitDuplicate, CommitRefused, ListAll, CheckpointAfterCommit, Report
    <2> QED
      BY <2>1, <2>2 DEF ShadowNext, Works
  <1> QED
    BY <1>1, ShadowInvariant, PTL DEF ShadowSpec, RecordsStand

-----------------------------------------------------------------------------
(* Types.                                                                  *)

\* A runner that is about to commit has a verdict to record.
VerdictOk == \A r \in Runner : at[r] \in {"evaluated", "locked"} => verdict[r] \in Verdicts

LEMMA FreedTypes ==
    ASSUME ShadowTypeOK, NEW r \in Runner, NEW where, Exits(r, where),
           where \in {"off", "finished", "failed"}
    PROVE  /\ eventLock' \in [EventIds -> Runner \cup {Free}]
           /\ at' \in [Runner -> {"off", "opening", "ready", "evaluating", "evaluated",
                                  "locked", "written", "listed", "finished", "failed"}]
           /\ at'[r] = where /\ \A q \in Runner \ {r} : at'[q] = at[q]
  BY DEF ShadowTypeOK, Exits, Goes

LEMMA TypesNext ==
    ASSUME ShadowInv, ShadowTypeOK, VerdictOk, [ShadowNext]_shadowVars
    PROVE  ShadowTypeOK' /\ VerdictOk'
  <1>1. ASSUME NEW r \in Runner, Open(r) PROVE ShadowTypeOK' /\ VerdictOk'
    <2>1. opens' \in [Runner -> 0..MaxOpens]
      BY <1>1, ShadowAssumption DEF Open, ShadowTypeOK
    <2>2. CASE Exits(r, "failed") /\ UNCHANGED listing
      BY <1>1, <2>1, <2>2, FreedTypes DEF Open, ShadowTypeOK, VerdictOk
    <2>3. CASE /\ Goes(r, "opening") /\ UNCHANGED eventLock
               /\ listing' = [listing EXCEPT ![r] = Stored]
      BY <1>1, <2>1, <2>3 DEF Open, Goes, ShadowTypeOK, VerdictOk, Stored
    <2> QED
      BY <1>1, <2>2, <2>3 DEF Open
  <1>2. ASSUME NEW r \in Runner, Lookup(r) PROVE ShadowTypeOK' /\ VerdictOk'
    <2>1. CASE Exits(r, "failed") /\ UNCHANGED line
      BY <1>2, <2>1, FreedTypes DEF Lookup, ShadowTypeOK, VerdictOk
    <2>2. CASE NextLine(r) /\ UNCHANGED eventLock
      BY <1>2, <2>2 DEF Lookup, NextLine, Goes, ShadowTypeOK, VerdictOk
    <2>3. CASE Goes(r, "evaluating") /\ UNCHANGED <<line, eventLock>>
      BY <1>2, <2>3 DEF Lookup, Goes, ShadowTypeOK, VerdictOk
    <2> QED
      BY <1>2, <2>1, <2>2, <2>3 DEF Lookup
  <1>3. ASSUME NEW r \in Runner, Evaluate(r) PROVE ShadowTypeOK' /\ VerdictOk'
    <2>1. PICK v \in Verdicts : /\ verdict' = [verdict EXCEPT ![r] = v]
                                /\ IF v = "sensitive" THEN Exits(r, "failed")
                                   ELSE Goes(r, "evaluated") /\ UNCHANGED eventLock
      BY <1>3 DEF Evaluate
    <2>2. verdict' \in [Runner -> Verdicts \cup {"none"}] /\ verdict'[r] \in Verdicts
          /\ \A q \in Runner \ {r} : verdict'[q] = verdict[q]
      BY <2>1 DEF ShadowTypeOK
    <2>3. CASE v = "sensitive"
      BY <1>3, <2>1, <2>2, <2>3, FreedTypes DEF Evaluate, ShadowTypeOK, VerdictOk
    <2>4. CASE v # "sensitive"
      BY <1>3, <2>1, <2>2, <2>4 DEF Evaluate, Goes, ShadowTypeOK, VerdictOk
    <2> QED
      BY <2>3, <2>4
  <1>4. ASSUME NEW r \in Runner, at[r] \in AtWork
        PROVE  Here(r) \in Episodes /\ Here(r).event \in EventIds
    BY <1>4, EpisodeIsSome DEF ShadowInv, LinesOk, Here
  <1>5. ASSUME NEW r \in Runner, LockEvent(r) \/ ListAll(r)
        PROVE  ShadowTypeOK' /\ VerdictOk'
    <2>1. CASE LockEvent(r)
      <3>1. Here(r).event \in EventIds /\ at[r] = "evaluated"
        BY <2>1, <1>4 DEF LockEvent, AtWork
      <3> QED
        BY <2>1, <3>1 DEF LockEvent, Goes, ShadowTypeOK, VerdictOk
    <2>2. CASE ListAll(r)
      BY <2>2 DEF ListAll, Goes, ShadowTypeOK, VerdictOk, Stored
    <2> QED
      BY <1>5, <2>1, <2>2
  <1>6. ASSUME NEW r \in Runner, CommitNew(r) PROVE ShadowTypeOK' /\ VerdictOk'
    <2>1. Here(r) \in Episodes /\ Here(r).event \in EventIds /\ verdict[r] \in Verdicts
      BY <1>4, <1>6 DEF CommitNew, AtWork, VerdictOk
    <2>2. [episode |-> Here(r), verdict |-> verdict[r]]
             \in [episode : Episodes, verdict : Verdicts] \cup {Unrecorded}
      BY <2>1
    <2>3. records' \in [EventIds -> [episode : Episodes, verdict : Verdicts] \cup {Unrecorded}]
      BY <1>6, <2>2 DEF CommitNew, NewRecord, ShadowTypeOK
    <2> QED
      BY <1>6, <2>3 DEF CommitNew, Goes, ShadowTypeOK, VerdictOk
  <1>7. ASSUME NEW r \in Runner, CheckpointAtOpen(r) \/ CommitDuplicate(r)
                                 \/ CheckpointAfterCommit(r)
        PROVE  ShadowTypeOK' /\ VerdictOk'
    BY <1>7 DEF CheckpointAtOpen, CommitDuplicate, CheckpointAfterCommit, Release, NextLine,
                Goes, ShadowTypeOK, VerdictOk
  <1>8. ASSUME NEW r \in Runner, CommitRefused(r) \/ Report(r) \/ CrashRunner(r)
        PROVE  ShadowTypeOK' /\ VerdictOk'
    <2>1. CASE CommitRefused(r)
      BY <2>1, FreedTypes DEF CommitRefused, ShadowTypeOK, VerdictOk
    <2>2. CASE Report(r)
      BY <2>2, FreedTypes DEF Report, ShadowTypeOK, VerdictOk
    <2>3. CASE CrashRunner(r)
      BY <2>3, FreedTypes DEF CrashRunner, ShadowTypeOK, VerdictOk
    <2> QED
      BY <1>8, <2>1, <2>2, <2>3
  <1>9. CASE UNCHANGED shadowVars
    BY <1>9 DEF shadowVars, ShadowTypeOK, VerdictOk
  <1> QED
    BY <1>1, <1>2, <1>3, <1>5, <1>6, <1>7, <1>8, <1>9 DEF ShadowNext, Works

\* The records, the locks and the runners keep their shape.
THEOREM ShadowTypes == ShadowSpec => []ShadowTypeOK
  <1>1. ShadowInit => ShadowTypeOK /\ VerdictOk
    BY ShadowAssumption DEF ShadowInit, ShadowTypeOK, VerdictOk
  <1>2. ShadowInv /\ (ShadowTypeOK /\ VerdictOk) /\ [ShadowNext]_shadowVars
        => (ShadowTypeOK /\ VerdictOk)'
    BY TypesNext
  <1> QED
    BY <1>1, <1>2, ShadowInvariant, PTL DEF ShadowSpec

-----------------------------------------------------------------------------
(***************************************************************************)
(* Theorems about module Attachments, for any set of messages and any      *)
(* number of posts of each.  The invariant adds to the properties what an  *)
(* execution holds: a document it will report is the one of the row, an    *)
(* upload it will record is in the bucket, and an upload it will remove    *)
(* belongs to no row but one whose answer was lost.                        *)
(***************************************************************************)

\* The document of a row was created by an execution for that message, which
\* is past its recording.
StoredBy ==
    \A i \in Inbound : row[i].status = "STORED" =>
        /\ post[row[i].document].input = i
        /\ post[row[i].document].at \in {"remove", "note", "turn", "done"}

Uploaded == \A p \in Posts : At(p, "record") => p \in objects

Removable == \A p \in Posts : At(p, "remove") /\ p \in documents => p \in unanswered

Reported ==
    \A p \in Posts : post[p].received # NoDocument =>
        /\ row[post[p].input].status = "STORED"
        /\ row[post[p].input].document = post[p].received

AttachmentsInv ==
    /\ TypeOK
    /\ OneDocumentPerFile
    /\ KnownIsInPanel
    /\ StoredHasObject
    /\ StoredBy
    /\ Uploaded
    /\ Removable
    /\ Reported

LEMMA NewPostType ==
    NewPost \in Executions /\ NewPost.at = "new" /\ NewPost.received = NoDocument
  BY AttachmentsAssumption DEF NewPost, Stages, Executions

LEMMA AttachmentsInit == Init => AttachmentsInv
  <1> SUFFICES ASSUME Init PROVE AttachmentsInv
    OBVIOUS
  <1>1. \A i \in Inbound : row[i].status = "NONE" /\ row[i].document = NoDocument
                           /\ told[i] = "uncommitted"
    BY DEF Init
  <1>2. \A p \in Posts : post[p] = NewPost
    BY DEF Init
  <1>3. NewPost \in Executions /\ NewPost.at = "new" /\ NewPost.received = NoDocument
    BY NewPostType
  <1>4. TypeOK
    BY <1>3 DEF Init, TypeOK, Told, Rows
  <1>5. OneDocumentPerFile /\ KnownIsInPanel /\ StoredHasObject
    BY <1>1 DEF Init, OneDocumentPerFile, KnownIsInPanel, StoredHasObject
  <1>6. \A p \in Posts : post[p].at = "new" /\ post[p].received = NoDocument
    BY <1>2, <1>3
  <1>7. StoredBy /\ Uploaded /\ Removable /\ Reported
    BY <1>1, <1>6 DEF StoredBy, Uploaded, Removable, Reported, At
  <1> QED
    BY <1>4, <1>5, <1>7 DEF AttachmentsInv

\* A step of one execution that neither stores a file nor commits a turn.
LEMMA QuietPost ==
    ASSUME AttachmentsInv, NEW p \in Posts, NEW q \in Executions, Becomes(p, q),
           objects' \in SUBSET Posts, objects \ {p} \subseteq objects',
           UNCHANGED <<documents, known, told, unanswered>>,
           row' \in [Inbound -> Rows],
           \A i \in Inbound : row[i].status = "STORED" => row'[i] = row[i],
           \A i \in Inbound : row[i].status # "STORED" =>
               row'[i].status # "STORED" /\ row'[i].document = NoDocument,
           p \in documents => /\ q.input = post[p].input
                              /\ q.at \in {"remove", "note", "turn", "done"},
           q.at = "record" => p \in objects',
           q.at = "remove" /\ p \in documents => p \in unanswered,
           p \in documents /\ p \notin unanswered /\ p \in objects => p \in objects',
           q.received # NoDocument =>
               row[q.input].status = "STORED" /\ row[q.input].document = q.received
    PROVE  AttachmentsInv'
  <1> USE DEF AttachmentsInv
  <1>1. TypeOK'
    BY DEF TypeOK, Executions, Rows, Becomes
  <1>2. \A i \in Inbound : row'[i].status = "STORED" <=> row[i].status = "STORED"
    OBVIOUS
  <1>3. \A i \in Inbound : row'[i].document = row[i].document
    BY DEF OneDocumentPerFile
  <1>4. OneDocumentPerFile' /\ KnownIsInPanel'
    BY <1>2, <1>3 DEF OneDocumentPerFile, KnownIsInPanel
  <1>5. \A i \in Inbound : row[i].status = "STORED" => row[i].document \in documents
    BY DEF OneDocumentPerFile
  <1>6. StoredHasObject'
    BY <1>2, <1>3, <1>5 DEF StoredHasObject
  <1>7. \A r \in Posts : post'[r] = IF r = p THEN q ELSE post[r]
    BY DEF TypeOK, Executions, Rows, Becomes
  <1>8. StoredBy'
    BY <1>2, <1>3, <1>5, <1>7 DEF StoredBy, TypeOK, OneDocumentPerFile
  <1>9. Uploaded' /\ Removable'
    BY <1>7 DEF Uploaded, Removable, At
  <1>10. Reported'
    BY <1>2, <1>3, <1>7 DEF Reported, TypeOK, Executions, Rows, Becomes
  <1> QED
    BY <1>1, <1>4, <1>6, <1>8, <1>9, <1>10

\* What an execution before its recording, or the document it reports, is.
LEMMA Fresh ==
    ASSUME AttachmentsInv, NEW p \in Posts,
           post[p].at \in {"new", "look", "download", "upload", "record"}
    PROVE  p \notin documents
  BY AttachmentsAssumption DEF AttachmentsInv, StoredBy, OneDocumentPerFile, TypeOK, Executions, Rows, Becomes

LEMMA StoreStep ==
    ASSUME AttachmentsInv, NEW p \in Posts, At(p, "record"), StoreAttachment(p),
           row[post[p].input].status # "STORED", NEW q \in Executions, Becomes(p, q),
           q.input = post[p].input,
           q.at \in {"remove", "turn"}, q.received \in {NoDocument, p},
           unanswered' = unanswered \/ unanswered' = unanswered \cup {p},
           q.at = "remove" => p \in unanswered',
           UNCHANGED <<objects, known, told>>
    PROVE  AttachmentsInv'
  <1> USE DEF AttachmentsInv
  <1> DEFINE i == post[p].input
  <1>1. i \in Inbound /\ p # NoDocument
    BY AttachmentsAssumption DEF TypeOK, Executions, Rows, Becomes
  <1>2. /\ row' = [row EXCEPT ![i] = [status |-> "STORED", document |-> p]]
        /\ documents' = documents \cup {p}
    BY DEF StoreAttachment
  <1>3. p \notin documents /\ row[i].document = NoDocument
    BY <1>1, Fresh DEF At, OneDocumentPerFile
  <1>4. \A j \in Inbound : row'[j] = IF j = i THEN [status |-> "STORED", document |-> p] ELSE row[j]
    BY <1>1, <1>2 DEF TypeOK, Executions, Rows, Becomes
  <1>5. \A r \in Posts : post'[r] = IF r = p THEN q ELSE post[r]
    BY DEF TypeOK, Executions, Rows, Becomes
  <1>6. TypeOK'
    BY <1>1, <1>2 DEF TypeOK, Executions, Rows, Becomes
  <1>7. OneDocumentPerFile'
    <2>1. documents' = {row'[j].document : j \in Inbound} \ {NoDocument}
      BY <1>1, <1>2, <1>3, <1>4 DEF OneDocumentPerFile
    <2>2. \A j \in Inbound : row[j].document # p
      BY <1>1, <1>3 DEF OneDocumentPerFile
    <2> QED
      BY <1>1, <1>4, <2>1, <2>2 DEF OneDocumentPerFile
  <1>8. KnownIsInPanel'
    <2>1. NoDocument \notin known
      BY AttachmentsAssumption DEF TypeOK, Executions, Rows, Becomes
    <2>2. told[i] # "preserved"
      BY <1>1, <1>3, <2>1 DEF KnownIsInPanel
    <2> QED
      BY <1>1, <1>3, <1>4, <2>1, <2>2 DEF KnownIsInPanel
  <1>9. StoredHasObject'
    BY <1>1, <1>4 DEF StoredHasObject, Uploaded
  <1>10. StoredBy'
    BY <1>1, <1>3, <1>4, <1>5 DEF StoredBy, OneDocumentPerFile, TypeOK, Executions, Rows, Becomes
  <1>11. Uploaded' /\ Removable'
    BY <1>2, <1>5 DEF Uploaded, Removable, At
  <1>12. Reported'
    BY <1>1, <1>3, <1>4, <1>5 DEF Reported, TypeOK, Executions, Rows, Becomes
  <1> QED
    BY <1>6, <1>7, <1>8, <1>9, <1>10, <1>11, <1>12

(***************************************************************************)
(* The steps                                                               *)
(***************************************************************************)

LEMMA UpdateType ==
    ASSUME NEW e \in Executions, NEW stage \in Stages, NEW document \in Posts \cup {NoDocument}
    PROVE  /\ [e EXCEPT !.at = stage, !.received = document] \in Executions
           /\ [e EXCEPT !.at = stage] \in Executions
  BY DEF Executions

\* An execution that only moves on.
LEMMA MoveInv ==
    ASSUME AttachmentsInv, NEW p \in Posts, NEW stage \in Stages, Moves(p, stage),
           objects' \in SUBSET Posts, objects \ {p} \subseteq objects',
           UNCHANGED <<row, documents, known, told, unanswered>>,
           p \in documents => stage \in {"note", "turn", "done"},
           p \in documents /\ p \notin unanswered /\ p \in objects => p \in objects',
           stage = "record" => p \in objects',
           stage = "remove" => p \notin documents
    PROVE  AttachmentsInv'
  <1> DEFINE q == [post[p] EXCEPT !.at = stage]
  <1>1. post[p] \in Executions /\ NoDocument \in Posts \cup {NoDocument}
    BY DEF AttachmentsInv, TypeOK
  <1>2. q \in Executions
    BY <1>1, UpdateType
  <1>3. q.at = stage /\ q.input = post[p].input /\ q.received = post[p].received
    BY <1>1 DEF Executions
  <1>4. Becomes(p, q)
    BY DEF Moves
  <1>5. /\ \A i \in Inbound : row[i].status # "STORED" => row[i].document = NoDocument
        /\ row \in [Inbound -> Rows]
        /\ q.received # NoDocument =>
              /\ row[post[p].input].status = "STORED"
              /\ row[post[p].input].document = q.received
    BY <1>3 DEF AttachmentsInv, OneDocumentPerFile, TypeOK, Reported, Rows
  <1> HIDE DEF q
  <1> QED
    BY <1>2, <1>3, <1>4, <1>5, QuietPost

\* An execution that returns from persist with what the row says, or nothing.
LEMMA ReturnInv ==
    ASSUME AttachmentsInv, NEW p \in Posts, NEW document \in Posts \cup {NoDocument},
           Returns(p, document), row' \in [Inbound -> Rows],
           \A i \in Inbound : row[i].status = "STORED" => row'[i] = row[i],
           \A i \in Inbound : row[i].status # "STORED" =>
               row'[i].status # "STORED" /\ row'[i].document = NoDocument,
           UNCHANGED <<documents, objects, known, told, unanswered>>,
           document # NoDocument => /\ row[post[p].input].status = "STORED"
                                    /\ row[post[p].input].document = document
    PROVE  AttachmentsInv'
  <1> DEFINE q == [post[p] EXCEPT !.at = "turn", !.received = document]
  <1>1. post[p] \in Executions /\ "turn" \in Stages /\ objects \in SUBSET Posts
    BY DEF AttachmentsInv, TypeOK, Stages
  <1>2. q \in Executions
    BY <1>1, UpdateType
  <1>3. q.at = "turn" /\ q.input = post[p].input /\ q.received = document
    BY <1>1 DEF Executions
  <1>4. Becomes(p, q)
    BY DEF Returns
  <1> HIDE DEF q
  <1> QED
    BY <1>1, <1>2, <1>3, <1>4, QuietPost

LEMMA AcquireInv ==
    ASSUME AttachmentsInv, NEW p \in Posts, NEW i \in Inbound, Acquire(p, i)
    PROVE  AttachmentsInv'
  <1> DEFINE d == told[i] # "uncommitted"
             q == [NewPost EXCEPT !.at = "look", !.input = i, !.duplicate = d]
  <1>1. NewPost \in Executions /\ NewPost.received = NoDocument
    BY NewPostType
  <1>2. q \in Executions /\ q.at = "look" /\ q.received = NoDocument
    <2>1. d \in BOOLEAN
      OBVIOUS
    <2> HIDE DEF d
    <2> QED
      BY <1>1, <2>1 DEF Executions, Stages
  <1>3. Becomes(p, q)
    BY DEF Acquire
  <1>4. p \notin documents
    BY Fresh DEF Acquire, At
  <1>5. /\ \A j \in Inbound : row[j].status # "STORED" => row[j].document = NoDocument
        /\ row \in [Inbound -> Rows] /\ objects \in SUBSET Posts
    BY DEF AttachmentsInv, OneDocumentPerFile, TypeOK, Rows
  <1> HIDE DEF q
  <1> QED
    BY <1>2, <1>3, <1>4, <1>5, QuietPost DEF Acquire

LEMMA LookUpInv ==
    ASSUME AttachmentsInv, NEW p \in Posts, LookUp(p)
    PROVE  AttachmentsInv'
  <1> DEFINE r == row[post[p].input]
  <1>1. /\ \A j \in Inbound : row[j].status # "STORED" => row[j].document = NoDocument
        /\ row \in [Inbound -> Rows] /\ objects \in SUBSET Posts
        /\ r.document \in Posts \cup {NoDocument}
    BY DEF AttachmentsInv, OneDocumentPerFile, TypeOK, Rows, Executions
  <1>2. p \notin documents
    BY Fresh DEF LookUp, At
  <1>3. CASE r.status = "STORED" /\ Returns(p, r.document)
    BY <1>1, <1>3, ReturnInv DEF LookUp
  <1>4. CASE Moves(p, "download")
    BY <1>1, <1>2, <1>4, MoveInv DEF LookUp, Stages
  <1> QED
    BY <1>3, <1>4 DEF LookUp

\* The document function of the store answers with the one of the row.
LEMMA RecordsInv ==
    ASSUME AttachmentsInv, NEW p \in Posts, Record(p) \/ RecordUnanswered(p) \/ RecordRefused(p)
    PROVE  AttachmentsInv'
  <1> DEFINE r == row[post[p].input]
  <1>1. /\ At(p, "record") /\ p \notin documents
        /\ objects \in SUBSET Posts
        /\ {"remove", "turn"} \subseteq Stages
    BY Fresh DEF Record, RecordUnanswered, RecordRefused, At, AttachmentsInv, TypeOK, Stages
  <1>2. r \in Rows /\ r.document \in Posts \cup {NoDocument} /\ p \in Posts \cup {NoDocument}
    BY DEF AttachmentsInv, TypeOK, Rows, Executions
  <1>3. /\ \A j \in Inbound : row[j].status # "STORED" => row[j].document = NoDocument
        /\ row \in [Inbound -> Rows]
    BY DEF AttachmentsInv, TypeOK, Rows, OneDocumentPerFile
  <1>4. CASE r.status = "STORED"
    <2>1. StoreAttachment(p) => UNCHANGED <<row, documents>>
      BY <1>4 DEF StoreAttachment
    <2>2. CASE Record(p)
      <3>1. Returns(p, r.document)
        BY <1>4, <2>2 DEF Record, StoredDocument
      <3> QED
        BY <1>1, <1>2, <1>3, <1>4, <2>1, <2>2, <3>1, ReturnInv DEF Record
    <2>3. CASE RecordUnanswered(p) \/ RecordRefused(p)
      <3>1. /\ UNCHANGED <<row, documents, objects, known, told, unanswered>>
            /\ Moves(p, "remove")
        BY <2>1, <2>3 DEF RecordUnanswered, RecordRefused
      <3> QED
        BY <1>1, <3>1, MoveInv
    <2> QED
      BY <2>2, <2>3
  <1>5. CASE r.status # "STORED"
    <2>1. post[p] \in Executions /\ NoDocument \in Posts \cup {NoDocument}
      BY DEF AttachmentsInv, TypeOK
    <2>2. post[p].received = NoDocument
      BY <1>5 DEF AttachmentsInv, Reported
    <2>3. CASE Record(p)
      <3> DEFINE q == [post[p] EXCEPT !.at = "turn", !.received = p]
      <3>1. Becomes(p, q)
        BY <1>5, <2>3 DEF Record, StoredDocument, Returns
      <3>2. q \in Executions
        BY <1>1, <1>2, <2>1, UpdateType
      <3>3. q.at = "turn" /\ q.input = post[p].input /\ q.received = p
        BY <2>1 DEF Executions
      <3> HIDE DEF q
      <3> QED
        BY <1>1, <1>5, <2>3, <3>1, <3>2, <3>3, StoreStep DEF Record
    <2>4. CASE RecordUnanswered(p)
      <3> DEFINE q == [post[p] EXCEPT !.at = "remove"]
      <3>1. Becomes(p, q)
        BY <2>4 DEF RecordUnanswered, Moves
      <3>2. q \in Executions
        BY <1>1, <2>1, UpdateType
      <3>3. q.at = "remove" /\ q.input = post[p].input /\ q.received = NoDocument
        BY <2>1, <2>2 DEF Executions
      <3>4. unanswered' = unanswered \cup {p}
        BY <1>1, <1>5, <2>4 DEF RecordUnanswered, StoreAttachment
      <3> HIDE DEF q
      <3> QED
        BY <1>1, <1>5, <2>4, <3>1, <3>2, <3>3, <3>4, StoreStep DEF RecordUnanswered
    <2>5. CASE RecordRefused(p)
      BY <1>1, <2>5, MoveInv DEF RecordRefused
    <2> QED
      BY <2>3, <2>4, <2>5
  <1> QED
    BY <1>4, <1>5

LEMMA NoteFailureInv ==
    ASSUME AttachmentsInv, NEW p \in Posts, NoteFailure(p)
    PROVE  AttachmentsInv'
  <1> DEFINE i == post[p].input
  <1>1. /\ \A j \in Inbound : row[j].status # "STORED" => row[j].document = NoDocument
        /\ row \in [Inbound -> Rows] /\ i \in Inbound
    BY DEF AttachmentsInv, OneDocumentPerFile, TypeOK, Rows, Executions
  <1>2. \/ row' = row
        \/ /\ row[i].status # "STORED"
           /\ row' = [row EXCEPT ![i] = [status |-> "FAILED", document |-> NoDocument]]
    BY DEF NoteFailure, FailAttachment
  <1>3. /\ row' \in [Inbound -> Rows]
        /\ \A j \in Inbound : row[j].status = "STORED" => row'[j] = row[j]
        /\ \A j \in Inbound : row[j].status # "STORED" =>
               row'[j].status # "STORED" /\ row'[j].document = NoDocument
    BY <1>1, <1>2 DEF Rows
  <1> QED
    BY <1>3, ReturnInv DEF NoteFailure

LEMMA PersistsInv ==
    ASSUME AttachmentsInv, NEW p \in Posts, Persists(p)
    PROVE  AttachmentsInv'
  <1>1. objects \in SUBSET Posts /\ {"upload", "record", "note"} \subseteq Stages
    BY DEF AttachmentsInv, TypeOK, Stages
  <1>2. CASE LookUp(p)
    BY <1>2, LookUpInv
  <1>3. CASE Download(p)
    <2>1. p \notin documents
      BY <1>3, Fresh DEF Download, At
    <2> QED
      BY <1>1, <1>3, <2>1, MoveInv DEF Download
  <1>4. CASE Upload(p)
    <2>1. p \notin documents
      BY <1>4, Fresh DEF Upload, At
    <2>2. CASE objects' = objects \cup {p} /\ Moves(p, "record")
      BY <1>1, <1>4, <2>1, <2>2, MoveInv DEF Upload
    <2>3. CASE objects' \in {objects, objects \cup {p}} /\ Moves(p, "note")
      BY <1>1, <1>4, <2>1, <2>3, MoveInv DEF Upload
    <2> QED
      BY <1>4, <2>2, <2>3 DEF Upload
  <1>5. CASE Record(p) \/ RecordUnanswered(p) \/ RecordRefused(p)
    BY <1>5, RecordsInv
  <1>6. CASE Remove(p)
    <2>1. p \in documents => p \in unanswered
      BY <1>6 DEF AttachmentsInv, Removable, Remove
    <2> QED
      BY <1>1, <1>6, <2>1, MoveInv DEF Remove
  <1>7. CASE NoteFailure(p)
    BY <1>7, NoteFailureInv
  <1> QED
    BY <1>2, <1>3, <1>4, <1>5, <1>6, <1>7 DEF Persists

LEMMA DiesInv ==
    ASSUME AttachmentsInv, NEW p \in Posts, Dies(p)
    PROVE  AttachmentsInv'
  BY MoveInv DEF Dies, Stages, AttachmentsInv, TypeOK

LEMMA CommitTurnInv ==
    ASSUME AttachmentsInv, NEW p \in Posts, CommitTurn(p)
    PROVE  AttachmentsInv'
  <1> USE DEF AttachmentsInv
  <1> DEFINE i == post[p].input
  <1>1. /\ i \in Inbound /\ post[p].at = "turn"
        /\ post[p] \in Executions /\ "done" \in Stages
        /\ UNCHANGED <<row, documents, objects, unanswered>>
    BY DEF CommitTurn, At, TypeOK, Executions, Stages
  <1> DEFINE q == [post[p] EXCEPT !.at = "done"]
  <1>2. \A r \in Posts : /\ post'[r].input = post[r].input /\ post'[r].received = post[r].received
                         /\ post'[r].at = IF r = p THEN "done" ELSE post[r].at
    <2>1. q.at = "done" /\ q.input = i /\ q.received = post[p].received
      BY <1>1 DEF Executions
    <2>2. post' = [post EXCEPT ![p] = q]
      BY DEF CommitTurn, Moves, Becomes
    <2> HIDE DEF q
    <2>3. \A r \in Posts : post'[r] = IF r = p THEN q ELSE post[r]
      BY <2>2 DEF TypeOK
    <2> QED
      BY <2>1, <2>3
  <1>3. TypeOK'
    <2>1. q \in Executions /\ post' = [post EXCEPT ![p] = q]
      BY <1>1, UpdateType DEF CommitTurn, Moves, Becomes
    <2> HIDE DEF q
    <2>2. known' \in SUBSET Posts
      BY <1>1 DEF CommitTurn, Learned, TypeOK, Executions
    <2>3. told' \in [Inbound -> Told]
      BY <1>1 DEF CommitTurn, TypeOK, Told, Announcement
    <2> QED
      BY <1>1, <2>1, <2>2, <2>3 DEF TypeOK
  <1>4. KnownIsInPanel'
    <2>1. CASE known' = known /\ told' = told
      BY <1>1, <2>1 DEF KnownIsInPanel
    <2>2. CASE /\ told[i] = "uncommitted"
               /\ known' = known \cup Learned(p)
               /\ \E t \in Announcement(p) : told' = [told EXCEPT ![i] = t]
      <3>1. PICK t \in Announcement(p) : told' = [told EXCEPT ![i] = t]
        BY <2>2
      <3>2. \A j \in Inbound : told'[j] = IF j = i THEN t ELSE told[j]
        BY <1>1, <3>1 DEF TypeOK, Executions
      <3>3. t # "uncommitted" /\ (t = "preserved" => post[p].received # NoDocument)
        BY <3>1 DEF Announcement
      <3>4. post[p].received # NoDocument => row[i].document = post[p].received
        BY DEF Reported
      <3> QED
        BY <1>1, <2>2, <3>2, <3>3, <3>4 DEF KnownIsInPanel, Learned
    <2> QED
      BY <1>1, <2>1, <2>2 DEF CommitTurn
  <1>5. OneDocumentPerFile' /\ StoredHasObject'
    BY <1>1 DEF OneDocumentPerFile, StoredHasObject
  <1>6. StoredBy'
    BY <1>1, <1>2 DEF StoredBy, OneDocumentPerFile, TypeOK, Executions
  <1>7. Uploaded' /\ Removable' /\ Reported'
    BY <1>1, <1>2 DEF Uploaded, Removable, Reported, At
  <1> QED
    BY <1>3, <1>4, <1>5, <1>6, <1>7

LEMMA NextInv == AttachmentsInv /\ [Next]_vars => AttachmentsInv'
  <1> SUFFICES ASSUME AttachmentsInv, [Next]_vars PROVE AttachmentsInv'
    OBVIOUS
  <1>1. CASE UNCHANGED vars
    BY <1>1 DEF vars, AttachmentsInv, TypeOK, OneDocumentPerFile, KnownIsInPanel,
                StoredHasObject, StoredBy, Uploaded, Removable, Reported, At
  <1>2. ASSUME NEW p \in Posts, NEW i \in Inbound, Acquire(p, i) PROVE AttachmentsInv'
    BY <1>2, AcquireInv
  <1>3. ASSUME NEW p \in Posts, Persists(p) PROVE AttachmentsInv'
    BY <1>3, PersistsInv
  <1>4. ASSUME NEW p \in Posts, CommitTurn(p) PROVE AttachmentsInv'
    BY <1>4, CommitTurnInv
  <1>5. ASSUME NEW p \in Posts, Dies(p) PROVE AttachmentsInv'
    BY <1>5, DiesInv
  <1> QED
    BY <1>1, <1>2, <1>3, <1>4, <1>5 DEF Next

THEOREM AttachmentsInvariant == Spec => []AttachmentsInv
  BY AttachmentsInit, NextInv, PTL DEF Spec

(***************************************************************************)
(* The properties                                                          *)
(***************************************************************************)

\* Executions, rows and sets of documents keep their shape.
THEOREM AttachmentTypes == Spec => []TypeOK
  BY AttachmentsInvariant, PTL DEF AttachmentsInv

\* The panel gets one document per file, whatever is posted again.
THEOREM OneDocument == Spec => []OneDocumentPerFile
  BY AttachmentsInvariant, PTL DEF AttachmentsInv

\* What the engine knows and the citizen is told of is in the panel.
THEOREM KnownCanBeReviewed == Spec => []KnownIsInPanel
  BY AttachmentsInvariant, PTL DEF AttachmentsInv

\* Only the loss of an answer separates a STORED row from its object.
THEOREM StoredIsInBucket == Spec => []StoredHasObject
  BY AttachmentsInvariant, PTL DEF AttachmentsInv

\* Nothing takes a stored file back.
THEOREM StoredStays == Spec => StoredForGood
  <1>1. TypeOK /\ [Next]_vars =>
          [\A i \in Inbound : row[i].status = "STORED" => row'[i] = row[i]]_vars
    <2> SUFFICES ASSUME TypeOK, [Next]_vars, NEW i \in Inbound, row[i].status = "STORED"
                 PROVE  row'[i] = row[i]
      OBVIOUS
    <2>1. CASE row' = row
      BY <2>1
    <2>2. ASSUME NEW p \in Posts, StoreAttachment(p) PROVE row'[i] = row[i]
      BY <2>2 DEF StoreAttachment, TypeOK
    <2>3. ASSUME NEW p \in Posts, FailAttachment(p) PROVE row'[i] = row[i]
      BY <2>3 DEF FailAttachment, TypeOK
    <2> QED
      BY <2>1, <2>2, <2>3 DEF Next, Persists, Acquire, LookUp, Download, Upload, Record,
         RecordUnanswered, RecordRefused, Remove, NoteFailure, CommitTurn, Dies, vars
  <1> QED
    BY <1>1, AttachmentTypes, PTL DEF Spec, StoredForGood

=============================================================================
