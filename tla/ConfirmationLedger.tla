-------------------------- MODULE ConfirmationLedger --------------------------
(***************************************************************************)
(* The confirmation ledger (phase18b/confirmation/authority.ts): processes *)
(* that share one signed file issue challenges, turn a citizen's "sim" into*)
(* an attestation and say which action an attestation authorises.  Every   *)
(* operation takes a lock file, reads the whole ledger, decides, replaces  *)
(* the whole ledger and answers; a process may die between any two steps,  *)
(* when the operating system frees its lock.                               *)
(* A signature is valid, forged or missing; a hash is what it is taken of, *)
(* so an attestation is named by its content.  `party' stands for the      *)
(* conversation, the actor and the channel, `proposal' for the action, its *)
(* sanitized input and its version.                                        *)
(***************************************************************************)
EXTENDS Integers, FiniteSets

CONSTANTS
    Process,       \* processes that may open the ledger
    Keys,          \* versions of the secrets
    Challenge,     \* what may be proposed: [id, party, prompt, proposal, nonce, from, until]
    Event,         \* inbound events: [id, content, party, reply, at, signature, key]
    Affirmative,   \* contents that say yes: "sim", "confirmo"
    MaxLifetime,   \* longest window of a challenge
    Asked,         \* the calls that are made
    MaxCalls       \* bound on the calls of a behaviour

Nobody == "nobody"
NoKey == "none"
NoCall == [op |-> "none"]
Empty(key) == [key |-> key, challenges |-> {}, attestations |-> {}, bindings |-> {}]
Absent == Empty(NoKey)     \* no file yet
Attestation == [challenge : Challenge, event : Event]
Binding == [event : {e.id : e \in Event}, content : {e.content : e \in Event},
            confirmation : {ch.id : ch \in Challenge}]
Ledger == [key : Keys, challenges : SUBSET Challenge,
           attestations : SUBSET Attestation, bindings : SUBSET Binding]

Openings == [op : {"open"}, key : Keys]
Issues == [op : {"issue"}, challenge : Challenge]
Evaluations == [op : {"evaluate"}, id : {ch.id : ch \in Challenge}, event : Event,
                text : {e.content : e \in Event}]
Authorizations == [op : {"authorize"}, id : {ch.id : ch \in Challenge},
                   attestation : Attestation, party : {ch.party : ch \in Challenge},
                   proposal : {ch.proposal : ch \in Challenge}]
Call == Openings \cup Issues \cup Evaluations \cup Authorizations
Words == {"OPENED", "ISSUED", "ISSUED_BEFORE", "COMMON", "CONTEXTUAL",
            "AUTHENTICATED", "AUTHORIZED", "ERROR"}

ASSUME LedgerAssumption ==
    /\ Asked \subseteq Call /\ Nobody \notin Process /\ NoKey \notin Keys
    /\ MaxCalls \in Nat /\ MaxLifetime \in Nat
    /\ \A ch \in Challenge : ch.from \in Nat /\ ch.until \in Nat
    /\ \A e \in Event : e.at \in Nat /\ e.signature \in {"valid", "forged", "none"}

VARIABLES
    file,     \* ledger.json
    lock,     \* who holds ledger.lock
    opened,   \* the key version a process opened the ledger with
    pc,       \* where a process is in its call
    call,     \* the call it is serving
    copy,     \* what it read of the ledger
    answer,   \* what it will answer once it has unlocked
    granted,     \* what callers were granted
    calls     \* how many calls were made
ledgerVars == <<file, lock, opened, pc, call, copy, answer, granted, calls>>

Steps == {"idle", "asked", "read", "done"}
Holding == {"read", "done"}
Grants == {"AUTHENTICATED", "AUTHORIZED"}
NoAnswer == [what |-> "none", of |-> {}]
Answer == [what : Words, of : SUBSET Attestation] \cup {NoAnswer}

LedgerTypeOK ==
    /\ file \in Ledger \cup {Absent} /\ lock \in Process \cup {Nobody}
    /\ opened \in [Process -> Keys \cup {NoKey}] /\ pc \in [Process -> Steps]
    /\ call \in [Process -> Asked \cup {NoCall}]
    /\ copy \in [Process -> Ledger \cup {Absent}]
    /\ answer \in [Process -> Answer]
    /\ granted \subseteq [to : Asked, answer : Answer]
    /\ calls \in Nat

-----------------------------------------------------------------------------
(* Before the lock.                                                        *)

\* validateIssueInput: a window that ends, within the longest lifetime
IssueInputIsValid(ch) == ch.from < ch.until /\ ch.until - ch.from <= MaxLifetime

\* the text is the one the event was signed for, by the key in use; a missing
\* signature passes here and is only held against the event under the lock
EventIsGenuine(r, key) ==
    /\ r.text = r.event.content /\ r.event.key = key /\ r.event.signature # "forged"

Admitted(r, key) ==
    CASE r.op = "open" -> key = NoKey
      [] r.op = "issue" -> key # NoKey /\ IssueInputIsValid(r.challenge)
      [] r.op = "evaluate" -> key # NoKey /\ EventIsGenuine(r, key)
      [] OTHER -> key # NoKey

-----------------------------------------------------------------------------
(* Under the lock: what an operation answers, and the ledger it writes.    *)

Says(l, what) == [ledger |-> l, answer |-> [what |-> what, of |-> {}]]
Attests(l, what, a) == [ledger |-> l, answer |-> [what |-> what, of |-> {a}]]

\* an opening that never looks at what is there
OpenLedgerAnew(l, key) ==
    Says(Empty(key), "OPENED")

OpenLedger(l, key) ==
    CASE l = Absent -> Says(Empty(key), "OPENED")
      [] l # Absent /\ l.key = key -> Says(l, "OPENED")
      [] OTHER -> Says(l, "ERROR")

IssueChallenge(l, ch) ==
    CASE \E old \in l.challenges : old.id = ch.id ->
            Says(l, IF ch \in l.challenges THEN "ISSUED_BEFORE" ELSE "ERROR")
      [] \E old \in l.challenges : old.nonce = ch.nonce -> Says(l, "ERROR")
      [] OTHER -> Says([l EXCEPT !.challenges = @ \cup {ch}], "ISSUED")

InContext(e, ch) == e.party = ch.party /\ e.reply = ch.prompt
InTime(e, ch) == ch.from <= e.at /\ e.at <= ch.until
Confirms(e, a) == a.event.id = e.id /\ a.event.content = e.content

\* an event that is not looked up among the bindings
AttestUnbound(l, ch, e) ==
    LET before == {a \in l.attestations : a.challenge.id = ch.id}
        new == [challenge |-> ch, event |-> e]
    IN IF before # {} THEN Says(l, "ERROR")
       ELSE Attests([l EXCEPT !.attestations = @ \cup {new}], "AUTHENTICATED", new)

\* an event confirms one proposal, a proposal is confirmed by one event
Attest(l, ch, e) ==
    LET before == {a \in l.attestations : a.challenge.id = ch.id}
        bound == {b \in l.bindings : b.event = e.id}
        new == [challenge |-> ch, event |-> e]
        binding == [event |-> e.id, content |-> e.content, confirmation |-> ch.id]
    IN CASE before # {} -> LET a == CHOOSE a \in before : TRUE IN
                           IF Confirms(e, a) THEN Attests(l, "AUTHENTICATED", a)
                           ELSE Says(l, "ERROR")
         [] before = {} /\ bound \ {binding} # {} -> Says(l, "ERROR")
         [] OTHER -> Attests([l EXCEPT !.attestations = @ \cup {new},
                                       !.bindings = (@ \ bound) \cup {binding}],
                             "AUTHENTICATED", new)

EvaluateConfirmation(l, r) ==
    LET issued == {ch \in l.challenges : ch.id = r.id}
        ch == CHOOSE x \in issued : TRUE
    IN CASE r.text \notin Affirmative -> Says(l, "COMMON")
         [] r.text \in Affirmative /\ issued = {} -> Says(l, "COMMON")
         [] OTHER ->
              CASE ~InContext(r.event, ch) -> Says(l, "COMMON")
                [] InContext(r.event, ch)
                   /\ (r.event.signature = "none" \/ ~InTime(r.event, ch)) ->
                        Says(l, "CONTEXTUAL")
                [] OTHER -> Attest(l, ch, r.event)

AuthorizeWouldCall(l, r) ==
    LET a == r.attestation IN
    IF /\ \E ch \in l.challenges :
            ch.id = r.id /\ r.party = ch.party /\ r.proposal = ch.proposal
       /\ a \in l.attestations /\ a.challenge.id = r.id
       /\ r.party = a.challenge.party /\ r.proposal = a.challenge.proposal
    THEN Attests(l, "AUTHORIZED", a)
    ELSE Says(l, "ERROR")

Served(l, r) ==
    CASE r.op = "open" -> OpenLedger(l, r.key)
      [] r.op = "issue" -> IssueChallenge(l, r.challenge)
      [] r.op = "evaluate" -> EvaluateConfirmation(l, r)
      [] r.op = "authorize" -> AuthorizeWouldCall(l, r)

-----------------------------------------------------------------------------
LedgerInit ==
    /\ file = Absent /\ lock = Nobody
    /\ opened = [p \in Process |-> NoKey] /\ pc = [p \in Process |-> "idle"]
    /\ call = [p \in Process |-> NoCall] /\ copy = [p \in Process |-> Absent]
    /\ answer = [p \in Process |-> NoAnswer] /\ granted = {} /\ calls = 0

Ask(p, r) ==
    /\ pc[p] = "idle" /\ calls < MaxCalls /\ Admitted(r, opened[p])
    /\ pc' = [pc EXCEPT ![p] = "asked"] /\ call' = [call EXCEPT ![p] = r]
    /\ calls' = calls + 1
    /\ UNCHANGED <<file, lock, opened, copy, answer, granted>>

Reads(p) ==
    /\ pc[p] = "asked"
    /\ lock' = p /\ pc' = [pc EXCEPT ![p] = "read"]
    /\ copy' = [copy EXCEPT ![p] = file]
    /\ UNCHANGED <<file, opened, call, answer, granted, calls>>

\* withLock: nobody else is between its lock and its unlock; the ledger is read
EnterAnyway(p) == Reads(p)
Enter(p) == lock = Nobody /\ Reads(p)

\* the decision is taken on the copy; the new ledger replaces the file by a rename
Serve(p) ==
    LET result == Served(copy[p], call[p]) IN
    /\ pc[p] = "read"
    /\ file' = IF result.ledger = copy[p] THEN file ELSE result.ledger
    /\ answer' = [answer EXCEPT ![p] = result.answer]
    /\ pc' = [pc EXCEPT ![p] = "done"]
    /\ UNCHANGED <<lock, opened, call, copy, granted, calls>>

Granted(p) == IF answer[p].what \in Grants THEN {[to |-> call[p], answer |-> answer[p]]}
              ELSE {}

Answers(p) ==
    /\ pc[p] = "done" /\ pc' = [pc EXCEPT ![p] = "idle"]
    /\ granted' = granted \cup Granted(p)
    /\ opened' = IF answer[p].what = "OPENED" THEN [opened EXCEPT ![p] = call[p].key]
                 ELSE opened
    /\ call' = [call EXCEPT ![p] = NoCall] /\ copy' = [copy EXCEPT ![p] = Absent]
    /\ answer' = [answer EXCEPT ![p] = NoAnswer]
    /\ UNCHANGED <<file, calls>>

\* finally: the lock is freed whether the operation answered or threw
UnlockUnlessError(p) ==
    Answers(p) /\ lock' = (IF answer[p].what = "ERROR" THEN lock ELSE Nobody)
Unlock(p) == Answers(p) /\ lock' = Nobody

\* the process dies: whoever called it hears nothing, the system frees the lock
Crash(p) ==
    /\ pc[p] \in {"asked"} \cup Holding
    /\ lock' = (IF lock = p THEN Nobody ELSE lock)
    /\ opened' = [opened EXCEPT ![p] = NoKey] /\ pc' = [pc EXCEPT ![p] = "idle"]
    /\ call' = [call EXCEPT ![p] = NoCall] /\ copy' = [copy EXCEPT ![p] = Absent]
    /\ answer' = [answer EXCEPT ![p] = NoAnswer]
    /\ UNCHANGED <<file, granted, calls>>

LedgerNext == \E p \in Process :
    \/ \E r \in Asked : Ask(p, r)
    \/ Enter(p) \/ Serve(p) \/ Unlock(p) \/ Crash(p)

LedgerSpec == LedgerInit /\ [][LedgerNext]_ledgerVars
\* a call that was made is served: nothing but the lock makes a process wait
LedgerFairness == \A p \in Process : WF_ledgerVars(Enter(p) \/ Serve(p) \/ Unlock(p))
LedgerFairSpec == LedgerSpec /\ LedgerFairness

-----------------------------------------------------------------------------
(* What a confirmation is worth.                                           *)


\* An attestation stands for one "sim" to one proposal: the proposal was
\* issued, the event is signed, answers its prompt, came within its window and
\* confirms nothing else, and nothing else confirms the proposal
\* (evaluateConfirmation), whoever asked at the same time.
Sound(a, l) == /\ a.challenge \in l.challenges
               /\ a.event.signature = "valid" /\ a.event.content \in Affirmative
               /\ InContext(a.event, a.challenge) /\ InTime(a.event, a.challenge)
OneConfirmation ==
    /\ \A a \in file.attestations : Sound(a, file)
    /\ \A a, b \in file.attestations :
          a.challenge.id = b.challenge.id \/ a.event.id = b.event.id => a = b

\* Nothing the ledger holds is ever taken back or replaced: a process that
\* opens it, or writes a copy it read earlier, loses nobody's challenge or
\* attestation (withLock, atomicPrivateWrite).
Keeps(l, k) == /\ l.challenges \subseteq k.challenges
               /\ l.attestations \subseteq k.attestations
               /\ l.bindings \subseteq k.bindings
LedgerGrows == [][Keeps(file, file') /\ (file # Absent => file'.key = file.key)]_ledgerVars

\* What a caller was granted stays true: an attestation it was given, or an
\* authorisation it acts on, is still in the ledger, for the proposal it asked
\* about, after any crash.
AnswersStand ==
    \A t \in granted : t.answer.what \in Grants =>
        \E a \in t.answer.of :
            /\ a \in file.attestations /\ a.challenge.id = t.to.id
            /\ t.to.op = "authorize" => a.challenge.proposal = t.to.proposal
            /\ t.to.op = "evaluate" => Confirms(t.to.event, a)

\* Every call ends, also when others throw or die while they hold the lock
\* (withLock's finally).
CallsEnd == \A p \in Process : pc[p] = "asked" ~> pc[p] = "idle"
=============================================================================
