-------------------------- MODULE Gateways_proofs ---------------------------
(***************************************************************************)
(* Theorems of the three parts that say yes or no to others: the gateway of*)
(* actions, the ledger of confirmations and the gateway of official answers.*)
(***************************************************************************)
EXTENDS ActionGateway, ConfirmationLedger, AuthorityGateway,
        FiniteSetTheorems, WellFoundedInduction, TLAPS

-----------------------------------------------------------------------------
(***************************************************************************)
(* What an answer of the action gateway is worth, for any number of        *)
(* concurrent callers, requests, keys and restarts.                        *)
(***************************************************************************)

Asking == [at : {"hashing", "executing", "waiting"}, request : Request]

LEMMA RequestIsSome == NoRequest \notin Request /\ \A r \in Request : r.key \in RequestKeys
  BY GatewayAssumption DEF NoRequest, RequestKeys

LEMMA RecordTypes ==
    /\ \A o \in Outcomes : Without(o) \in ActionRecord /\ Without(o).receipt = NoRequest
    /\ \A o \in Outcomes, r \in Request :
          WithReceipt(o, r) \in ActionRecord /\ WithReceipt(o, r).receipt = r
    /\ \A x \in ActionRecord : Replay(x) \in ActionRecord /\ Replay(x).receipt = x.receipt
  BY DEF Without, WithReceipt, Replay, ActionRecord, Outcomes

\* What is remembered for a key: nothing, or a request of that key and its outcome.
Memories(k) == [request : {r \in Request : r.key = k}, record : ActionRecord] \cup {Nothing}

LEMMA NothingIsNoMemory ==
    ASSUME NEW k, NEW m \in Memories(k), m # Nothing
    PROVE  m.request \in Request /\ m.request.key = k /\ m.record \in ActionRecord
  BY DEF Memories

InvocationTypes ==
    /\ invocation \in [Caller -> Asking \cup {Unasked}]
    /\ recorded \in [RequestKeys -> [request : Request \cup {NoRequest},
                                     record : ActionRecord \cup {NoRecord}]]
    /\ \A k \in RequestKeys : recorded[k] \in Memories(k)
    /\ inflight \in [RequestKeys -> SUBSET Caller]
    /\ sent \subseteq Request
    /\ performed \in [RequestKeys -> Request \cup {NoRequest}]
    /\ answered \subseteq [request : Request, record : ActionRecord, era : 0..MaxEra]
    /\ era \in 0..MaxEra /\ invocations \in 0..MaxInvocations

LEMMA AskingIsSome ==
    ASSUME InvocationTypes, NEW c \in Caller, invocation[c].at # "idle"
    PROVE  /\ invocation[c] \in Asking /\ invocation[c].request \in Request
           /\ invocation[c].request.key \in RequestKeys
  BY RequestIsSome DEF InvocationTypes, Asking, Unasked

LEMMA NothingType == Nothing \in [request : Request \cup {NoRequest}, record : ActionRecord \cup {NoRecord}]
  BY DEF Nothing, NoRecord

LEMMA GatewayInitTypes == GatewayInit => InvocationTypes
  BY GatewayAssumption, NothingType DEF GatewayInit, InvocationTypes, Memories

\* The answer of c and what it leaves in the memory of the gateway.
LEMMA ReplyTypes ==
    ASSUME InvocationTypes, NEW c \in Caller, invocation[c].at # "idle",
           NEW record \in ActionRecord, Replies(c, record)
    PROVE  /\ invocation' \in [Caller -> Asking \cup {Unasked}]
           /\ answered' \subseteq [request : Request, record : ActionRecord, era : 0..MaxEra]
  BY AskingIsSome DEF InvocationTypes, Replies, Reply

LEMMA RememberTypes ==
    ASSUME InvocationTypes, NEW r \in Request, NEW record \in ActionRecord,
           recorded' = [recorded EXCEPT ![r.key] = [request |-> r, record |-> record]]
    PROVE  /\ recorded' \in [RequestKeys -> [request : Request \cup {NoRequest},
                                             record : ActionRecord \cup {NoRecord}]]
           /\ \A k \in RequestKeys : recorded'[k] \in Memories(k)
           /\ recorded'[r.key] = [request |-> r, record |-> record]
           /\ \A k \in RequestKeys \ {r.key} : recorded'[k] = recorded[k]
  <1> DEFINE m == [request |-> r, record |-> record]
  <1>1. /\ m \in [request : Request \cup {NoRequest}, record : ActionRecord \cup {NoRecord}]
        /\ m \in Memories(r.key) /\ r.key \in RequestKeys
    BY RequestIsSome DEF Memories
  <1> HIDE DEF m
  <1>2. recorded' = [recorded EXCEPT ![r.key] = m]
    BY DEF m
  <1>3. /\ recorded'[r.key] = m
        /\ \A k \in RequestKeys \ {r.key} : recorded'[k] = recorded[k]
    BY <1>1, <1>2 DEF InvocationTypes
  <1>4. \A k \in RequestKeys : recorded'[k] \in Memories(k)
    BY <1>1, <1>3 DEF InvocationTypes
  <1> QED
    BY <1>1, <1>2, <1>3, <1>4 DEF InvocationTypes, m

LEMMA MoveTypes ==
    ASSUME InvocationTypes, NEW c \in Caller, invocation[c].at # "idle",
           NEW stage \in {"hashing", "executing", "waiting"},
           invocation' = [invocation EXCEPT ![c].at = stage]
    PROVE  /\ invocation' \in [Caller -> Asking \cup {Unasked}]
           /\ invocation'[c] = [at |-> stage, request |-> invocation[c].request]
           /\ \A d \in Caller \ {c} : invocation'[d] = invocation[d]
  <1>1. invocation[c] \in Asking
    BY AskingIsSome
  <1>2. [invocation[c] EXCEPT !.at = stage] = [at |-> stage, request |-> invocation[c].request]
    BY <1>1 DEF Asking
  <1>3. [at |-> stage, request |-> invocation[c].request] \in Asking
    BY <1>1 DEF Asking
  <1> QED
    BY <1>2, <1>3 DEF InvocationTypes

LEMMA SettleTypes ==
    ASSUME InvocationTypes, NEW c \in Caller, NEW record \in ActionRecord, Settles(c, record)
    PROVE  InvocationTypes'
  <1>1. invocation[c].request \in Request /\ invocation[c].at # "idle"
    BY AskingIsSome DEF Settles
  <1>2. inflight' \in [RequestKeys -> SUBSET Caller]
    BY DEF InvocationTypes, Settles
  <1> QED
    BY <1>1, <1>2, ReplyTypes, RememberTypes DEF InvocationTypes, Settles

LEMMA GatewayNextTypes ==
    ASSUME InvocationTypes, [GatewayNext]_gatewayVars
    PROVE  InvocationTypes'
  <1>1. ASSUME NEW c \in Caller, NEW r \in Request, Invoke(c, r) PROVE InvocationTypes'
    <2>1. invocations' \in 0..MaxInvocations
      BY <1>1, GatewayAssumption DEF Invoke, InvocationTypes
    <2>2. CASE IsValid(r)
      <3>1. [at |-> "hashing", request |-> r] \in Asking
        BY DEF Asking
      <3> QED
        BY <1>1, <2>1, <2>2, <3>1 DEF Invoke, InvocationTypes
    <2>3. CASE ~ IsValid(r)
      <3>1. Without("denied") \in ActionRecord
        BY RecordTypes DEF Outcomes
      <3>2. Reply(r, Without("denied")) \in [request : Request, record : ActionRecord, era : 0..MaxEra]
        BY <3>1 DEF Reply, InvocationTypes
      <3> QED
        BY <1>1, <2>1, <2>3, <3>2 DEF Invoke, InvocationTypes
    <2> QED
      BY <2>2, <2>3
  <1>2. ASSUME NEW c \in Caller,
               RefuseReuse(c) \/ ReplayPrior(c) \/ Handed(c) \/ Deny(c)
        PROVE  InvocationTypes'
    <2> DEFINE r == invocation[c].request
    <2>1. r \in Request /\ r.key \in RequestKeys /\ invocation[c].at # "idle"
      BY <1>2, AskingIsSome DEF RefuseReuse, ReplayPrior, Handed, Deny
    <2>2. Without("denied") \in ActionRecord
      BY RecordTypes DEF Outcomes
    <2>3. recorded[r.key] # Nothing => Replay(recorded[r.key].record) \in ActionRecord
      BY <2>1, NothingIsNoMemory, RecordTypes DEF InvocationTypes
    <2>4. CASE RefuseReuse(c)
      BY <2>1, <2>2, <2>4, ReplyTypes DEF RefuseReuse, InvocationTypes
    <2>5. CASE ReplayPrior(c) \/ Handed(c)
      BY <2>1, <2>3, <2>5, ReplyTypes DEF ReplayPrior, Handed, InvocationTypes
    <2>6. CASE Deny(c)
      BY <2>1, <2>2, <2>6, ReplyTypes, RememberTypes DEF Deny, InvocationTypes
    <2> QED
      BY <1>2, <2>4, <2>5, <2>6
  <1>3. ASSUME NEW c \in Caller, AwaitInflight(c) PROVE InvocationTypes'
    BY <1>3, MoveTypes DEF AwaitInflight, InvocationTypes
  <1>4. ASSUME NEW c \in Caller, Execute(c) PROVE InvocationTypes'
    <2>1. invocation[c].request \in Request
      BY <1>4, AskingIsSome DEF Execute, Hands
    <2>2. inflight' \in [RequestKeys -> SUBSET Caller] /\ sent' \subseteq Request
      BY <1>4, <2>1 DEF Execute, Hands, InvocationTypes
    <2> QED
      BY <1>4, <2>2, MoveTypes DEF Execute, Hands, InvocationTypes
  <1>5. ASSUME NEW c \in Caller, ExecutorAccepts(c) \/ ExecutorFails(c) PROVE InvocationTypes'
    <2>1. invocation[c].request \in Request
      BY <1>5, AskingIsSome DEF ExecutorAccepts, ExecutorFails, Settles
    <2>2. /\ WithReceipt("executed", invocation[c].request) \in ActionRecord
          /\ Without("proposed") \in ActionRecord
      BY <2>1, RecordTypes DEF Outcomes
    <2> QED
      BY <1>5, <2>2, SettleTypes DEF ExecutorAccepts, ExecutorFails
  <1>6. ASSUME NEW r \in Request, Perform(r) PROVE InvocationTypes'
    BY <1>6 DEF Perform, InvocationTypes
  <1>7. CASE RestartGateway
    <2>1. era' \in 0..MaxEra
      BY <1>7, GatewayAssumption DEF RestartGateway, InvocationTypes
    <2> QED
      BY <1>7, <2>1, NothingType DEF RestartGateway, InvocationTypes, Memories
  <1>8. CASE UNCHANGED gatewayVars
    BY <1>8 DEF gatewayVars, InvocationTypes
  <1> QED
    BY <1>1, <1>2, <1>3, <1>4, <1>5, <1>6, <1>7, <1>8 DEF GatewayNext

-----------------------------------------------------------------------------
(* Why an answer is final.  The memory of a key is written once, by the    *)
(* only caller that executes it or by a denial while nobody does; so an    *)
(* answer without a receipt is either about a request the gateway can      *)
(* never execute in this process, or comes from that memory.               *)

RecordOk(r, record) ==
    /\ record.receipt # NoRequest =>
          record.receipt = r /\ performed[r.key] = r /\ IsValid(r) /\ IsPermitted(r)
    /\ record.receipt = NoRequest => record.outcome \notin Granting

RecordsOk ==
    /\ \A k \in RequestKeys :
          recorded[k] # Nothing => RecordOk(recorded[k].request, recorded[k].record)
    /\ \A a \in answered : RecordOk(a.request, a.record)

StagesOk ==
    \A c \in Caller : invocation[c].at # "idle" =>
        /\ IsValid(invocation[c].request)
        /\ invocation[c].at = "executing" => IsPermitted(invocation[c].request)

Executing(c, k) == invocation[c].at = "executing" /\ invocation[c].request.key = k
OneWriter ==
    /\ \A k \in RequestKeys, c \in Caller : c \in inflight[k] <=> Executing(c, k)
    /\ \A k \in RequestKeys : recorded[k] # Nothing => inflight[k] = {}
    /\ \A k \in RequestKeys : \A c, d \in inflight[k] : c = d

WaitersOk ==
    \A c \in Caller : invocation[c].at = "waiting" =>
        LET r == invocation[c].request IN
        /\ recorded[r.key] # Nothing => recorded[r.key].request = r
        /\ recorded[r.key] = Nothing =>
              \E d \in inflight[r.key] : invocation[d].request = r

\* This process will not report an effect of r any more.
Barred(r) ==
    \/ ~ IsValid(r)
    \/ /\ recorded[r.key] # Nothing
       /\ recorded[r.key].request # r \/ recorded[r.key].record.receipt = NoRequest
    \/ /\ recorded[r.key] = Nothing
       /\ \E d \in inflight[r.key] : invocation[d].request # r
AnswersFinal ==
    \A a \in answered :
        /\ a.era =< era
        /\ a.era = era /\ a.record.receipt # NoRequest =>
              /\ recorded[a.request.key] # Nothing
              /\ recorded[a.request.key].request = a.request
              /\ recorded[a.request.key].record.receipt = a.record.receipt
        /\ a.era = era /\ a.record.receipt = NoRequest => Barred(a.request)

GatewayInv ==
    InvocationTypes /\ RecordsOk /\ StagesOk /\ OneWriter /\ WaitersOk /\ AnswersFinal /\ OneVerdict

LEMMA GatewayInitInv == GatewayInit => GatewayInv
  <1> SUFFICES ASSUME GatewayInit PROVE GatewayInv
    OBVIOUS
  <1>1. InvocationTypes
    BY GatewayInitTypes
  <1>2. \A c \in Caller : invocation[c].at = "idle"
    BY DEF GatewayInit, Unasked
  <1> QED
    BY <1>1, <1>2 DEF GatewayInit, GatewayInv, RecordsOk, StagesOk, OneWriter, Executing,
                      WaitersOk, AnswersFinal, OneVerdict

\* What the types say of an answer.
LEMMA AnswerTypes ==
    ASSUME InvocationTypes, NEW a \in answered
    PROVE  /\ a.request \in Request /\ a.request.key \in RequestKeys
           /\ a.record \in ActionRecord /\ a.era \in 0..MaxEra /\ a.request # NoRequest
  BY RequestIsSome DEF InvocationTypes

\* OneVerdict after a step that answers at most one caller, once the answers
\* agree with the memory again.
LEMMA VerdictStays ==
    ASSUME InvocationTypes', RecordsOk', AnswersFinal', OneVerdict, AnswersFinal, InvocationTypes, era' = era,
           \A a \in answered' : a \in answered \/ a.era = era
    PROVE  OneVerdict'
  <1> SUFFICES ASSUME NEW a \in answered', NEW b \in answered',
                      a.request = b.request, a.era = b.era
               PROVE  a.record.receipt = b.record.receipt
    BY DEF OneVerdict
  <1>1. CASE a.era = era
    <2>1. a.era = era' /\ b.era = era'
      BY <1>1
    <2>2. ASSUME NEW x \in answered', NEW y \in answered', x.request = y.request,
                 x.era = era', y.era = era', x.record.receipt # NoRequest
          PROVE  x.record.receipt = y.record.receipt
      <3>1. IsValid(x.request)
        BY <2>2 DEF RecordsOk, RecordOk
      <3>2. /\ recorded'[x.request.key] # Nothing
            /\ recorded'[x.request.key].request = x.request
            /\ recorded'[x.request.key].record.receipt = x.record.receipt
        BY <2>2 DEF AnswersFinal
      <3>3. ~ Barred(x.request)'
        BY <2>2, <3>1, <3>2 DEF Barred
      <3>4. y.record.receipt # NoRequest
        BY <2>2, <3>3 DEF AnswersFinal
      <3> QED
        BY <2>2, <3>2, <3>4 DEF AnswersFinal
    <2> QED
      BY <2>1, <2>2
  <1>2. CASE a.era # era
    BY <1>2 DEF OneVerdict
  <1> QED
    BY <1>1, <1>2

\* A step that takes c from one stage to another leaves the others where they are.
LEMMA ReplyMoves ==
    ASSUME InvocationTypes, NEW c \in Caller, NEW record, Replies(c, record)
    PROVE  /\ invocation'[c] = Unasked /\ invocation'[c].at = "idle"
           /\ \A d \in Caller \ {c} : invocation'[d] = invocation[d]
           /\ answered' = answered \cup {Reply(invocation[c].request, record)}
  BY DEF InvocationTypes, Replies, Unasked

LEMMA BarredStays ==
    ASSUME OneWriter, InvocationTypes, NEW r \in Request, Barred(r),
           recorded'[r.key] = recorded[r.key],
           \A d \in Caller : Executing(d, r.key) => invocation'[d] = invocation[d],
           inflight[r.key] \subseteq inflight'[r.key]
    PROVE  Barred(r)'
  <1>1. r.key \in RequestKeys
    BY RequestIsSome
  <1> QED
    BY <1>1 DEF Barred, OneWriter, InvocationTypes

\* An answer that the memory of the gateway backs, or that nothing it
\* remembers contradicts, keeps the invariant.
LEMMA AnswerKeeps ==
    ASSUME GatewayInv, InvocationTypes', NEW c \in Caller, invocation[c].at \in {"hashing", "waiting"},
           NEW record \in ActionRecord, Replies(c, record),
           UNCHANGED <<recorded, inflight, performed, era>>,
           RecordOk(invocation[c].request, record),
           record.receipt # NoRequest =>
              /\ recorded[invocation[c].request.key] # Nothing
              /\ recorded[invocation[c].request.key].request = invocation[c].request
              /\ recorded[invocation[c].request.key].record.receipt = record.receipt,
           record.receipt = NoRequest => Barred(invocation[c].request)
    PROVE  GatewayInv'
  <1> USE DEF GatewayInv
  <1>0. PICK x : x = Reply(invocation[c].request, record)
    OBVIOUS
  <1>1. /\ invocation'[c] = Unasked /\ invocation'[c].at = "idle"
        /\ \A d \in Caller \ {c} : invocation'[d] = invocation[d]
        /\ answered' = answered \cup {x}
    BY <1>0, ReplyMoves
  <1>2. x.request = invocation[c].request /\ x.record = record /\ x.era = era
    BY <1>0 DEF Reply
  <1>3. invocation[c].request \in Request /\ invocation[c].request.key \in RequestKeys
    BY AskingIsSome
  <1>4. RecordsOk'
    <2>1. \A k \in RequestKeys :
             recorded'[k] # Nothing => RecordOk(recorded[k].request, recorded[k].record)'
      BY DEF RecordsOk, RecordOk, IsValid, IsPermitted
    <2>2. \A a \in answered : RecordOk(a.request, a.record)'
      BY DEF RecordsOk, RecordOk, IsValid, IsPermitted
    <2>3. RecordOk(x.request, x.record)'
      BY <1>2 DEF RecordOk, IsValid, IsPermitted
    <2> QED
      BY <1>1, <2>1, <2>2, <2>3 DEF RecordsOk
  <1>5. StagesOk'
    BY <1>1 DEF StagesOk
  <1>6. OneWriter'
    BY <1>1 DEF OneWriter, Executing
  <1>7. WaitersOk'
    <2> SUFFICES ASSUME NEW d \in Caller, invocation'[d].at = "waiting"
                 PROVE  LET r == invocation'[d].request IN
                        /\ recorded'[r.key] # Nothing => recorded'[r.key].request = r
                        /\ recorded'[r.key] = Nothing =>
                              \E e \in inflight'[r.key] : invocation'[e].request = r
      BY DEF WaitersOk
    <2>1. invocation'[d] = invocation[d] /\ d # c
      BY <1>1
    <2>2. invocation[d].request.key \in RequestKeys
      BY <2>1, AskingIsSome
    <2> QED
      BY <1>1, <2>1, <2>2 DEF WaitersOk, OneWriter, Executing, InvocationTypes
  <1>8. AnswersFinal'
    <2>1. ASSUME NEW r \in Request, Barred(r) PROVE Barred(r)'
      BY <1>1, <2>1, RequestIsSome, BarredStays DEF Executing
    <2>2. ASSUME NEW a \in answered
          PROVE  /\ a.era =< era'
                 /\ a.era = era' /\ a.record.receipt # NoRequest =>
                       /\ recorded'[a.request.key] # Nothing
                       /\ recorded'[a.request.key].request = a.request
                       /\ recorded'[a.request.key].record.receipt = a.record.receipt
                 /\ a.era = era' /\ a.record.receipt = NoRequest => Barred(a.request)'
      BY <2>1, AnswerTypes DEF AnswersFinal
    <2>3. era =< era
      BY DEF InvocationTypes
    <2> QED
      BY <1>1, <1>2, <1>3, <2>1, <2>2, <2>3 DEF AnswersFinal
  <1>9. OneVerdict'
    BY <1>1, <1>2, <1>4, <1>8, VerdictStays
  <1> QED
    BY <1>4, <1>5, <1>6, <1>7, <1>8, <1>9

\* An outcome that is remembered for a free key and answered keeps the invariant.
LEMMA RememberKeeps ==
    ASSUME GatewayInv, InvocationTypes', NEW c \in Caller, NEW r \in Request, invocation[c].request = r,
           invocation[c].at # "idle",
           NEW record \in ActionRecord, Replies(c, record),
           recorded' = [recorded EXCEPT ![r.key] = [request |-> r, record |-> record]],
           recorded[r.key] = Nothing, inflight[r.key] \subseteq {c}, inflight'[r.key] = {},
           invocation[c].at = "executing" \/ inflight[r.key] = {},
           \A k \in RequestKeys \ {r.key} : inflight'[k] = inflight[k],
           UNCHANGED <<performed, era>>, RecordOk(r, record)
    PROVE  GatewayInv'
  <1> USE DEF GatewayInv
  <1>0. PICK x : x = Reply(invocation[c].request, record)
    OBVIOUS
  <1>1. /\ invocation'[c] = Unasked /\ invocation'[c].at = "idle"
        /\ \A d \in Caller \ {c} : invocation'[d] = invocation[d]
        /\ answered' = answered \cup {x}
    BY <1>0, ReplyMoves
  <1>2. x.request = r /\ x.record = record /\ x.era = era
    BY <1>0 DEF Reply
  <1>3. PICK m : m = [request |-> r, record |-> record]
    OBVIOUS
  <1>4. /\ r.key \in RequestKeys /\ r # NoRequest
        /\ m.request = r /\ m.record = record /\ m # Nothing
        /\ recorded'[r.key] = m
        /\ \A k \in RequestKeys \ {r.key} : recorded'[k] = recorded[k]
    BY <1>3, RequestIsSome, RememberTypes DEF Nothing
  <1>5. RecordsOk'
    <2>1. ASSUME NEW k \in RequestKeys, recorded'[k] # Nothing
          PROVE  RecordOk(recorded[k].request, recorded[k].record)'
      <3>1. CASE k = r.key
        BY <3>1, <1>4 DEF RecordOk, IsValid, IsPermitted
      <3>2. CASE k # r.key
        BY <2>1, <3>2, <1>4 DEF RecordsOk, RecordOk, IsValid, IsPermitted
      <3> QED
        BY <3>1, <3>2
    <2>2. \A a \in answered : RecordOk(a.request, a.record)'
      BY DEF RecordsOk, RecordOk, IsValid, IsPermitted
    <2>3. RecordOk(x.request, x.record)'
      BY <1>2 DEF RecordOk, IsValid, IsPermitted
    <2> QED
      BY <1>1, <2>1, <2>2, <2>3 DEF RecordsOk
  <1>6. StagesOk'
    BY <1>1 DEF StagesOk
  <1>7. OneWriter'
    <2>1. ASSUME NEW k \in RequestKeys, NEW d \in Caller
          PROVE  d \in inflight'[k] <=> Executing(d, k)'
      <3>1. CASE d = c
        BY <3>1, <1>1, <1>4 DEF OneWriter, Executing
      <3>2. CASE d # c
        BY <3>2, <1>1, <1>4 DEF OneWriter, Executing
      <3> QED
        BY <3>1, <3>2
    <2>2. \A k \in RequestKeys : recorded'[k] # Nothing => inflight'[k] = {}
      BY <1>4 DEF OneWriter
    <2>3. \A k \in RequestKeys : \A d, e \in inflight'[k] : d = e
      BY <1>4 DEF OneWriter
    <2> QED
      BY <2>1, <2>2, <2>3 DEF OneWriter
  <1>8. WaitersOk'
    <2> SUFFICES ASSUME NEW d \in Caller, invocation'[d].at = "waiting"
                 PROVE  LET q == invocation'[d].request IN
                        /\ recorded'[q.key] # Nothing => recorded'[q.key].request = q
                        /\ recorded'[q.key] = Nothing =>
                              \E e \in inflight'[q.key] : invocation'[e].request = q
      BY DEF WaitersOk
    <2>1. invocation'[d] = invocation[d] /\ d # c
      BY <1>1
    <2>2. invocation[d].request.key \in RequestKeys
      BY <2>1, AskingIsSome
    <2>3. CASE invocation[d].request.key = r.key
      BY <1>4, <2>1, <2>3 DEF WaitersOk
    <2>4. CASE invocation[d].request.key # r.key
      BY <1>1, <1>4, <2>1, <2>2, <2>4 DEF WaitersOk, OneWriter, Executing, InvocationTypes
    <2> QED
      BY <2>3, <2>4
  <1>9. AnswersFinal'
    <2>1. ASSUME NEW q \in Request, Barred(q) PROVE Barred(q)'
      <3>1. CASE q.key = r.key
        BY <2>1, <3>1, <1>4 DEF Barred, IsValid
      <3>2. CASE q.key # r.key
        <4>1. q.key \in RequestKeys
          BY RequestIsSome
        <4>2. \A d \in Caller : Executing(d, q.key) => invocation'[d] = invocation[d]
          BY <1>1, <3>2 DEF Executing
        <4> QED
          BY <2>1, <3>2, <1>4, <4>1, <4>2, BarredStays
      <3> QED
        BY <3>1, <3>2
    <2>2. ASSUME NEW a \in answered, a.era = era, a.record.receipt # NoRequest
          PROVE  a.request.key # r.key
      BY <2>2 DEF AnswersFinal
    <2>3. ASSUME NEW a \in answered
          PROVE  /\ a.era =< era'
                 /\ a.era = era' /\ a.record.receipt # NoRequest =>
                       /\ recorded'[a.request.key] # Nothing
                       /\ recorded'[a.request.key].request = a.request
                       /\ recorded'[a.request.key].record.receipt = a.record.receipt
                 /\ a.era = era' /\ a.record.receipt = NoRequest => Barred(a.request)'
      BY <1>4, <2>1, <2>2, AnswerTypes DEF AnswersFinal
    <2>4. record.receipt = NoRequest => Barred(r)'
      BY <1>4 DEF Barred
    <2>5. era =< era
      BY DEF InvocationTypes
    <2> QED
      BY <1>1, <1>2, <1>4, <2>3, <2>4, <2>5 DEF AnswersFinal
  <1>10. OneVerdict'
    BY <1>1, <1>2, <1>5, <1>9, VerdictStays
  <1> QED
    BY <1>5, <1>6, <1>7, <1>8, <1>9, <1>10

\* A step in which c asks, awaits or hands its request over keeps the
\* invariant when it starts to execute only a free key.
LEMMA MoveKeeps ==
    ASSUME GatewayInv, InvocationTypes', NEW c \in Caller, NEW r \in Request,
           NEW stage \in {"hashing", "executing", "waiting"},
           invocation[c].at \in {"idle", "hashing"},
           invocation'[c] = [at |-> stage, request |-> r],
           \A d \in Caller \ {c} : invocation'[d] = invocation[d],
           UNCHANGED <<recorded, performed, answered, era>>,
           IsValid(r),
           stage = "executing" =>
              /\ IsPermitted(r) /\ inflight[r.key] = {} /\ recorded[r.key] = Nothing
              /\ inflight' = [inflight EXCEPT ![r.key] = {c}],
           stage # "executing" => UNCHANGED inflight,
           stage = "waiting" =>
              recorded[r.key] = Nothing /\ \E d \in inflight[r.key] : invocation[d].request = r
    PROVE  GatewayInv'
  <1> USE DEF GatewayInv
  <1>1. /\ r.key \in RequestKeys
        /\ invocation'[c].at = stage /\ invocation'[c].request = r
        /\ \A k \in RequestKeys : c \notin inflight[k]
    BY RequestIsSome DEF OneWriter, Executing
  <1>2. \A k \in RequestKeys :
           inflight'[k] = IF stage = "executing" /\ k = r.key THEN {c} ELSE inflight[k]
    BY <1>1 DEF InvocationTypes
  <1>3. \A k \in RequestKeys : inflight[k] \subseteq Caller \ {c}
    BY <1>1 DEF InvocationTypes
  <1>4. RecordsOk'
    BY DEF RecordsOk, RecordOk, IsValid, IsPermitted
  <1>5. StagesOk'
    BY <1>1 DEF StagesOk, IsValid, IsPermitted
  <1>6. OneWriter'
    <2>1. ASSUME NEW k \in RequestKeys, NEW d \in Caller
          PROVE  d \in inflight'[k] <=> Executing(d, k)'
      <3>1. CASE d = c
        BY <3>1, <1>1, <1>2 DEF OneWriter, Executing
      <3>2. CASE d # c
        BY <3>2, <1>1, <1>2 DEF OneWriter, Executing
      <3> QED
        BY <3>1, <3>2
    <2>2. \A k \in RequestKeys : recorded'[k] # Nothing => inflight'[k] = {}
      BY <1>2 DEF OneWriter
    <2>3. \A k \in RequestKeys : \A d, e \in inflight'[k] : d = e
      BY <1>2 DEF OneWriter
    <2> QED
      BY <2>1, <2>2, <2>3 DEF OneWriter
  <1>7. WaitersOk'
    <2> SUFFICES ASSUME NEW d \in Caller, invocation'[d].at = "waiting"
                 PROVE  LET q == invocation'[d].request IN
                        /\ recorded'[q.key] # Nothing => recorded'[q.key].request = q
                        /\ recorded'[q.key] = Nothing =>
                              \E e \in inflight'[q.key] : invocation'[e].request = q
      BY DEF WaitersOk
    <2>1. CASE d = c
      BY <1>1, <1>2, <1>3, <2>1
    <2>2. CASE d # c
      <3>1. invocation'[d] = invocation[d] /\ invocation[d].request.key \in RequestKeys
        BY <2>2, AskingIsSome
      <3> QED
        BY <1>1, <1>2, <1>3, <3>1 DEF WaitersOk
    <2> QED
      BY <2>1, <2>2
  <1>8. AnswersFinal'
    <2>1. ASSUME NEW q \in Request, Barred(q) PROVE Barred(q)'
      <3>1. /\ q.key \in RequestKeys /\ recorded'[q.key] = recorded[q.key]
            /\ inflight[q.key] \subseteq inflight'[q.key]
        BY <1>2, RequestIsSome
      <3>2. \A d \in Caller : Executing(d, q.key) => invocation'[d] = invocation[d]
        BY DEF Executing
      <3> QED
        BY <2>1, <3>1, <3>2, BarredStays
    <2> QED
      BY <2>1, AnswerTypes DEF AnswersFinal
  <1>9. OneVerdict'
    BY DEF OneVerdict
  <1> QED
    BY <1>4, <1>5, <1>6, <1>7, <1>8, <1>9

\* The refusal of a request that is not well formed.
LEMMA RefusalKeeps ==
    ASSUME GatewayInv, InvocationTypes', NEW c \in Caller, NEW r \in Request, Invoke(c, r), ~ IsValid(r)
    PROVE  GatewayInv'
  <1> USE DEF GatewayInv
  <1>0. PICK x : x = Reply(r, Without("denied"))
    OBVIOUS
  <1>1. /\ x.request = r /\ x.record.receipt = NoRequest /\ x.record.outcome = "denied"
        /\ x.era = era
    BY <1>0 DEF Reply, Without
  <1>2. answered' = answered \cup {x} /\ UNCHANGED <<invocation, recorded, inflight, performed, era>>
    BY <1>0 DEF Invoke
  <1>3. RecordsOk'
    <2>1. RecordOk(x.request, x.record)'
      BY <1>1 DEF RecordOk, Granting
    <2> QED
      BY <1>2, <2>1 DEF RecordsOk, RecordOk, IsValid, IsPermitted
  <1>4. StagesOk' /\ OneWriter' /\ WaitersOk'
    BY <1>2 DEF StagesOk, OneWriter, WaitersOk, Executing, IsValid, IsPermitted
  <1>5. AnswersFinal'
    <2>1. \A q : Barred(q) => Barred(q)'
      BY <1>2 DEF Barred, IsValid
    <2>2. Barred(r)' /\ era =< era
      BY DEF Barred, IsValid, InvocationTypes
    <2> QED
      BY <1>1, <1>2, <2>1, <2>2 DEF AnswersFinal
  <1>6. OneVerdict'
    BY <1>1, <1>2, <1>3, <1>5, VerdictStays
  <1> QED
    BY <1>3, <1>4, <1>5, <1>6

LEMMA GatewayNextInv ==
    ASSUME GatewayInv, [GatewayNext]_gatewayVars
    PROVE  GatewayInv'
  <1> USE DEF GatewayInv
  <1>0. InvocationTypes'
    BY GatewayNextTypes
  <1>1. ASSUME NEW c \in Caller, NEW r \in Request, Invoke(c, r) PROVE GatewayInv'
    <2>1. CASE IsValid(r)
      <3>1. /\ invocation'[c] = [at |-> "hashing", request |-> r]
            /\ \A d \in Caller \ {c} : invocation'[d] = invocation[d]
            /\ invocation[c].at = "idle"
        BY <1>1, <2>1 DEF Invoke, InvocationTypes, Unasked
      <3> QED
        BY <1>0, <1>1, <2>1, <3>1, MoveKeeps DEF Invoke
    <2>2. CASE ~ IsValid(r)
      BY <1>0, <1>1, <2>2, RefusalKeeps
    <2> QED
      BY <2>1, <2>2
  <1>2. ASSUME NEW c \in Caller, RefuseReuse(c) PROVE GatewayInv'
    <2> DEFINE r == invocation[c].request
    <2>1. /\ Without("denied") \in ActionRecord /\ Without("denied").receipt = NoRequest
          /\ Without("denied").outcome = "denied"
      BY RecordTypes DEF Outcomes, Without
    <2>2. RecordOk(r, Without("denied"))
      BY <2>1 DEF RecordOk, Granting
    <2>3. r \in Request /\ r.key \in RequestKeys
      BY <1>2, AskingIsSome DEF RefuseReuse
    <2>4. Barred(r)
      BY <1>2, <2>3 DEF RefuseReuse, KeyIsTaken, Barred, OneWriter
    <2> QED
      BY <1>0, <1>2, <2>1, <2>2, <2>4, AnswerKeeps DEF RefuseReuse
  <1>3. ASSUME NEW c \in Caller, ReplayPrior(c) \/ Handed(c) PROVE GatewayInv'
    <2>0. PICK r : r = invocation[c].request
      OBVIOUS
    <2>1. /\ r \in Request /\ r.key \in RequestKeys /\ recorded[r.key] # Nothing
          /\ recorded[r.key].request = r
      BY <1>3, <2>0, AskingIsSome DEF ReplayPrior, Handed, KeyIsTaken, WaitersOk
    <2>2. PICK m : m = recorded[r.key].record
      OBVIOUS
    <2>3. m \in ActionRecord /\ RecordOk(r, m)
      BY <2>1, <2>2, NothingIsNoMemory DEF RecordsOk, InvocationTypes
    <2>4. /\ Replay(m) \in ActionRecord /\ Replay(m).receipt = m.receipt
          /\ m.receipt = NoRequest => Replay(m) = m
      BY <2>3, RecordTypes DEF Replay
    <2>5. RecordOk(r, Replay(m))
      BY <2>3, <2>4 DEF RecordOk
    <2>6. m.receipt = NoRequest => Barred(r)
      BY <2>1, <2>2 DEF Barred
    <2>7. /\ invocation[c].at \in {"hashing", "waiting"} /\ Replies(c, Replay(m))
          /\ UNCHANGED <<recorded, inflight, performed, era>>
      BY <1>3, <2>0, <2>2 DEF ReplayPrior, Handed
    <2> QED
      BY <1>0, <2>0, <2>1, <2>2, <2>4, <2>5, <2>6, <2>7, AnswerKeeps
  <1>4. ASSUME NEW c \in Caller, AwaitInflight(c) PROVE GatewayInv'
    <2>0. PICK r : r = invocation[c].request
      OBVIOUS
    <2>1. r \in Request /\ r.key \in RequestKeys /\ IsValid(r)
      BY <1>4, <2>0, AskingIsSome DEF AwaitInflight, StagesOk
    <2>2. /\ invocation'[c] = [at |-> "waiting", request |-> r]
          /\ \A d \in Caller \ {c} : invocation'[d] = invocation[d]
      BY <1>4, <2>0, MoveTypes DEF AwaitInflight
    <2>3. recorded[r.key] = Nothing /\ \E d \in inflight[r.key] : invocation[d].request = r
      BY <1>4, <2>0 DEF AwaitInflight, KeyIsTaken
    <2> QED
      BY <1>0, <1>4, <2>1, <2>2, <2>3, MoveKeeps DEF AwaitInflight
  <1>5. ASSUME NEW c \in Caller, Deny(c) PROVE GatewayInv'
    <2>0. PICK r : r = invocation[c].request
      OBVIOUS
    <2>1. r \in Request /\ r.key \in RequestKeys
      BY <1>5, <2>0, AskingIsSome DEF Deny
    <2>2. /\ Without("denied") \in ActionRecord /\ Without("denied").receipt = NoRequest
          /\ Without("denied").outcome = "denied"
      BY RecordTypes DEF Outcomes, Without
    <2>3. RecordOk(r, Without("denied"))
      BY <2>2 DEF RecordOk, Granting
    <2> QED
      BY <1>0, <1>5, <2>0, <2>1, <2>2, <2>3, RememberKeeps DEF Deny, IsFree
  <1>6. ASSUME NEW c \in Caller, Execute(c) PROVE GatewayInv'
    <2>0. PICK r : r = invocation[c].request
      OBVIOUS
    <2>1. r \in Request /\ r.key \in RequestKeys /\ IsValid(r) /\ IsPermitted(r)
      BY <1>6, <2>0, AskingIsSome DEF Execute, Hands, StagesOk
    <2>2. /\ invocation'[c] = [at |-> "executing", request |-> r]
          /\ \A d \in Caller \ {c} : invocation'[d] = invocation[d]
      BY <1>6, <2>0, MoveTypes DEF Execute, Hands
    <2>3. /\ inflight[r.key] = {} /\ recorded[r.key] = Nothing
          /\ inflight' = [inflight EXCEPT ![r.key] = {c}]
      BY <1>6, <2>0 DEF Execute, Hands, IsFree
    <2>4. invocation[c].at = "hashing" /\ UNCHANGED <<recorded, performed, answered, era>>
      BY <1>6 DEF Execute, Hands
    <2>5. "executing" \in {"hashing", "executing", "waiting"} /\ "executing" # "waiting"
      OBVIOUS
    <2> QED
      BY <1>0, <2>1, <2>2, <2>3, <2>4, <2>5, MoveKeeps
  <1>7. ASSUME NEW c \in Caller, ExecutorAccepts(c) \/ ExecutorFails(c) PROVE GatewayInv'
    <2>0. PICK r : r = invocation[c].request
      OBVIOUS
    <2>1. PICK record : record = IF ExecutorAccepts(c) THEN WithReceipt("executed", r)
                                                       ELSE Without("proposed")
      OBVIOUS
    <2>2. Settles(c, record)
      BY <1>7, <2>0, <2>1 DEF ExecutorAccepts, ExecutorFails
    <2>3. /\ invocation[c].at = "executing" /\ r \in Request /\ r.key \in RequestKeys
          /\ IsValid(r) /\ IsPermitted(r)
      BY <2>0, <2>2, AskingIsSome DEF Settles, StagesOk
    <2>4. record \in ActionRecord /\ RecordOk(r, record)
      <3>1. CASE ExecutorAccepts(c)
        <4>1. record = WithReceipt("executed", r) /\ performed[r.key] = r
          BY <2>0, <2>1, <3>1 DEF ExecutorAccepts
        <4> QED
          BY <2>3, <4>1, RecordTypes, RequestIsSome DEF RecordOk, Outcomes
      <3>2. CASE ~ ExecutorAccepts(c)
        <4>1. record = Without("proposed") /\ record.outcome = "proposed"
          BY <2>1, <3>2 DEF Without
        <4> QED
          BY <4>1, RecordTypes DEF RecordOk, Outcomes, Granting
      <3> QED
        BY <3>1, <3>2
    <2>5. /\ recorded[r.key] = Nothing /\ inflight[r.key] \subseteq {c}
          /\ inflight'[r.key] = {}
          /\ \A k \in RequestKeys \ {r.key} : inflight'[k] = inflight[k]
      <3>1. c \in inflight[r.key]
        BY <2>0, <2>3 DEF OneWriter, Executing
      <3>2. recorded[r.key] = Nothing /\ inflight[r.key] = {c}
        BY <2>3, <3>1 DEF OneWriter
      <3> QED
        BY <2>0, <2>2, <2>3, <3>2 DEF Settles, InvocationTypes
    <2> QED
      BY <1>0, <2>0, <2>2, <2>3, <2>4, <2>5, RememberKeeps DEF Settles
  <1>8. ASSUME NEW q \in Request, Perform(q) PROVE GatewayInv'
    <2>1. \A r, x : RecordOk(r, x) /\ r \in Request => RecordOk(r, x)'
      BY <1>8, RequestIsSome DEF Perform, RecordOk, IsValid, IsPermitted, InvocationTypes
    <2>2. RecordsOk'
      <3>1. \A k \in RequestKeys : recorded[k] # Nothing => recorded[k].request \in Request
        BY NothingIsNoMemory DEF InvocationTypes
      <3> QED
        BY <1>8, <2>1, <3>1, AnswerTypes DEF Perform, RecordsOk
    <2>3. StagesOk' /\ OneWriter' /\ WaitersOk'
      BY <1>8 DEF Perform, StagesOk, OneWriter, WaitersOk, Executing, IsValid, IsPermitted
    <2>4. AnswersFinal' /\ OneVerdict'
      BY <1>8 DEF Perform, AnswersFinal, OneVerdict, Barred, IsValid
    <2> QED
      BY <1>0, <2>2, <2>3, <2>4
  <1>9. CASE RestartGateway
    <2>1. /\ \A c \in Caller : invocation'[c].at = "idle"
          /\ \A k \in RequestKeys : recorded'[k] = Nothing /\ inflight'[k] = {}
          /\ era' = era + 1 /\ UNCHANGED <<performed, answered>>
      BY <1>9 DEF RestartGateway, Unasked
    <2>2. RecordsOk'
      BY <2>1 DEF RecordsOk, RecordOk, IsValid, IsPermitted
    <2>3. StagesOk' /\ OneWriter' /\ WaitersOk'
      BY <2>1 DEF StagesOk, OneWriter, WaitersOk, Executing
    <2>4. AnswersFinal'
      <3>1. ASSUME NEW a \in answered PROVE a.era =< era' /\ a.era # era'
        BY <2>1, AnswerTypes, GatewayAssumption DEF AnswersFinal, InvocationTypes
      <3> QED
        BY <2>1, <3>1 DEF AnswersFinal
    <2>5. OneVerdict'
      BY <2>1 DEF OneVerdict
    <2> QED
      BY <1>0, <2>2, <2>3, <2>4, <2>5
  <1>10. CASE UNCHANGED gatewayVars
    <2>1. RecordsOk' /\ StagesOk' /\ OneWriter' /\ WaitersOk'
      BY <1>10 DEF gatewayVars, RecordsOk, RecordOk, StagesOk, OneWriter, WaitersOk, Executing,
                   IsValid, IsPermitted
    <2>2. AnswersFinal' /\ OneVerdict'
      BY <1>10 DEF gatewayVars, AnswersFinal, OneVerdict, Barred, IsValid
    <2> QED
      BY <1>0, <2>1, <2>2
  <1> QED
    BY <1>1, <1>2, <1>3, <1>4, <1>5, <1>6, <1>7, <1>8, <1>9, <1>10 DEF GatewayNext

LEMMA GatewayInvariant == GatewaySpec => []GatewayInv
  <1>1. GatewayInit => GatewayInv
    BY GatewayInitInv
  <1>2. GatewayInv /\ [GatewayNext]_gatewayVars => GatewayInv'
    BY GatewayNextInv
  <1> QED
    BY <1>1, <1>2, PTL DEF GatewaySpec

\* The state of the gateway has its types.
THEOREM GatewayTypes == GatewaySpec => []GatewayTypeOK
  <1>1. GatewayInv => GatewayTypeOK
    BY DEF GatewayInv, InvocationTypes, GatewayTypeOK, Asking
  <1> QED
    BY <1>1, GatewayInvariant, PTL

\* Whoever is told that something was executed holds the receipt of its own
\* permitted request, and that request is the one that took effect under its
\* key, in every interleaving of callers and over restarts.
THEOREM AnswersAreBacked == GatewaySpec => []AnswersBacked
  <1>1. GatewayInv => AnswersBacked
    BY DEF GatewayInv, RecordsOk, RecordOk, AnswersBacked
  <1> QED
    BY <1>1, GatewayInvariant, PTL

\* Two answers to one request in one process agree on its effect.
THEOREM AnswersAreFinal == GatewaySpec => []OneVerdict
  <1>1. GatewayInv => OneVerdict
    BY DEF GatewayInv
  <1> QED
    BY <1>1, GatewayInvariant, PTL

\* At most one caller executes a key at a time, and only callers of a key that
\* is not remembered.
THEOREM ExecutionIsSerial == GatewaySpec => []ExecutedByOne
  <1>1. GatewayInv => ExecutedByOne
    <2> SUFFICES ASSUME GatewayInv, NEW c \in Caller, NEW d \in Caller,
                        invocation[c].at = "executing", invocation[d].at = "executing",
                        invocation[c].request.key = invocation[d].request.key
                 PROVE  c = d
      BY DEF ExecutedByOne
    <2>1. invocation[c].request.key \in RequestKeys
      BY AskingIsSome DEF GatewayInv
    <2> QED
      BY <2>1 DEF GatewayInv, OneWriter, Executing
  <1> QED
    BY <1>1, GatewayInvariant, PTL

-----------------------------------------------------------------------------
(***************************************************************************)
(* What a confirmation is worth, for any number of processes, challenges,  *)
(* events, calls and crashes.                                              *)
(***************************************************************************)

-----------------------------------------------------------------------------
(* One operation on one ledger.                                            *)

LedgersOf(keys) ==
    [key : keys, challenges : SUBSET Challenge,
     attestations : SUBSET Attestation, bindings : SUBSET Binding]
AnyLedger == LedgersOf(Keys \cup {NoKey})
BindingOf(a) ==
    [event |-> a.event.id, content |-> a.event.content, confirmation |-> a.challenge.id]

\* The bindings are what makes an event confirm one proposal only.
GoodLedger(l) ==
    /\ l \in AnyLedger
    /\ \A a \in l.attestations : Sound(a, l) /\ BindingOf(a) \in l.bindings
    /\ \A a, b \in l.attestations :
          a.challenge.id = b.challenge.id \/ a.event.id = b.event.id => a = b

Stands(r, of, l) ==
    \E a \in of :
        /\ a \in l.attestations /\ a.challenge.id = r.id
        /\ r.op = "authorize" => a.challenge.proposal = r.proposal
        /\ r.op = "evaluate" => Confirms(r.event, a)

Genuine(r) ==
    r.op = "evaluate" => r.text = r.event.content /\ r.event.signature # "forged"

Serves(l, r, s) ==
    /\ GoodLedger(s.ledger) /\ Keeps(l, s.ledger)
    /\ l # Absent => s.ledger.key = l.key
    /\ s.answer \in [what : Words, of : SUBSET Attestation]
    /\ s.answer.what = "OPENED" => r.op = "open" /\ s.ledger.key # NoKey
    /\ s.answer.what \in Grants => Stands(r, s.answer.of, s.ledger)

\* What stands in a ledger stands in one that keeps it.
LEMMA StandsStays ==
    ASSUME NEW r, NEW of, NEW l, NEW k, Stands(r, of, l), Keeps(l, k)
    PROVE  Stands(r, of, k)
  BY DEF Stands, Keeps

LEMMA SaysServes ==
    ASSUME NEW l, GoodLedger(l), NEW r, NEW what \in Words, what \notin Grants,
           what = "OPENED" => r.op = "open" /\ l.key # NoKey
    PROVE  Serves(l, r, Says(l, what))
  BY DEF Serves, Says, Keeps

LEMMA OpenServes ==
    ASSUME NEW l, GoodLedger(l), NEW r, r.op = "open", NEW key \in Keys
    PROVE  Serves(l, r, OpenLedger(l, key))
  <1>1. CASE l = Absent
    <2>1. OpenLedger(l, key) = Says(Empty(key), "OPENED")
      BY <1>1 DEF OpenLedger
    <2>2. GoodLedger(Empty(key))
      BY DEF GoodLedger, Empty, AnyLedger, LedgersOf
    <2>3. PICK k : k = Empty(key)
      OBVIOUS
    <2>4. k.key # NoKey /\ Keeps(l, k)
      BY <1>1, <2>3, LedgerAssumption DEF Keeps, Empty, Absent
    <2>5. Serves(l, r, Says(k, "OPENED"))
      BY <1>1, <2>2, <2>3, <2>4 DEF Serves, Says, Grants, Words
    <2> QED
      BY <2>1, <2>3, <2>5
  <1>2. CASE l # Absent
    <2>1. Serves(l, r, Says(l, "ERROR"))
      BY SaysServes DEF Grants, Words
    <2>2. l.key = key => Serves(l, r, Says(l, "OPENED"))
      BY LedgerAssumption, SaysServes DEF Grants, Words
    <2> QED
      BY <1>2, <2>1, <2>2 DEF OpenLedger
  <1> QED
    BY <1>1, <1>2

LEMMA IssueServes ==
    ASSUME NEW l, GoodLedger(l), NEW r, NEW ch \in Challenge
    PROVE  Serves(l, r, IssueChallenge(l, ch))
  <1>1. PICK k : k = [l EXCEPT !.challenges = @ \cup {ch}]
    OBVIOUS
  <1>2. /\ k \in AnyLedger /\ k.challenges = l.challenges \cup {ch} /\ k.key = l.key
        /\ k.attestations = l.attestations /\ k.bindings = l.bindings
    BY <1>1 DEF GoodLedger, AnyLedger, LedgersOf
  <1>3. GoodLedger(k) /\ Keeps(l, k)
    BY <1>2 DEF GoodLedger, Sound, Keeps
  <1>4. Serves(l, r, Says(k, "ISSUED"))
    BY <1>2, <1>3 DEF Serves, Says, Grants, Words
  <1>5. Serves(l, r, Says(l, "ISSUED_BEFORE")) /\ Serves(l, r, Says(l, "ERROR"))
    BY SaysServes DEF Grants, Words
  <1> QED
    BY <1>1, <1>4, <1>5 DEF IssueChallenge

\* The event that attests a proposal has confirmed nothing else: its binding
\* would name the other proposal.
LEMMA AttestServes ==
    ASSUME NEW l, GoodLedger(l), NEW r \in Evaluations, NEW ch \in l.challenges, ch.id = r.id,
           r.event.signature = "valid", r.event.content \in Affirmative,
           InContext(r.event, ch), InTime(r.event, ch)
    PROVE  Serves(l, r, Attest(l, ch, r.event))
  <1>0. PICK e : e = r.event
    OBVIOUS
  <1>1. PICK before : before = {a \in l.attestations : a.challenge.id = ch.id}
    OBVIOUS
  <1>2. PICK bound : bound = {b \in l.bindings : b.event = e.id}
    OBVIOUS
  <1>3. PICK new : new = [challenge |-> ch, event |-> e]
    OBVIOUS
  <1>4. PICK binding :
           binding = [event |-> e.id, content |-> e.content, confirmation |-> ch.id]
    OBVIOUS
  <1>5. PICK k : k = [l EXCEPT !.attestations = @ \cup {new},
                               !.bindings = (@ \ bound) \cup {binding}]
    OBVIOUS
  <1>6. Serves(l, r, Says(l, "ERROR"))
    BY SaysServes DEF Grants, Words
  <1>7. ASSUME before # {}
        PROVE  LET a == CHOOSE a \in before : TRUE IN
               /\ a \in l.attestations /\ a.challenge.id = ch.id
               /\ Confirms(e, a) => Serves(l, r, Attests(l, "AUTHENTICATED", a))
    <2>1. PICK a : a = CHOOSE x \in before : TRUE
      OBVIOUS
    <2>2. a \in l.attestations /\ a.challenge.id = ch.id
      BY <1>1, <1>7, <2>1
    <2>3. r.op = "evaluate"
      BY DEF Evaluations
    <2>4. Confirms(e, a) => Stands(r, {a}, l)
      BY <1>0, <2>2, <2>3 DEF Stands
    <2>5. Confirms(e, a) => Serves(l, r, Attests(l, "AUTHENTICATED", a))
      BY <2>2, <2>4 DEF Serves, Attests, Keeps, Words, GoodLedger, AnyLedger, LedgersOf
    <2> QED
      BY <2>1, <2>2, <2>5
  <1>8. ASSUME before = {}, bound \ {binding} = {}
        PROVE  Serves(l, r, Attests(k, "AUTHENTICATED", new))
    <2>1. e \in Event /\ ch \in Challenge
      BY <1>0 DEF Evaluations, GoodLedger, AnyLedger, LedgersOf
    <2>2. new \in Attestation /\ binding \in Binding
      BY <1>3, <1>4, <2>1 DEF Attestation, Binding
    <2>3. /\ k \in AnyLedger /\ k.key = l.key /\ k.challenges = l.challenges
          /\ k.attestations = l.attestations \cup {new}
          /\ k.bindings = (l.bindings \ bound) \cup {binding}
      BY <1>5, <2>2 DEF GoodLedger, AnyLedger, LedgersOf
    <2>4. Keeps(l, k) /\ l.bindings \subseteq k.bindings
      BY <1>8, <2>3 DEF Keeps
    <2>5. new.challenge = ch /\ new.event = e /\ BindingOf(new) = binding
      BY <1>3, <1>4 DEF BindingOf
    <2>6. Sound(new, k) /\ BindingOf(new) \in k.bindings
      BY <1>0, <2>3, <2>5 DEF Sound
    <2>7. \A a \in l.attestations : Sound(a, k) /\ BindingOf(a) \in k.bindings
      BY <2>3, <2>4 DEF GoodLedger, Sound
    <2>8. ASSUME NEW a \in l.attestations
          PROVE  a.challenge.id # ch.id /\ a.event.id # e.id
      <3>1. a.challenge.id # ch.id
        BY <1>1, <1>8
      <3>2. ASSUME a.event.id = e.id PROVE FALSE
        <4>1. BindingOf(a) \in l.bindings /\ BindingOf(a).event = a.event.id
              /\ BindingOf(a).confirmation = a.challenge.id
          BY DEF GoodLedger, BindingOf
        <4>2. BindingOf(a) \in bound
          BY <1>2, <3>2, <4>1
        <4>3. BindingOf(a) = binding
          BY <1>8, <4>2
        <4>4. binding.confirmation = ch.id
          BY <1>4
        <4> QED
          BY <3>1, <4>1, <4>3, <4>4
      <3> QED
        BY <3>1, <3>2
    <2>9. GoodLedger(k)
      BY <2>3, <2>5, <2>6, <2>7, <2>8 DEF GoodLedger
    <2>10. Stands(r, {new}, k)
      <3>1. r.op = "evaluate"
        BY DEF Evaluations
      <3> QED
        BY <1>0, <2>3, <2>5, <3>1 DEF Stands, Confirms
    <2> QED
      BY <2>2, <2>3, <2>4, <2>9, <2>10 DEF Serves, Attests, Words
  <1> QED
    BY <1>0, <1>1, <1>2, <1>3, <1>4, <1>5, <1>6, <1>7, <1>8 DEF Attest

LEMMA EvaluateServes ==
    ASSUME NEW l, GoodLedger(l), NEW r \in Evaluations, Genuine(r)
    PROVE  Serves(l, r, EvaluateConfirmation(l, r))
  <1>1. PICK issued : issued = {ch \in l.challenges : ch.id = r.id}
    OBVIOUS
  <1>2. PICK ch : ch = CHOOSE x \in issued : TRUE
    OBVIOUS
  <1>3. Serves(l, r, Says(l, "COMMON")) /\ Serves(l, r, Says(l, "CONTEXTUAL"))
    BY SaysServes DEF Grants, Words
  <1>4. ASSUME r.text \in Affirmative, issued # {}, InContext(r.event, ch),
               r.event.signature # "none", InTime(r.event, ch)
        PROVE  Serves(l, r, Attest(l, ch, r.event))
    <2>1. ch \in l.challenges /\ ch.id = r.id
      BY <1>1, <1>2, <1>4
    <2>2. r.event.signature = "valid" /\ r.event.content \in Affirmative
      BY <1>4, LedgerAssumption DEF Genuine, Evaluations
    <2> QED
      BY <1>4, <2>1, <2>2, AttestServes
  <1> QED
    BY <1>1, <1>2, <1>3, <1>4 DEF EvaluateConfirmation

LEMMA AuthorizeServes ==
    ASSUME NEW l, GoodLedger(l), NEW r \in Authorizations
    PROVE  Serves(l, r, AuthorizeWouldCall(l, r))
  <1>1. Serves(l, r, Says(l, "ERROR"))
    BY SaysServes DEF Grants, Words
  <1>2. PICK a : a = r.attestation
    OBVIOUS
  <1>3. ASSUME a \in l.attestations, a.challenge.id = r.id, r.proposal = a.challenge.proposal
        PROVE  Serves(l, r, Attests(l, "AUTHORIZED", a))
    <2>1. Stands(r, {a}, l)
      BY <1>3 DEF Stands, Authorizations
    <2> QED
      BY <1>3, <2>1 DEF Serves, Attests, Keeps, Words, GoodLedger, AnyLedger, LedgersOf
  <1> QED
    BY <1>1, <1>2, <1>3 DEF AuthorizeWouldCall

\* Every operation leaves a good ledger that keeps what was there, and what it
\* grants stands in it.
LEMMA OperationServes ==
    ASSUME NEW l, GoodLedger(l), NEW r \in Asked, Genuine(r)
    PROVE  Serves(l, r, Served(l, r))
  <1>1. r \in Call
    BY LedgerAssumption
  <1>2. CASE r \in Openings
    BY <1>2, OpenServes DEF Served, Openings
  <1>3. CASE r \in Issues
    BY <1>3, IssueServes DEF Served, Issues
  <1>4. CASE r \in Evaluations
    <2>1. r.op = "evaluate"
      BY <1>4 DEF Evaluations
    <2>2. Served(l, r) = EvaluateConfirmation(l, r)
      BY <2>1 DEF Served
    <2> QED
      BY <1>4, <2>2, EvaluateServes
  <1>5. CASE r \in Authorizations
    <2>1. r.op = "authorize"
      BY <1>5 DEF Authorizations
    <2>2. Served(l, r) = AuthorizeWouldCall(l, r)
      BY <2>1 DEF Served
    <2> QED
      BY <1>5, <2>2, AuthorizeServes
  <1> QED
    BY <1>1, <1>2, <1>3, <1>4, <1>5 DEF Call

-----------------------------------------------------------------------------
(* Many processes on one file.  The lock makes the copy a process decides  *)
(* on the ledger itself, so its write takes nothing back.                  *)

ShapesOk ==
    /\ pc \in [Process -> Steps] /\ call \in [Process -> Asked \cup {NoCall}]
    /\ DOMAIN copy = Process /\ DOMAIN answer = Process
    /\ \A p \in Process : pc[p] # "idle" => call[p] \in Asked /\ Genuine(call[p])
\* Whoever is past the lock holds it, and has read what the file holds.
LockOk ==
    \A p \in Process : /\ pc[p] \in Holding => lock = p
                       /\ pc[p] = "read" => copy[p] = file
GrantsOk ==
    /\ \A p \in Process : pc[p] = "done" /\ answer[p].what \in Grants =>
          Stands(call[p], answer[p].of, file)
    /\ \A t \in granted : t.answer.what \in Grants => Stands(t.to, t.answer.of, file)
LedgerInv == ShapesOk /\ GoodLedger(file) /\ LockOk /\ GrantsOk

LEMMA LedgerInitInv == LedgerInit => LedgerInv
  <1> SUFFICES ASSUME LedgerInit PROVE LedgerInv
    OBVIOUS
  <1>1. GoodLedger(file)
    BY DEF LedgerInit, GoodLedger, Absent, Empty, AnyLedger, LedgersOf
  <1> QED
    BY <1>1 DEF LedgerInit, LedgerInv, ShapesOk, LockOk, GrantsOk, Steps, Holding

\* A step that leaves the file and the granted answers alone and moves only p.
LEMMA AskKeeps ==
    ASSUME LedgerInv, NEW p \in Process, NEW r \in Asked, Ask(p, r)
    PROVE  LedgerInv'
  <1> USE DEF LedgerInv
  <1>1. /\ pc'[p] = "asked" /\ call'[p] = r
        /\ \A q \in Process \ {p} : pc'[q] = pc[q] /\ call'[q] = call[q]
    BY DEF Ask, ShapesOk
  <1>2. Genuine(r)
    BY DEF Ask, Admitted, EventIsGenuine, Genuine
  <1>3. ShapesOk'
    BY <1>1, <1>2 DEF Ask, ShapesOk, Steps
  <1>4. LockOk' /\ GrantsOk' /\ GoodLedger(file)'
    BY <1>1 DEF Ask, LockOk, GrantsOk, Holding
  <1> QED
    BY <1>3, <1>4

LEMMA EnterKeeps ==
    ASSUME LedgerInv, NEW p \in Process, Enter(p)
    PROVE  LedgerInv'
  <1> USE DEF LedgerInv
  <1>1. /\ pc'[p] = "read" /\ copy'[p] = file /\ lock' = p /\ pc[p] = "asked"
        /\ \A q \in Process \ {p} : pc'[q] = pc[q] /\ copy'[q] = copy[q]
        /\ UNCHANGED <<file, opened, call, answer, granted, calls>>
    BY DEF Enter, Reads, ShapesOk
  <1>2. \A q \in Process \ {p} : pc[q] \notin Holding
    BY LedgerAssumption DEF Enter, LockOk
  <1>3. ShapesOk'
    BY <1>1 DEF Enter, Reads, ShapesOk, Steps
  <1>4. LockOk' /\ GrantsOk' /\ GoodLedger(file)'
    BY <1>1, <1>2 DEF LockOk, GrantsOk, Holding
  <1> QED
    BY <1>3, <1>4

\* The step that writes: the other processes are before their lock.
LEMMA ServeKeeps ==
    ASSUME LedgerInv, NEW p \in Process, Serve(p)
    PROVE  LedgerInv' /\ Keeps(file, file') /\ (file # Absent => file'.key = file.key)
  <1> USE DEF LedgerInv
  <1>0. PICK s : s = Served(copy[p], call[p])
    OBVIOUS
  <1>1. /\ pc[p] = "read" /\ copy[p] = file /\ lock = p
        /\ call[p] \in Asked /\ Genuine(call[p])
    BY DEF Serve, LockOk, ShapesOk, Holding
  <1>2. Serves(file, call[p], s)
    BY <1>0, <1>1, OperationServes
  <1>3. file' = s.ledger
    BY <1>0, <1>1 DEF Serve
  <1>4. /\ pc'[p] = "done" /\ answer'[p] = s.answer
        /\ \A q \in Process \ {p} : pc'[q] = pc[q] /\ answer'[q] = answer[q]
        /\ UNCHANGED <<lock, call, copy, granted>>
    BY <1>0 DEF Serve, ShapesOk
  <1>5. \A q \in Process \ {p} : pc[q] \notin Holding
    BY <1>1 DEF LockOk
  <1>6. GoodLedger(file') /\ Keeps(file, file') /\ (file # Absent => file'.key = file.key)
    BY <1>2, <1>3 DEF Serves
  <1>7. ShapesOk'
    BY <1>1, <1>4 DEF Serve, ShapesOk, Steps
  <1>8. LockOk'
    BY <1>1, <1>4, <1>5 DEF LockOk, Holding
  <1>9. GrantsOk'
    <2>1. ASSUME NEW q \in Process, pc'[q] = "done", answer'[q].what \in Grants
          PROVE  Stands(call'[q], answer'[q].of, file')
      <3>1. q = p
        BY <2>1, <1>4, <1>5 DEF Holding
      <3> QED
        BY <2>1, <3>1, <1>2, <1>3, <1>4 DEF Serves
    <2>2. ASSUME NEW t \in granted', t.answer.what \in Grants
          PROVE  Stands(t.to, t.answer.of, file')
      BY <1>4, <1>6, <2>2, StandsStays DEF GrantsOk
    <2> QED
      BY <2>1, <2>2 DEF GrantsOk
  <1>10. GoodLedger(file)'
    BY <1>6
  <1> QED
    BY <1>6, <1>7, <1>8, <1>9, <1>10

\* A process that answers or dies leaves the file alone.
LEMMA LeaveKeeps ==
    ASSUME LedgerInv, NEW p \in Process, Unlock(p) \/ Crash(p)
    PROVE  LedgerInv'
  <1> USE DEF LedgerInv
  <1>1. /\ pc'[p] = "idle" /\ UNCHANGED file
        /\ \A q \in Process \ {p} : /\ pc'[q] = pc[q] /\ call'[q] = call[q]
                                    /\ copy'[q] = copy[q] /\ answer'[q] = answer[q]
    BY DEF Unlock, Answers, Crash, ShapesOk
  <1>2. \A q \in Process \ {p} : pc[q] \in Holding => lock' = q
    <2>1. CASE Unlock(p)
      BY <2>1 DEF Unlock, Answers, LockOk, Holding
    <2>2. CASE Crash(p)
      BY <2>2 DEF Crash, LockOk
    <2> QED
      BY <2>1, <2>2
  <1>3. ShapesOk'
    BY <1>1 DEF Unlock, Answers, Crash, ShapesOk, Steps
  <1>4. LockOk'
    BY <1>1, <1>2 DEF LockOk, Holding
  <1>5. GrantsOk'
    <2>1. ASSUME NEW t \in granted', t.answer.what \in Grants
          PROVE  Stands(t.to, t.answer.of, file)
      <3>1. CASE t \in granted
        BY <2>1, <3>1 DEF GrantsOk
      <3>2. CASE t \notin granted
        <4>1. Unlock(p) /\ t \in Granted(p)
          BY <2>1, <3>2 DEF Unlock, Answers, Crash
        <4>2. pc[p] = "done" /\ t = [to |-> call[p], answer |-> answer[p]]
          BY <4>1 DEF Unlock, Answers, Granted
        <4> QED
          BY <2>1, <4>2 DEF GrantsOk
      <3> QED
        BY <3>1, <3>2
    <2>2. \A q \in Process : pc'[q] = "done" /\ answer'[q].what \in Grants =>
             Stands(call'[q], answer'[q].of, file)
      BY <1>1 DEF GrantsOk
    <2> QED
      BY <1>1, <2>1, <2>2 DEF GrantsOk
  <1>6. GoodLedger(file)'
    BY <1>1
  <1> QED
    BY <1>3, <1>4, <1>5, <1>6

LEMMA LedgerNextInv ==
    ASSUME LedgerInv, [LedgerNext]_ledgerVars
    PROVE  LedgerInv' /\ Keeps(file, file') /\ (file # Absent => file'.key = file.key)
  <1>1. ASSUME NEW p \in Process, NEW r \in Asked, Ask(p, r)
        PROVE  LedgerInv' /\ UNCHANGED file
    BY <1>1, AskKeeps DEF Ask
  <1>2. ASSUME NEW p \in Process, Enter(p) PROVE LedgerInv' /\ UNCHANGED file
    BY <1>2, EnterKeeps DEF Enter, Reads
  <1>3. ASSUME NEW p \in Process, Unlock(p) \/ Crash(p) PROVE LedgerInv' /\ UNCHANGED file
    BY <1>3, LeaveKeeps DEF Unlock, Answers, Crash
  <1>4. ASSUME UNCHANGED ledgerVars PROVE LedgerInv' /\ UNCHANGED file
    <2>1. UNCHANGED <<file, lock, pc, call, copy, answer, granted>>
      BY <1>4 DEF ledgerVars
    <2>2. ShapesOk' /\ LockOk'
      BY <2>1 DEF LedgerInv, ShapesOk, LockOk
    <2>3. GrantsOk'
      BY <2>1 DEF LedgerInv, GrantsOk
    <2>4. GoodLedger(file)'
      BY <2>1 DEF LedgerInv
    <2> QED
      BY <2>1, <2>2, <2>3, <2>4 DEF LedgerInv
  <1>5. UNCHANGED file => Keeps(file, file') /\ (file # Absent => file'.key = file.key)
    BY DEF Keeps
  <1> QED
    BY <1>1, <1>2, <1>3, <1>4, <1>5, ServeKeeps DEF LedgerNext

LEMMA LedgerInvariant == LedgerSpec => []LedgerInv
  <1>1. LedgerInit => LedgerInv
    BY LedgerInitInv
  <1>2. LedgerInv /\ [LedgerNext]_ledgerVars => LedgerInv'
    BY LedgerNextInv
  <1> QED
    BY <1>1, <1>2, PTL DEF LedgerSpec

\* Who has opened the ledger knows that there is one.
OpenedOk ==
    \A p \in Process :
        /\ opened[p] # NoKey => file.key # NoKey
        /\ pc[p] # "idle" /\ call[p].op # "open" => opened[p] # NoKey
        /\ pc[p] = "done" /\ answer[p].what = "OPENED" =>
              call[p].op = "open" /\ file.key # NoKey
KeysOpened == LedgerTypeOK /\ OpenedOk

\* A ledger that was made with a key is a ledger; without one it is absent.
LEMMA KeyedIsLedger ==
    /\ \A l \in AnyLedger : l.key # NoKey => l \in Ledger
    /\ \A l \in Ledger : l.key \in Keys /\ l # Absent
  BY LedgerAssumption DEF AnyLedger, LedgersOf, Ledger, Absent, Empty

LEMMA TypesNext ==
    ASSUME LedgerInv, KeysOpened, [LedgerNext]_ledgerVars
    PROVE  KeysOpened'
  <1> USE DEF KeysOpened
  <1>1. ASSUME NEW p \in Process, NEW r \in Asked, Ask(p, r) PROVE KeysOpened'
    <2>1. LedgerTypeOK'
      BY <1>1 DEF Ask, LedgerTypeOK, Steps
    <2>2. r.op # "open" => opened[p] # NoKey
      BY <1>1, LedgerAssumption DEF Ask, Admitted, Call, Openings, Issues, Evaluations,
                                    Authorizations
    <2>3. OpenedOk'
      BY <1>1, <2>2 DEF Ask, OpenedOk, LedgerTypeOK
    <2> QED
      BY <2>1, <2>3
  <1>2. ASSUME NEW p \in Process, Enter(p) PROVE KeysOpened'
    BY <1>2 DEF Enter, Reads, LedgerTypeOK, OpenedOk, Steps
  <1>3. ASSUME NEW p \in Process, Serve(p) PROVE KeysOpened'
    <2>0. PICK s : s = Served(copy[p], call[p])
      OBVIOUS
    <2>1. /\ pc[p] = "read" /\ copy[p] = file /\ call[p] \in Asked /\ Genuine(call[p])
          /\ GoodLedger(file)
      BY <1>3 DEF Serve, LedgerInv, LockOk, ShapesOk
    <2>2. Serves(file, call[p], s)
      BY <2>0, <2>1, OperationServes
    <2>3. file' = s.ledger /\ answer' = [answer EXCEPT ![p] = s.answer]
          /\ pc' = [pc EXCEPT ![p] = "done"]
          /\ UNCHANGED <<lock, opened, call, copy, granted, calls>>
      BY <1>3, <2>0, <2>1 DEF Serve
    <2>4. file # Absent => file'.key = file.key /\ file \in Ledger
      BY <2>2, <2>3 DEF Serves, LedgerTypeOK
    <2>5. file' \in AnyLedger
      BY <2>2, <2>3 DEF Serves, GoodLedger
    <2>6. file'.key # NoKey
      <3>1. CASE file # Absent
        BY <2>4, <3>1, KeyedIsLedger, LedgerAssumption
      <3>2. CASE file = Absent
        <4>1. file.key = NoKey
          BY <3>2 DEF Absent, Empty
        <4>2. call[p].op = "open" /\ call[p] \in Call
          BY <2>1, <4>1, LedgerAssumption DEF OpenedOk
        <4>3. call[p].key \in Keys
          BY <4>2 DEF Call, Openings, Issues, Evaluations, Authorizations
        <4>4. s = Says(Empty(call[p].key), "OPENED")
          BY <2>0, <2>1, <3>2, <4>2 DEF Served, OpenLedger
        <4> QED
          BY <2>3, <4>3, <4>4, LedgerAssumption DEF Says, Empty
      <3> QED
        BY <3>1, <3>2
    <2>7. file' \in Ledger
      BY <2>5, <2>6, KeyedIsLedger
    <2>8. s.answer \in Answer
      BY <2>2 DEF Serves, Answer
    <2>9. LedgerTypeOK'
      BY <2>3, <2>7, <2>8 DEF LedgerTypeOK, Steps
    <2>10. OpenedOk'
      <3>1. answer'[p] = s.answer /\ pc'[p] = "done"
            /\ \A q \in Process \ {p} : answer'[q] = answer[q] /\ pc'[q] = pc[q]
        BY <2>3 DEF LedgerTypeOK
      <3>2. s.answer.what = "OPENED" => call[p].op = "open"
        BY <2>2 DEF Serves
      <3> QED
        BY <2>1, <2>3, <2>6, <3>1, <3>2 DEF OpenedOk
    <2> QED
      BY <2>9, <2>10
  <1>4. ASSUME NEW p \in Process, Unlock(p) PROVE KeysOpened'
    <2>1. pc[p] = "done" /\ call[p] \in Asked /\ UNCHANGED <<file, calls>>
      BY <1>4 DEF Unlock, Answers, LedgerInv, ShapesOk
    <2>2. answer[p].what = "OPENED" => call[p].key \in Keys /\ file.key # NoKey
      BY <2>1, LedgerAssumption DEF OpenedOk, Call, Openings, Issues, Evaluations, Authorizations
    <2>3. opened' \in [Process -> Keys \cup {NoKey}]
      BY <1>4, <2>2 DEF Unlock, Answers, LedgerTypeOK
    <2>4. granted' \subseteq [to : Asked, answer : Answer]
      BY <1>4, <2>1 DEF Unlock, Answers, Granted, LedgerTypeOK
    <2>5. LedgerTypeOK'
      BY <1>4, <2>1, <2>3, <2>4 DEF Unlock, Answers, LedgerTypeOK, Steps, Answer
    <2>6. OpenedOk'
      BY <1>4, <2>1, <2>2 DEF Unlock, Answers, OpenedOk, LedgerTypeOK
    <2> QED
      BY <2>5, <2>6
  <1>5. ASSUME NEW p \in Process, Crash(p) PROVE KeysOpened'
    <2>1. LedgerTypeOK'
      BY <1>5 DEF Crash, LedgerTypeOK, Steps, Answer
    <2>2. OpenedOk'
      BY <1>5 DEF Crash, OpenedOk, LedgerTypeOK
    <2> QED
      BY <2>1, <2>2
  <1>6. CASE UNCHANGED ledgerVars
    BY <1>6 DEF ledgerVars, LedgerTypeOK, OpenedOk
  <1> QED
    BY <1>1, <1>2, <1>3, <1>4, <1>5, <1>6 DEF LedgerNext

\* The file is a ledger or absent, and what the processes hold has its types.
THEOREM LedgerTypes == LedgerSpec => []LedgerTypeOK
  <1>1. LedgerInit => KeysOpened
    BY LedgerAssumption
    DEF LedgerInit, KeysOpened, LedgerTypeOK, OpenedOk, Absent, Steps, Answer
  <1>2. LedgerInv /\ KeysOpened /\ [LedgerNext]_ledgerVars => KeysOpened'
    BY TypesNext
  <1>3. KeysOpened => LedgerTypeOK
    BY DEF KeysOpened
  <1> QED
    BY <1>1, <1>2, <1>3, LedgerInvariant, PTL DEF LedgerSpec

\* An attestation stands for one genuine "sim" to one issued proposal, and no
\* event confirms two proposals, whoever asks at the same time.
THEOREM ConfirmationsAreSingle == LedgerSpec => []OneConfirmation
  <1>1. LedgerInv => OneConfirmation
    BY DEF LedgerInv, GoodLedger, OneConfirmation
  <1> QED
    BY <1>1, LedgerInvariant, PTL

\* What a caller was granted is in the ledger for ever after, whatever crashes.
THEOREM GrantsStand == LedgerSpec => []AnswersStand
  <1>1. LedgerInv => AnswersStand
    BY DEF LedgerInv, GrantsOk, Stands, AnswersStand
  <1> QED
    BY <1>1, LedgerInvariant, PTL

\* No step takes back a challenge, an attestation or a binding, or replaces the
\* key the ledger was made with.
THEOREM NothingIsTakenBack == LedgerSpec => LedgerGrows
  <1>1. LedgerInv /\ [LedgerNext]_ledgerVars =>
           [Keeps(file, file') /\ (file # Absent => file'.key = file.key)]_ledgerVars
    BY LedgerNextInv
  <1> QED
    BY <1>1, LedgerInvariant, PTL DEF LedgerSpec, LedgerGrows

-----------------------------------------------------------------------------
(***************************************************************************)
(* What the gateway answers is official, whatever the catalogue, the       *)
(* questions and the days; the options it offers lead on; the information  *)
(* lane speaks of the case at hand.                                        *)
(***************************************************************************)

-----------------------------------------------------------------------------
(* The entries a question may reach on a day, and those it is certain of.  *)

Current(kind, when) ==
    {e \in Loaded(published) : e.kind = kind /\ e.from <= when /\ when <= e.until}
Possible(kind, known, when) == {e \in Current(kind, when) : ~IsExcluded(e, known)}
Certain(kind, known, when) == {e \in Possible(kind, known, when) : IsDetermined(e, known)}

\* What is kept of a document that was read: the assumption on its entries.
Readable == published \in Catalogues
Entries(D) == /\ IsFiniteSet(D)
              /\ \A e \in D : e.id \in Nat /\ IsFiniteSet(DOMAIN e.applies)

LEMMA LeastNatural ==
    ASSUME NEW T, T \subseteq Nat, T # {}
    PROVE  \E x \in T : \A y \in T : x <= y
<1>1. PICK x \in T : \A y \in T : ~(<<y, x>> \in OpToRel(<, Nat))
  <2>1. IsWellFoundedOn(OpToRel(<, Nat), Nat)
    BY NatLessThanWellFounded
  <2> HIDE DEF OpToRel
  <2> QED BY <2>1, WFMin
<1>2. \A y \in T : ~(y < x)
    BY <1>1 DEF OpToRel
<1> QED BY <1>2

\* The values of a function on a finite set are finitely many.
LEMMA FiniteImage ==
    ASSUME NEW S, IsFiniteSet(S), NEW f, f = [x \in S |-> f[x]]
    PROVE  IsFiniteSet({f[x] : x \in S})
<1> DEFINE T == {f[x] : x \in S}
<1>1. f \in Surjection(S, T)
    BY DEF Surjection
<1> QED BY <1>1, FS_Surjection

\* Of a finite set of entries that is not empty some are the most specific.
LEMMA MostSpecific ==
    ASSUME NEW D, Entries(D), D # {}
    PROVE  /\ \A o \in D : Specificity(o) \in Nat
           /\ \E e \in D : \A o \in D : Specificity(o) <= Specificity(e)
<1> DEFINE f == [e \in D |-> DOMAIN e.applies]
           All == UNION {f[e] : e \in D}
           Left == {Cardinality(All) - Specificity(e) : e \in D}
<1>1. \A e \in D : Specificity(e) \in Nat
    BY FS_CardinalityType DEF Entries, Specificity
<1>2. IsFiniteSet(All)
  <2>1. IsFiniteSet({f[e] : e \in D})
    BY FiniteImage DEF Entries
  <2> QED BY <2>1, FS_UNION DEF Entries
<1>3. \A e \in D : Specificity(e) <= Cardinality(All)
  <2> TAKE e \in D
  <2>1. f[e] \in SUBSET All
    OBVIOUS
  <2>2. Cardinality(f[e]) <= Cardinality(All)
    BY <1>2, <2>1, FS_Subset
  <2> QED BY <2>2 DEF Specificity
<1>4. Cardinality(All) \in Nat
    BY <1>2, FS_CardinalityType
<1> HIDE DEF All
<1>5. Left \subseteq Nat /\ Left # {}
    BY <1>1, <1>3, <1>4
<1>6. PICK x \in Left : \A y \in Left : x <= y
    BY <1>5, LeastNatural
<1>7. PICK e \in D : x = Cardinality(All) - Specificity(e)
    BY <1>6
<1>8. ASSUME NEW o \in D PROVE Specificity(o) <= Specificity(e)
  <2>1. Cardinality(All) - Specificity(o) \in Left
    OBVIOUS
  <2>2. Cardinality(All) - Specificity(e) <= Cardinality(All) - Specificity(o)
    BY <1>6, <1>7, <2>1
  <2>3. Specificity(e) \in Nat /\ Specificity(o) \in Nat
    BY <1>1
  <2> HIDE DEF Left
  <2> QED BY <1>4, <2>2, <2>3
<1> QED BY <1>1, <1>8

\* consultar speaks with one voice: an available answer is one of the entries it
\* is certain of, and no other one is more specific or, as specific, says otherwise.
LEMMA DetermineSpeaks ==
    ASSUME NEW D, Entries(D), D # {}, Determine(D).status = "AVAILABLE"
    PROVE  LET e == Determine(D).entry IN
           /\ e \in D
           /\ \A o \in D : \/ Specificity(o) < Specificity(e)
                           \/ Specificity(o) = Specificity(e) /\ o.value = e.value
<1> DEFINE F == {e \in D : \A o \in D : Specificity(o) <= Specificity(e)}
           Values == {e.value : e \in F}
           chosen == CHOOSE e \in F : \A o \in F : e.id <= o.id
<1>1. /\ \A o \in D : Specificity(o) \in Nat
      /\ F # {} /\ F \subseteq D
    BY MostSpecific
<1>2. \E e \in F : \A o \in F : e.id <= o.id
  <2> DEFINE Ids == {e.id : e \in F}
  <2>1. Ids \subseteq Nat /\ Ids # {}
    BY <1>1 DEF Entries
  <2>2. PICK n \in Ids : \A m \in Ids : n <= m
    BY <2>1, LeastNatural
  <2>3. PICK e \in F : n = e.id
    BY <2>2
  <2>4. \A o \in F : e.id <= o.id
    BY <2>2, <2>3
  <2> QED BY <2>4
<1>3. chosen \in F
    BY <1>2
<1>4. \A u, v \in Values : u = v
  <2>1. ~(Cardinality(Values) > 1)
    BY DEF Determine, Answered
  <2>2. IsFiniteSet(Values)
    <3> DEFINE f == [e \in F |-> e.value]
    <3>1. IsFiniteSet(F)
      BY <1>1, FS_Subset DEF Entries
    <3>2. IsFiniteSet({f[e] : e \in F})
      BY <3>1, FiniteImage
    <3>3. {f[e] : e \in F} = Values
      OBVIOUS
    <3> QED BY <3>2, <3>3
  <2>3. Cardinality(Values) \in Nat
    BY <2>2, FS_CardinalityType
  <2> HIDE DEF Values
  <2>4. ASSUME NEW u \in Values, NEW v \in Values, u # v PROVE FALSE
    <3>1. {u, v} \in SUBSET Values
      OBVIOUS
    <3>2. Cardinality({u, v}) = 2
      <4>1. Cardinality({u}) = 1 /\ IsFiniteSet({u})
        BY FS_Singleton
      <4>2. Cardinality({u} \cup {v}) = 2
        BY <2>4, <4>1, FS_AddElement
      <4> QED BY <4>2
    <3>3. Cardinality({u, v}) <= Cardinality(Values)
      BY <2>2, <3>1, FS_Subset
    <3> QED BY <2>1, <2>3, <3>2, <3>3
  <2> QED BY <2>4
<1>5. Determine(D).entry = chosen
    BY DEF Determine, Answered
<1>6. ASSUME NEW o \in D
      PROVE  \/ Specificity(o) < Specificity(chosen)
             \/ Specificity(o) = Specificity(chosen) /\ o.value = chosen.value
  <2>1. Specificity(o) <= Specificity(chosen)
    BY <1>3
  <2>2. CASE Specificity(o) = Specificity(chosen)
    <3>1. o \in F
      BY <1>3, <2>2
    <3>2. o.value \in Values /\ chosen.value \in Values
      BY <1>3, <3>1
    <3> QED BY <1>4, <2>2, <3>2
  <2>3. Specificity(o) \in Nat /\ Specificity(chosen) \in Nat
    BY <1>1, <1>3
  <2> HIDE DEF chosen
  <2> QED BY <2>1, <2>2, <2>3
<1> HIDE DEF chosen
<1> QED BY <1>1, <1>3, <1>5, <1>6

-----------------------------------------------------------------------------
(* consultar, by the three answers it can give.                            *)

LEMMA DetermineAnswers ==
    ASSUME NEW D
    PROVE  Determine(D).status \in {"AVAILABLE", "CONFLICT"} /\ Determine(D).day = day
           /\ Determine(D).missing = {}
BY DEF Determine, Answered

LEMMA NeedsContextAnswers ==
    ASSUME NEW D, NEW known
    PROVE  LET n == NeedsContext(D, known) IN
           /\ n.status = "NEEDS_CONTEXT" /\ n.day = day
           /\ n.missing = Missing(D, known)
           /\ n.options = Options(D, Missing(D, known))
BY DEF NeedsContext, Answered

LEMMA ConsultAnswers ==
    ASSUME ~IsRefused(published), NEW kind, NEW known
    PROVE  LET possible == Possible(kind, known, day)
               certain == Certain(kind, known, day)
               consulted == Consult(kind, known) IN
           /\ certain # {} => consulted = Determine(certain)
           /\ certain = {} /\ possible # {} => consulted = NeedsContext(possible, known)
           /\ possible = {} => consulted.status = "NOT_AVAILABLE" /\ consulted.day = day
<1> DEFINE ofKind == {e \in Loaded(published) : e.kind = kind}
           current == {e \in ofKind : IsInForce(e, day)}
           possible == {e \in current : ~IsExcluded(e, known)}
           certain == {e \in possible : IsDetermined(e, known)}
<1>1. /\ current = Current(kind, day)
      /\ possible = Possible(kind, known, day)
      /\ certain = Certain(kind, known, day)
    BY DEF Current, Possible, Certain, IsInForce
<1>2. ofKind # {} => kind \in DOMAIN published.kinds
    BY DEF IsRefused, Loaded
<1>3. /\ current \subseteq ofKind /\ possible \subseteq current /\ certain \subseteq possible
    OBVIOUS
<1>4. Consult(kind, known) =
        CASE kind \notin DOMAIN published.kinds -> Unavailable("TIPO_DESCONHECIDO")
          [] kind \in DOMAIN published.kinds /\ ofKind = {} ->
                Unavailable(IF published.kinds[kind] THEN "SEM_FONTE_OFICIAL"
                            ELSE "FORA_DE_VIGENCIA")
          [] ofKind # {} /\ current = {} -> Unavailable("FORA_DE_VIGENCIA")
          [] certain # {} -> Determine(certain)
          [] certain = {} /\ possible # {} -> NeedsContext(possible, known)
          [] current # {} /\ possible = {} -> Unavailable("CONTEXTO_INCOMPATIVEL")
    BY DEF Consult
<1>5. \A why : Unavailable(why).status = "NOT_AVAILABLE" /\ Unavailable(why).day = day
    BY DEF Unavailable, Answered
<1> HIDE DEF ofKind, current, possible, certain
<1>6. certain # {} => Consult(kind, known) = Determine(certain)
    BY <1>2, <1>3, <1>4
<1>7. certain = {} /\ possible # {} => Consult(kind, known) = NeedsContext(possible, known)
    BY <1>2, <1>3, <1>4
<1>8. possible = {} => Consult(kind, known).status = "NOT_AVAILABLE"
                       /\ Consult(kind, known).day = day
    BY <1>2, <1>3, <1>4, <1>5
<1> QED BY <1>1, <1>6, <1>7, <1>8

\* Certain entries speak of the case, and whatever speaks of it is certain.
LEMMA CertainSpeak ==
    ASSUME ~IsRefused(published), NEW kind, NEW known, NEW when
    PROVE  \A e : e \in Certain(kind, known, when)
                  <=> e \in published.entries /\ Speaks(e, kind, known, when)
BY DEF Certain, Possible, Current, Loaded, IsExcluded, IsDetermined, Speaks, IsRefused

\* What consultar answers is official, for the case it is asked of.
LEMMA ConsultIsOfficial ==
    ASSUME Readable, ~IsRefused(published), NEW kind, NEW known,
           Consult(kind, known).status = "AVAILABLE"
    PROVE  LET e == Consult(kind, known).entry IN
           /\ e \in published.entries /\ Speaks(e, kind, known, day)
           /\ \A o \in published.entries : Speaks(o, kind, known, day) =>
                 \/ Specificity(o) < Specificity(e)
                 \/ Specificity(o) = Specificity(e) /\ o.value = e.value
<1> DEFINE D == Certain(kind, known, day)
<1>1. D # {} /\ Consult(kind, known) = Determine(D)
  <2>1. CASE D = {}
    BY <2>1, ConsultAnswers, NeedsContextAnswers
  <2> QED BY <2>1, ConsultAnswers
<1>2. Entries(D)
  <2>1. D \in SUBSET published.entries
    BY CertainSpeak
  <2> QED BY <2>1, AuthorityAssumption, FS_Subset DEF Readable, Entries
<1> HIDE DEF D
<1>3. LET e == Determine(D).entry IN
      /\ e \in D
      /\ \A o \in D : \/ Specificity(o) < Specificity(e)
                      \/ Specificity(o) = Specificity(e) /\ o.value = e.value
    BY <1>1, <1>2, DetermineSpeaks
<1> QED BY <1>1, <1>3, CertainSpeak DEF D

-----------------------------------------------------------------------------
(* The inductive invariant: an answer that waits for a criterion is the one *)
(* consultar gives for what is known so far.                                *)

Pending == resposta.status \in {"AVAILABLE", "CONFLICT", "NEEDS_CONTEXT"}
Waiting ==
    LET possible == Possible(subject, context, resposta.day) IN
    resposta.status = "NEEDS_CONTEXT" =>
        /\ possible # {} /\ Certain(subject, context, resposta.day) = {}
        /\ resposta.missing = Missing(possible, context)
        /\ resposta.options = Options(possible, resposta.missing)
\* A talk is a record; the spouse of a case is a fact or unknown.
Talks == [goal : {"none", "EXUMACAO", "TRANSPORTE", "RECADASTRO"}, case : Cases \cup {"none"},
          human : BOOLEAN, spouse : [Cases -> SpouseFacts \cup {Unknown}]]

AuthorityInv ==
    /\ Readable
    /\ context = [f \in DOMAIN context |-> context[f]]
    /\ Pending => ~IsRefused(published)
    /\ talk \in Talks
    /\ AnswersAreOfficial
    /\ Waiting
    /\ LaneSpeaksForTheCase

LEMMA AuthorityInitInv == AuthorityInit => AuthorityInv
BY DEF AuthorityInit, AuthorityInv, Readable, Pending, AnswersAreOfficial, Waiting,
       LaneSpeaksForTheCase, Idle, NoReply, Talks

\* A consultation leaves an answer that is what it has to be.
LEMMA ConsultKeeps ==
    ASSUME Readable, ~IsRefused(published), NEW kind, NEW known,
           published' = published, subject' = kind, context' = known,
           resposta' = Consult(kind, known)
    PROVE  AnswersAreOfficial' /\ Waiting'
<1>1. resposta'.day = day
    BY ConsultAnswers, DetermineAnswers, NeedsContextAnswers
<1>2. AnswersAreOfficial'
    BY <1>1, ConsultIsOfficial DEF AnswersAreOfficial, Speaks
<1>3. Waiting'
  <2> SUFFICES ASSUME Consult(kind, known).status = "NEEDS_CONTEXT"
               PROVE  /\ Possible(kind, known, day) # {} /\ Certain(kind, known, day) = {}
                      /\ Consult(kind, known) = NeedsContext(Possible(kind, known, day), known)
    BY <1>1, NeedsContextAnswers
       DEF Waiting, Possible, Certain, Current, Loaded
  <2> QED BY ConsultAnswers, DetermineAnswers
<1> QED BY <1>2, <1>3

\* What the lane takes for known of the spouse is certain in the case at hand.
LEMMA LaneContextIsCertain ==
    ASSUME talk \in Talks,
           "conjuge" \in DOMAIN LaneContext(SpouseOf(talk))
    PROVE  talk.spouse[talk.case] =
              [value |-> IF LaneContext(SpouseOf(talk))["conjuge"] = "VIVO"
                         THEN "VIVO" ELSE "FALECIDO",
               confirmed |-> TRUE, disputed |-> FALSE]
<1> DEFINE s == SpouseOf(talk)
           f == talk.spouse[talk.case]
<1>1. /\ s \in {"VIVO", "FALECIDO"}
      /\ (IF LaneContext(s)["conjuge"] = "VIVO" THEN "VIVO" ELSE "FALECIDO") = s
    BY DEF LaneContext
<1>2. talk.case \in Cases /\ s = CertainSpouse(talk, talk.case)
    BY <1>1 DEF SpouseOf
<1>3. f \in SpouseFacts \cup {Unknown}
    BY <1>2 DEF Talks
<1>4. f.confirmed /\ ~f.disputed /\ s = f.value
    BY <1>1, <1>2 DEF CertainSpouse
<1>5. f \in SpouseFacts
    BY <1>3, <1>4 DEF Unknown
<1>6. f = [value |-> s, confirmed |-> TRUE, disputed |-> FALSE]
    BY <1>4, <1>5 DEF SpouseFacts
<1> HIDE DEF f, s
<1> QED BY <1>1, <1>6 DEF f, s

LEMMA AskLaneKeeps ==
    ASSUME AuthorityInv, NEW message, AskLane(message)
    PROVE  LaneSpeaksForTheCase'
<1> DEFINE kind == message.kind
           known == LaneContext(SpouseOf(talk))
           found == Consult(kind, known)
<1> SUFFICES ASSUME LaneReply(message).status = "AVAILABLE"
             PROVE  LET e == LaneReply(message).entry IN
                    /\ e.kind = LaneReply(message).kind /\ LaneReply(message).kind # "PRECO"
                    /\ ~talk.human
                    /\ published.sources[e.source]
                    /\ "conjuge" \in DOMAIN e.applies =>
                          talk.spouse[talk.case] =
                             [value |-> IF e.applies["conjuge"] = "VIVO"
                                        THEN "VIVO" ELSE "FALECIDO",
                              confirmed |-> TRUE, disputed |-> FALSE]
    BY DEF AskLane, LaneSpeaksForTheCase
<1>1. ~talk.human
    BY DEF AskLane
<1>2. /\ ~IsRefused(published) /\ found.status = "AVAILABLE" /\ kind # "PRECO"
      /\ LaneReply(message).entry = found.entry /\ LaneReply(message).kind = kind
    BY DEF LaneReply, Replied
<1>3. Speaks(found.entry, kind, known, day)
    BY <1>2, ConsultIsOfficial DEF AuthorityInv
<1> HIDE DEF found, known
<1>4. ASSUME "conjuge" \in DOMAIN found.entry.applies
      PROVE  /\ "conjuge" \in DOMAIN known
             /\ known["conjuge"] = found.entry.applies["conjuge"]
    BY <1>3, <1>4 DEF Speaks
<1>5. ASSUME "conjuge" \in DOMAIN found.entry.applies
      PROVE  talk.spouse[talk.case] =
                [value |-> IF found.entry.applies["conjuge"] = "VIVO"
                           THEN "VIVO" ELSE "FALECIDO",
                 confirmed |-> TRUE, disputed |-> FALSE]
    BY <1>4, <1>5, LaneContextIsCertain DEF AuthorityInv, known
<1> QED BY <1>1, <1>2, <1>3, <1>5 DEF Speaks

LEMMA AuthorityStep == AuthorityInv /\ [AuthorityNext]_authorityVars => AuthorityInv'
<1> SUFFICES ASSUME AuthorityInv, [AuthorityNext]_authorityVars PROVE AuthorityInv'
    OBVIOUS
<1> USE DEF AuthorityInv
\* what the attendance was told stays, and so does what the lane said
<1>1. ASSUME UNCHANGED <<published, subject, context, resposta, talk, lane>>
      PROVE  AuthorityInv'
    BY <1>1 DEF Readable, Pending, AnswersAreOfficial, Waiting, LaneSpeaksForTheCase,
       Speaks, Possible, Certain, Current, Loaded, IsRefused
<1>2. ASSUME UNCHANGED <<published, subject, context, resposta>>
      PROVE  /\ (Pending => ~IsRefused(published))'
             /\ AnswersAreOfficial' /\ Waiting'
    BY <1>2 DEF Pending, AnswersAreOfficial, Waiting, Speaks, Possible, Certain, Current,
       Loaded, IsRefused
<1>3. ASSUME UNCHANGED <<published, talk, lane>>
      PROVE  LaneSpeaksForTheCase'
    BY <1>3 DEF LaneSpeaksForTheCase
<1>4. CASE NextDay
    BY <1>1, <1>4 DEF NextDay
<1>5. ASSUME NEW kind \in Questions, NEW tool \in Contracts, NEW raw \in Arguments,
             ConsultByTool(kind, tool, raw)
      PROVE  AuthorityInv'
  <2>1. LaneSpeaksForTheCase' /\ Readable' /\ ~IsRefused(published') /\ (talk \in Talks)'
    BY <1>3, <1>5 DEF ConsultByTool, Readable
  <2>2. context' = [f \in DOMAIN context' |-> context'[f]]
    BY <1>5 DEF ConsultByTool
  <2>3. AnswersAreOfficial' /\ Waiting'
    <3>1. CASE IsCanonical(tool, raw)
      BY <1>5, <3>1, ConsultKeeps DEF ConsultByTool
    <3>2. CASE ~IsCanonical(tool, raw)
      BY <1>5, <3>2 DEF ConsultByTool, AnswersAreOfficial, Waiting, Unavailable, Answered
    <3> QED BY <3>1, <3>2
  <2> QED BY <2>1, <2>2, <2>3 DEF IsRefused
<1>6. ASSUME NEW f \in resposta.missing, NEW option \in resposta.options[f], Tell(f, option)
      PROVE  AuthorityInv'
  <2> DEFINE known == [g \in DOMAIN context \cup {f} |-> IF g = f THEN option ELSE context[g]]
  <2>1. LaneSpeaksForTheCase' /\ Readable' /\ (talk \in Talks)'
    BY <1>3, <1>6 DEF Tell, Readable
  <2>2. ~IsRefused(published)
    BY <1>6 DEF Tell, Pending
  <2>3. context' = [g \in DOMAIN context' |-> context'[g]]
    BY <1>6 DEF Tell
  <2>4. AnswersAreOfficial' /\ Waiting'
    <3>1. /\ published' = published /\ subject' = subject /\ context' = known
          /\ resposta' = Consult(subject, known)
      BY <1>6 DEF Tell
    <3> HIDE DEF known
    <3> QED BY <2>2, <3>1, ConsultKeeps
  <2>5. published' = published
    BY <1>6 DEF Tell
  <2> QED BY <2>1, <2>2, <2>3, <2>4, <2>5 DEF IsRefused
<1>7. CASE Write
  <2>1. UNCHANGED <<published, subject, context, resposta, talk, lane>>
    BY <1>7 DEF Write, Register
  <2> QED BY <1>1, <2>1
<1>8. ASSUME NEW message \in Messages, AskLane(message) PROVE AuthorityInv'
  <2>1. UNCHANGED <<published, subject, context, resposta, talk>>
    BY <1>8 DEF AskLane
  <2> QED BY <1>2, <1>8, <2>1, AskLaneKeeps DEF Readable
<1>9. ASSUME NEW new \in Talks, Talk(new) PROVE AuthorityInv'
  <2>1. UNCHANGED <<published, subject, context, resposta>> /\ talk' \in Talks
    BY <1>9 DEF Talk
  <2>2. LaneSpeaksForTheCase'
    BY <1>9 DEF Talk, LaneSpeaksForTheCase, NoReply
  <2> QED BY <1>2, <2>1, <2>2 DEF Readable
<1>10. CASE Inform
  <2>1. ASSUME NEW s \in SpouseFacts, LearnSpouse(s) PROVE AuthorityInv'
    <3>1. [talk EXCEPT !.spouse[talk.case] = s] \in Talks
      BY DEF Talks
    <3> QED BY <1>9, <2>1, <3>1 DEF LearnSpouse
  <2>2. ASSUME NEW goal \in {"EXUMACAO", "TRANSPORTE", "RECADASTRO"}, NEW c \in Cases,
               TurnTo(goal, c)
        PROVE  AuthorityInv'
    <3>1. [talk EXCEPT !.goal = goal, !.case = c] \in Talks
      BY DEF Talks
    <3> QED BY <1>9, <2>2, <3>1 DEF TurnTo
  <2>3. CASE HandOver
    <3>1. [talk EXCEPT !.human = TRUE] \in Talks
      BY DEF Talks
    <3> QED BY <1>9, <2>3, <3>1 DEF HandOver
  <2> QED BY <1>8, <1>10, <2>1, <2>2, <2>3 DEF Inform
<1>11. CASE UNCHANGED authorityVars
    BY <1>1, <1>11 DEF authorityVars
<1> QED BY <1>4, <1>5, <1>6, <1>7, <1>10, <1>11 DEF AuthorityNext, Attend, TellMissing

\* The invariant holds of every behaviour of the gateway.
THEOREM AuthorityInvariant == AuthoritySpec => []AuthorityInv
BY AuthorityInitInv, AuthorityStep, PTL DEF AuthoritySpec

\* Whatever the catalogue, what is answered is the word of an approved source in
\* force, about the case as it is known, and no source that knows the case as well
\* says otherwise (consultar, carregarDeBytes).
THEOREM GatewayAnswersAreOfficial == AuthoritySpec => []AnswersAreOfficial
<1>1. AuthorityInv => AnswersAreOfficial
    BY DEF AuthorityInv
<1> QED BY <1>1, AuthorityInvariant, PTL

\* Whatever the catalogue, the information lane states a rule that depends on the
\* spouse only from a confirmed, undisputed fact of the case at hand, and no price
\* (currentContext, officialInformationReply).
THEOREM LaneSpeaks == AuthoritySpec => []LaneSpeaksForTheCase
<1>1. AuthorityInv => LaneSpeaksForTheCase
    BY DEF AuthorityInv
<1> QED BY <1>1, AuthorityInvariant, PTL

-----------------------------------------------------------------------------
(* The options lead on.                                                    *)

\* One more criterion, with a value some possible entry asks for, leaves that
\* entry possible and that criterion no longer missing.
LEMMA OneMoreCriterion ==
    ASSUME NEW kind, NEW known, NEW when, NEW f, NEW option,
           f \in Missing(Possible(kind, known, when), known),
           option \in Options(Possible(kind, known, when), {f})[f],
           NEW more, DOMAIN more = DOMAIN known \cup {f}, more[f] = option,
           \A g \in DOMAIN known \ {f} : more[g] = known[g]
    PROVE  /\ Possible(kind, more, when) # {}
           /\ f \notin Missing(Possible(kind, more, when), more)
           /\ Missing(Possible(kind, more, when), more)
                 \subseteq Missing(Possible(kind, known, when), known)
<1>1. f \notin DOMAIN known
    BY DEF Missing
<1>2. PICK e \in Possible(kind, known, when) : f \in DOMAIN e.applies /\ e.applies[f] = option
    BY DEF Options
<1>3. e \in Possible(kind, more, when)
    BY <1>1, <1>2 DEF Possible, IsExcluded
<1>4. Possible(kind, more, when) \subseteq Possible(kind, known, when)
    BY <1>1 DEF Possible, IsExcluded
<1>5. f \notin Missing(Possible(kind, more, when), more)
    BY DEF Missing
<1>6. Missing(Possible(kind, more, when), more)
        \subseteq Missing(Possible(kind, known, when), known)
    BY <1>4 DEF Missing
<1> QED BY <1>3, <1>4, <1>5, <1>6

\* Whatever the catalogue and the order of the questions, an option the gateway
\* offers is never found to fit nothing, and less is missing after it
\* (opcoes_por_campo).
THEOREM OfferedOptionsLeadOn == AuthoritySpec => OptionsLeadOn
<1> DEFINE Step ==
      (/\ resposta.status = "NEEDS_CONTEXT" /\ resposta.day = day /\ subject' = subject
       /\ DOMAIN context \subseteq DOMAIN context' /\ context' # context) =>
         /\ resposta'.status # "NOT_AVAILABLE"
         /\ resposta'.missing \subseteq resposta.missing /\ resposta'.missing # resposta.missing
<1>1. AuthorityInv /\ [AuthorityNext]_authorityVars => Step
  <2> SUFFICES ASSUME AuthorityInv, AuthorityNext, context' # context,
                      DOMAIN context \subseteq DOMAIN context', subject' = subject,
                      resposta.status = "NEEDS_CONTEXT", resposta.day = day
               PROVE  /\ resposta'.status # "NOT_AVAILABLE"
                      /\ resposta'.missing \subseteq resposta.missing
                      /\ resposta'.missing # resposta.missing
      BY DEF authorityVars
  <2>1. ASSUME NEW kind, NEW tool, NEW raw, ConsultByTool(kind, tool, raw) PROVE FALSE
    <3>1. context' = << >>
      BY <2>1 DEF ConsultByTool
    <3>2. DOMAIN context = {}
      BY <3>1, DOMAIN << >> = {}
    <3>3. context = << >>
      BY <3>2 DEF AuthorityInv
    <3> QED BY <3>1, <3>3
  <2>2. TellMissing
    BY <2>1 DEF AuthorityNext, NextDay, Attend, Write, Register, Inform, AskLane, Talk,
       LearnSpouse, TurnTo, HandOver
  <2>3. PICK f \in resposta.missing : \E option \in resposta.options[f] : Tell(f, option)
    BY <2>2 DEF TellMissing
  <2>4. PICK option \in resposta.options[f] : Tell(f, option)
    BY <2>3
  <2> DEFINE more == [g \in DOMAIN context \cup {f} |-> IF g = f THEN option ELSE context[g]]
             before == Possible(subject, context, day)
             now == Possible(subject, more, day)
  <2>5. /\ ~IsRefused(published) /\ resposta.missing = Missing(before, context)
        /\ resposta.options = Options(before, resposta.missing)
        /\ resposta' = Consult(subject, more)
    BY <2>4 DEF AuthorityInv, Pending, Waiting, Tell
  <2>6. option \in Options(before, {f})[f]
    BY <2>3, <2>4, <2>5 DEF Options
  <2>7. /\ now # {} /\ f \notin Missing(now, more)
        /\ Missing(now, more) \subseteq resposta.missing
    <3>1. f \in Missing(before, context)
      BY <2>3, <2>5
    <3>2. /\ DOMAIN more = DOMAIN context \cup {f} /\ more[f] = option
          /\ \A g \in DOMAIN context \ {f} : more[g] = context[g]
      OBVIOUS
    <3> HIDE DEF more
    <3>3. /\ now # {} /\ f \notin Missing(now, more)
          /\ Missing(now, more) \subseteq Missing(before, context)
      BY <2>6, <3>1, <3>2, OneMoreCriterion
    <3> QED BY <2>5, <3>3
  <2> HIDE DEF more, before, now
  <2>8. CASE Certain(subject, more, day) # {}
    <3>1. resposta' = Determine(Certain(subject, more, day))
      BY <2>5, <2>8, ConsultAnswers
    <3> QED BY <2>3, <3>1, DetermineAnswers
  <2>9. CASE Certain(subject, more, day) = {}
    <3>1. resposta' = NeedsContext(now, more)
      BY <2>5, <2>7, <2>9, ConsultAnswers DEF now
    <3> QED BY <2>3, <2>7, <3>1, NeedsContextAnswers
  <2> QED BY <2>8, <2>9
<1>2. AuthoritySpec => [][Step]_authorityVars
    BY <1>1, AuthorityInvariant, PTL DEF AuthoritySpec
<1> QED BY <1>2 DEF OptionsLeadOn

=============================================================================
