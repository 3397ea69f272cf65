------------------------- MODULE ConversationStore -------------------------
(***************************************************************************)
(* The session event store of a conversation.  A server reads the stored   *)
(* rows, rebuilds the reducer's state from them                            *)
(* (runtime/server_transition.ts), applies the events of a message and     *)
(* submits the difference (engine/persistence.ts) as one transition that   *)
(* migration 0020 replays under its own constraints.  Rows are named by    *)
(* the index of the object they store, the identifiers of the code being   *)
(* drawn at random; a subject is stored as its HMAC, which is injective.   *)
(* Nothing the model does depends on the order of rows of one table, so    *)
(* they are kept in the order of their insertion.                          *)
(***************************************************************************)
EXTENDS TurnPlanning
LOCAL INSTANCE SequencesExt
LOCAL INSTANCE FiniteSetsExt

CONSTANTS
    Servers,    \* executions that handle the messages of the session
    Messages,   \* what a message may be: a sequence of events, or a signal
    Openings,   \* bound: the messages a session may start with
    MaxSeq,     \* bound on the transitions of the session
    MaxRollback \* bound on the rollbacks of an administrator

VARIABLES
    rows,       \* the tables of the session
    server,     \* what each server has read and prepared
    memory,     \* ghost: the state a server that never restarts would have
    refusal     \* ghost: the last answer of the database

vars == <<rows, server, memory, refusal>>

\* a message is a list of events; only a signal speaks in the name of the administration
InputFields == {"code", "value", "source", "confidence", "authoritative"}
IsInput(ins) == ins \in Seq(ToSet(ins)) /\ \A in \in ToSet(ins) : DOMAIN in = InputFields
IsPlain(ins) == IsInput(ins) /\ \A in \in ToSet(ins) : ~in.authoritative
IsEvent(e) == /\ IsInput(e.facts) /\ (e.kind # "SIGNAL" => IsPlain(e.facts))
              /\ (e.kind = "COMPLAINT" => IsPlain(e.baseFacts))
ASSUME MessagesAssumption ==
    \A m \in DOMAIN Messages :
        LET events == Messages[m].events
        IN events \in Seq(ToSet(events)) /\ \A e \in ToSet(events) : IsEvent(e)

NoRows == [seq |-> 0, cases |-> <<>>, goals |-> <<>>, facts |-> <<>>,
           questions |-> {}, actions |-> {}, log |-> <<>>, rollbacks |-> 0,
           refused |-> "none"]
Hmac(ref) == <<"hmac">> \o ref
QuestionOf(q) == [fact |-> q.fact, goal |-> q.goal, conflict |-> q.conflict, asked |-> q.asked]
ActionOf(a) == [action |-> a.action, goal |-> a.goal, asked |-> a.asked]
InState(r, state) == {q \in r.questions : q.state = state}
\* order by park_order
Parked(r) ==
    LET parked == InState(r, "PARKED")
        orders == {q.order : q \in parked}
        list == Among([k \in 1 .. Newest(orders) |-> k], orders)
    IN [i \in DOMAIN list |-> QuestionOf(CHOOSE q \in parked : q.order = list[i])]
PendingActions(r) == {ActionOf(a) : a \in {b \in r.actions : b.status = "PENDING"}}
Pending(r) == IF InState(r, "PENDING") = {} THEN NoQuestion
              ELSE QuestionOf(CHOOSE q \in InState(r, "PENDING") : TRUE)

-----------------------------------------------------------------------------
(* Reading: topic, origin and handoff are not stored.                      *)

HydratePersistedState(r) ==
    LET focus == Newest({g \in DOMAIN r.goals : r.goals[g].status = "ACTIVE"})
    IN [InitState EXCEPT
          !.seq = r.seq,
          !.cases = [c \in DOMAIN r.cases |->
                        [kind |-> r.cases[c].kind, ref |-> r.cases[c].hmac]],
          !.goals = r.goals, !.facts = r.facts, !.question = Pending(r),
          !.parked = Parked(r), !.actions = PendingActions(r),
          !.topic = IF focus = 0 THEN "none" ELSE GoalDef[r.goals[focus].code].topic]

\* what both sides hash: the reducer gives a parked question its place in the list,
\* the store the place it had when it was parked
Asked(actions) == {[action |-> a.action, goal |-> a.goal] : a \in actions}
CanonicalState(s, hmac) ==
    [cases |-> [c \in DOMAIN s.cases |-> [kind |-> s.cases[c].kind, hmac |-> hmac[c]]],
     goals |-> s.goals, facts |-> s.facts, question |-> s.question,
     parked |-> {<<i, s.parked[i]>> : i \in DOMAIN s.parked}, actions |-> Asked(s.actions)]
Hmacs(r) == [c \in DOMAIN r.cases |-> r.cases[c].hmac]
ConvStateCanonical(r) ==
    [cases |-> r.cases, goals |-> r.goals, facts |-> r.facts, question |-> Pending(r),
     parked |-> {<<q.order, QuestionOf(q)>> : q \in InState(r, "PARKED")},
     actions |-> Asked(PendingActions(r))]

-----------------------------------------------------------------------------
(* Preparing: the difference of two states, in the order the constraints   *)
(* require.                                                                *)

Op(kind, id, row) == [op |-> kind, id |-> id, row |-> row]
NewOnes(kind, old, new) == [i \in 1 .. Len(new) - Len(old) |->
                               Op(kind, Len(old) + i, new[Len(old) + i])]
Ops(seq, S, As(_)) == LET kept == Among(seq, S) IN [i \in DOMAIN kept |-> As(kept[i])]
Indices(seq) == [i \in DOMAIN seq |-> i]

ParkedAt(next, q) == {i \in DOMAIN next.parked : next.parked[i] = q}
QuestionLeft(prev, next) ==
    LET q == prev.question
        at == ParkedAt(next, q)
    IN CASE q = NoQuestion \/ q = next.question -> <<>>
         [] q \notin {NoQuestion, next.question} /\ at # {} ->
                <<Op("park_question", Min(at), q)>>
         [] OTHER -> <<Op("close_question", 0, [q |-> q, state |-> "ANSWERED"])>>
QuestionsDropped(prev, next) ==
    Ops(prev.parked,
        {p \in ToSet(prev.parked) : ParkedAt(next, p) = {} /\ p # next.question},
        LAMBDA p : Op("close_question", 0, [q |-> p, state |-> "CANCELLED"]))
QuestionEntered(prev, next) ==
    LET n == next.question
    IN CASE n = NoQuestion \/ n = prev.question -> <<>>
         [] n \notin {NoQuestion, prev.question} /\ n \in ToSet(prev.parked) ->
                <<Op("restore_question", 0, n)>>
         [] OTHER -> <<Op("set_question", 0, n)>>

\* bug: the next question enters before the current one leaves
EnterFirst(prev, next) ==
    QuestionEntered(prev, next) \o QuestionLeft(prev, next) \o QuestionsDropped(prev, next)
\* at most one question is pending at any time, so one leaves before one enters
QuestionOps(prev, next) ==
    QuestionLeft(prev, next) \o QuestionsDropped(prev, next) \o QuestionEntered(prev, next)

DiffTransition(prev, next, hmac) ==
    LET cases == [c \in DOMAIN next.cases |->
                     [kind |-> next.cases[c].kind, hmac |-> hmac[c]]]
        moved == {g \in DOMAIN prev.goals : \/ prev.goals[g].status # next.goals[g].status
                                            \/ prev.goals[g].reason # next.goals[g].reason}
        retired(i) == prev.facts[i].status = "ACTIVE" /\ next.facts[i].status = "SUPERSEDED"
        doubted(i) == \/ prev.facts[i].confidence # next.facts[i].confidence
                      \/ prev.facts[i].conflict # next.facts[i].conflict
        touched == {i \in DOMAIN prev.facts : retired(i) \/ doubted(i)}
        touch(i) == Op(IF retired(i) THEN "supersede_fact" ELSE "set_fact_confidence",
                       i, next.facts[i])
        actions(kind, from, to) == LET list == SetToSeq(from \ to)
                                   IN [i \in DOMAIN list |-> Op(kind, 0, list[i])]
    IN NewOnes("open_case", prev.cases, cases)
       \o NewOnes("push_goal", prev.goals, next.goals)
       \o Ops(Indices(prev.goals), moved, LAMBDA g : Op("set_goal_status", g, next.goals[g]))
       \o Ops(Indices(prev.facts), touched, touch)
       \o NewOnes("record_fact", prev.facts, next.facts)
       \o QuestionOps(prev, next)
       \o actions("close_action", prev.actions, next.actions)
       \o actions("open_action", next.actions, prev.actions)

-----------------------------------------------------------------------------
(* Writing: conv_apply_ops under the constraints of the tables.            *)

Refuse(r, why) == [r EXCEPT !.refused = IF @ = "none" THEN why ELSE @]
Terminal == {"RESOLVED", "ABANDONED"}
SecondOpen(r, g, row) ==
    /\ row.status \in OpenStatuses /\ row.case # 0
    /\ \E o \in DOMAIN r.goals \ {g} : /\ r.goals[o].case = row.case
                                       /\ r.goals[o].code = row.code
                                       /\ r.goals[o].status \in OpenStatuses
SecondFact(r, i, row) ==
    /\ FactDef[row.code].scope = "CASE" /\ row.owner # 0 /\ row.confidence # "CONFLICTING"
    /\ \E j \in DOMAIN r.facts \ {i} :
          /\ r.facts[j].code = row.code /\ r.facts[j].owner = row.owner
          /\ r.facts[j].status = "ACTIVE" /\ r.facts[j].confidence # "CONFLICTING"

ApplyGoal(r, op, seq) ==
    LET row == [op.row EXCEPT !.opened = seq, !.closed = IF @ = 0 THEN 0 ELSE seq]
        g == op.id
        set == [r EXCEPT !.goals[g].status = row.status, !.goals[g].reason = row.reason,
                         !.goals[g].closed = IF row.status \in Terminal THEN seq ELSE 0]
    IN IF op.op = "push_goal"
       THEN CASE row.overlay # 0 /\ r.goals[row.overlay].status \in Terminal ->
                    Refuse(r, "CLOSED_BASE")
              [] SecondOpen(r, g, row) -> Refuse(r, "SECOND_OPEN_GOAL")
              [] OTHER -> [r EXCEPT !.goals = Append(@, row)]
       ELSE CASE r.goals[g].status \in Terminal /\ row.status # r.goals[g].status ->
                    Refuse(r, "TERMINAL_GOAL")
              [] SecondOpen(r, g, [r.goals[g] EXCEPT !.status = row.status]) ->
                    Refuse(r, "SECOND_OPEN_GOAL")
              [] OTHER -> set

\* only the entry of authoritative signals may record an authoritative fact
ApplyFact(r, op, seq, covered) ==
    LET row == [op.row EXCEPT !.at = seq, !.supAt = 0, !.status = "ACTIVE",
                              !.why = "none", !.by = 0]
        i == op.id
        doubted == [r.facts[i] EXCEPT !.confidence = op.row.confidence,
                                      !.conflict = op.row.conflict]
    IN CASE op.op = "record_fact" ->
                IF row.authoritative /\ row.code \notin covered THEN Refuse(r, "NOT_COVERED")
                ELSE IF SecondFact(r, i, row) THEN Refuse(r, "SECOND_ACTIVE_FACT")
                ELSE [r EXCEPT !.facts = Append(@, row)]
         [] op.op = "supersede_fact" ->
                [r EXCEPT !.facts[i].status = "SUPERSEDED", !.facts[i].by = op.row.by,
                          !.facts[i].supAt = seq, !.facts[i].why = op.row.why]
         [] OTHER -> IF r.facts[i].status = "ACTIVE" /\ SecondFact(r, i, doubted)
                     THEN Refuse(r, "SECOND_ACTIVE_FACT")
                     ELSE [r EXCEPT !.facts[i] = doubted]

\* a question leaves its state only for the one its operation names
ApplyQuestion(r, op, seq) ==
    LET q == IF op.op = "close_question" THEN op.row.q ELSE op.row
        from == CASE op.op = "park_question" -> {"PENDING"}
                  [] op.op = "restore_question" -> {"PARKED"}
                  [] OTHER -> {"PENDING", "PARKED"}
        mine == {x \in r.questions : QuestionOf(x) = q /\ x.state \in from}
        row(state, order) == [fact |-> q.fact, goal |-> q.goal, conflict |-> q.conflict,
                              asked |-> q.asked, state |-> state, order |-> order]
        to == CASE op.op = "park_question" -> row("PARKED", op.id)
                [] op.op = "restore_question" -> row("PENDING", 0)
                [] op.op = "close_question" -> row(op.row.state, 0)
                [] OTHER -> [row("PENDING", 0) EXCEPT !.asked = seq]
    IN CASE op.op # "set_question" /\ mine = {} -> Refuse(r, "QUESTION_NOT_OPEN")
         [] to.state = "PENDING" /\ InState(r, "PENDING") # {} -> Refuse(r, "SECOND_QUESTION")
         [] OTHER -> [r EXCEPT !.questions = (@ \ mine) \cup {to}]

ApplyAction(r, op, seq) ==
    LET mine == {a \in r.actions : a.status = "PENDING" /\ ActionOf(a) = op.row}
        row(status, asked) == [action |-> op.row.action, goal |-> op.row.goal,
                               asked |-> asked, status |-> status]
        same == \E a \in r.actions : /\ a.status = "PENDING" /\ a.goal = op.row.goal
                                     /\ a.action = op.row.action
    IN IF op.op = "open_action"
       THEN IF same THEN Refuse(r, "SECOND_OPEN_ACTION")
            ELSE [r EXCEPT !.actions = @ \cup {row("PENDING", seq)}]
       ELSE IF mine = {} THEN Refuse(r, "ACTION_NOT_OPEN")
            ELSE [r EXCEPT !.actions = (@ \ mine) \cup {row("RESOLVED", op.row.asked)}]

OpenCase(r, op) ==
    IF op.row \in ToSet(r.cases) THEN Refuse(r, "KNOWN_SUBJECT")
    ELSE [r EXCEPT !.cases = Append(@, op.row)]

ApplyOp(r, op, seq, covered) ==
    CASE r.refused # "none" -> r
      [] r.refused = "none" /\ op.op = "open_case" -> OpenCase(r, op)
      [] r.refused = "none" /\ op.op \in {"push_goal", "set_goal_status"} ->
            ApplyGoal(r, op, seq)
      [] r.refused = "none" /\ op.op \in {"record_fact", "supersede_fact",
                                          "set_fact_confidence"} ->
            ApplyFact(r, op, seq, covered)
      [] r.refused = "none" /\ op.op \in {"open_action", "close_action"} ->
            ApplyAction(r, op, seq)
      [] OTHER -> ApplyQuestion(r, op, seq)

ApplyOps(r, ops, seq, covered) ==
    FoldLeft(LAMBDA t, op : ApplyOp(t, op, seq, covered), [r EXCEPT !.seq = seq], ops)


-----------------------------------------------------------------------------
(* A message: read, reduce and prepare; then submit, perhaps again.        *)

Idle == [message |-> "none"]
Reduce(s, m) == ApplyAll(s, m.events)

\* HMACs are known for the stored cases and computed for the new ones
SubjectResolver(r, next) ==
    [c \in DOMAIN next.cases |-> IF c \in DOMAIN r.cases THEN r.cases[c].hmac
                                 ELSE Hmac(next.cases[c].ref)]
Fresh(op) == op.op \in {"open_case", "push_goal", "record_fact", "set_question", "open_action"}

Init ==
    /\ rows = NoRows
    /\ server = [w \in Servers |-> Idle]
    /\ memory = InitState
    /\ refusal = "none"

PrepareTransition(w, m) ==
    LET previous == HydratePersistedState(rows)
        next == Reduce(previous, Messages[m])
        hmac == SubjectResolver(rows, next)
        ops == DiffTransition(previous, next, hmac)
        fresh == \E i \in DOMAIN ops : Fresh(ops[i])
    IN /\ server[w] = Idle
       /\ rows.seq < MaxSeq
       /\ rows.seq = 0 => m \in Openings
       /\ next.error = "none"
       /\ server' = [server EXCEPT ![w] =
             [message |-> m, expected |-> rows.seq, ops |-> ops,
              key |-> <<rows.seq, m, IF fresh THEN w ELSE "no identifier">>,
              hash |-> CanonicalState(next, hmac)]]
       /\ UNCHANGED <<rows, memory, refusal>>

Covered(m) ==
    UNION {{f.code : f \in ToSet(e.facts)} : e \in {x \in ToSet(m.events) : x.kind = "SIGNAL"}}

\* conv_commit_transition
Verdict(r, p) ==
    LET t == ApplyOps(r, p.ops, r.seq + 1, Covered(Messages[p.message]))
    IN CASE p.key \in ToSet(r.log) -> [answer |-> "REPLAYED", rows |-> r]
         [] p.key \notin ToSet(r.log) /\ r.seq # p.expected -> [answer |-> "MOVED", rows |-> r]
         [] OTHER ->
            IF t.refused # "none" THEN [answer |-> t.refused, rows |-> r]
            ELSE IF ConvStateCanonical(t) # p.hash THEN [answer |-> "HASH_MISMATCH", rows |-> r]
            ELSE [answer |-> "none", rows |-> [t EXCEPT !.log = Append(@, p.key)]]

\* An answer may be lost: the server then submits the same transition again.
\* A server that dies is one that never submits.
CommitTransition(w) ==
    /\ server[w] # Idle
    /\ \E v \in {Verdict(rows, server[w])} :
        /\ rows' = v.rows
        /\ refusal' = v.answer
        /\ server' \in {[server EXCEPT ![w] = Idle]}
                       \cup (IF v.answer = "none" THEN {server} ELSE {})
        /\ memory' = IF v.answer = "none" THEN Reduce(memory, Messages[server[w].message])
                     ELSE memory

\* bug: what was already superseded is superseded again
WithdrawnAgain(f, to, seq) ==
    IF f.at > to THEN [f EXCEPT !.status = "SUPERSEDED", !.supAt = seq, !.why = "ROLLBACK",
                                !.conflict = 0] ELSE f
Withdrawn(f, to, seq) ==
    IF f.status = "ACTIVE" /\ f.at > to
    THEN [f EXCEPT !.status = "SUPERSEDED", !.supAt = seq, !.why = "ROLLBACK",
                   !.conflict = 0] ELSE f
\* a logical rollback: only new writes, whoever read the state before is refused
RollbackToSeq(to) ==
    LET seq == rows.seq + 1
        later(r) == r.asked > to
        goal(g) == IF g.status \in OpenStatuses /\ g.opened > to
                   THEN [g EXCEPT !.status = "ABANDONED", !.closed = seq,
                                  !.reason = Because("ROLLBACK", "none")] ELSE g
        question(q) == IF q.state \in {"PENDING", "PARKED"} /\ later(q)
                       THEN [q EXCEPT !.state = "CANCELLED", !.order = 0] ELSE q
        action(a) == IF a.status = "PENDING" /\ later(a)
                     THEN [a EXCEPT !.status = "CANCELLED"] ELSE a
        r == [rows EXCEPT
                !.seq = seq, !.log = Append(@, <<rows.seq, "rollback", to>>),
                !.rollbacks = @ + 1,
                !.facts = [i \in DOMAIN @ |-> Withdrawn(@[i], to, seq)],
                !.goals = [g \in DOMAIN @ |-> goal(@[g])],
                !.questions = {question(q) : q \in @},
                !.actions = {action(a) : a \in @}]
    IN /\ rows.rollbacks < MaxRollback /\ to < rows.seq
       /\ rows' = r
       /\ memory' = HydratePersistedState(r)
       /\ refusal' = "none"
       /\ UNCHANGED server

Next ==
    \/ \E w \in Servers : \/ \E m \in DOMAIN Messages : PrepareTransition(w, m)
                          \/ CommitTransition(w)
    \/ \E to \in 0 .. MaxSeq : RollbackToSeq(to)

Spec == Init /\ [][Next]_vars

-----------------------------------------------------------------------------
(* Properties.                                                             *)


\* The operations of a difference come in an order the constraints of the tables
\* accept: no question or action is ever refused for the one it replaces.
OrderSuffices ==
    refusal \notin {"QUESTION_NOT_OPEN", "SECOND_QUESTION", "ACTION_NOT_OPEN",
                    "SECOND_OPEN_ACTION", "NOT_COVERED"}

\* The same of the facts: "na ordem exigida pelas constraints: [...] supersessao,
\* confianca, novos fatos", what is superseded leaves before another value is confirmed.
SupersessionFirst == refusal # "SECOND_ACTIVE_FACT"

\* "o contrato de comparacao entre o reducer TypeScript e a persistencia": what the
\* reducer made of a message is what its operations leave in the store, so that no
\* message is refused because the two disagree.
HashesAgree == refusal # "HASH_MISMATCH"

\* Whatever is submitted, replayed or rolled back, what was written stays: a fact
\* keeps what it said and once superseded never speaks again, a closed goal keeps
\* its end, an answered question and a settled action are never pending again.
SaysTheSame(f, g) ==
    /\ f.code = g.code /\ f.value = g.value /\ f.owner = g.owner /\ f.at = g.at
    /\ f.status = "SUPERSEDED" => f = g
Ended == {"ANSWERED", "CANCELLED", "RESOLVED"}
SaidStays ==
    /\ IsPrefix(rows.log, rows'.log)
    /\ \A i \in DOMAIN rows.facts : SaysTheSame(rows.facts[i], rows'.facts[i])
    /\ {q \in rows.questions : q.state \in Ended} \subseteq rows'.questions
    /\ {a \in rows.actions : a.status \in Ended} \subseteq rows'.actions
EndsStay ==
    \A g \in DOMAIN rows.goals :
        rows.goals[g].status \in Terminal => rows'.goals[g] = rows.goals[g]
HistoryKept == [][SaidStays /\ EndsStay]_vars
=============================================================================
