------------------------- MODULE ConversationEngine -------------------------
(***************************************************************************)
(* The deterministic reducer of a conversation (engine/engine.ts): a state *)
(* of cases, goals, facts, one pending question, parked questions and      *)
(* pending actions, and one step per conversational event or authoritative *)
(* signal.  The catalogue (engine/catalog.ts) is a constant: goals, facts, *)
(* relations and authoritative resolutions are data the reducer interprets.*)
(* A goal, fact or case is named by its index; 0 stands for null.  An      *)
(* owner is the case or the goal a fact belongs to, by its scope.          *)
(* A value is always one of its fact's domain (the guard of the language   *)
(* drops any other before it gets here), and no goal is forbidden (no code *)
(* writes forbidden_goals), so neither refusal is modelled.                *)
(***************************************************************************)
EXTENDS Integers, Sequences, FiniteSets
LOCAL INSTANCE SequencesExt
LOCAL INSTANCE FiniteSetsExt

CONSTANTS
    GoalDef,     \* goal code -> [topic, case, informational, explicit,
                 \*               required, completion, optional]
    FactDef,     \* fact code -> [scope, rank, sources, relevant, depends, derived,
                 \*   authority, authValues, blocking, accepts, rules, repeatable]
    Relations,   \* sequence of [name, goal, statuses, when, effects, onChild]
    Resolution,  \* fact code -> action that settles an authoritative gap
    Complaint    \* the code of the complaint goal

\* validateCatalogs: the catalogue names only what it declares, and what the
\* administration settles has an action and is never taken from the citizen
Said == {"USER_EXPLICIT", "USER_CORRECTION"}
CatalogIsValid ==
    LET facts == DOMAIN FactDef
        named(def) == {c.fact : c \in def.relevant} \cup def.depends
        effects(r) == ToSet(r.effects \o r.onChild)
    IN /\ \A g \in DOMAIN GoalDef : ToSet(GoalDef[g].required) \subseteq facts
       /\ \A f \in facts :
             /\ named(FactDef[f]) \subseteq facts
             /\ FactDef[f].derived => "DERIVED_RULE" \in FactDef[f].sources
             /\ FactDef[f].authority => FactDef[f].sources \cap Said = {}
             /\ \/ FactDef[f].authority
                \/ FactDef[f].authValues \cup FactDef[f].blocking # {}
                => Resolution[f] # "none"
       /\ \A r \in ToSet(Relations) :
             /\ r.goal \in DOMAIN GoalDef
             /\ {c.fact : c \in r.when} \subseteq facts
             /\ \A e \in effects(r) : /\ "fact" \in DOMAIN e => e.fact \in facts
                                      /\ "goal" \in DOMAIN e => e.goal \in DOMAIN GoalDef
\* the shape of the catalogue: lists, ranks, and the effects its relations use
EffectOps == {"assert_derived_fact", "push_goal", "satisfy_dependency", "set_goal_status",
              "require_action", "require_facts_in_current_goal"}
CatalogIsShaped ==
    LET lists(def) == {def.required, def.completion}
        effects(r) == {r.effects, r.onChild}
    IN /\ \A g \in DOMAIN GoalDef : \A q \in lists(GoalDef[g]) : q \in Seq(DOMAIN FactDef)
       /\ \A f \in DOMAIN FactDef : FactDef[f].rank \in Nat
       /\ Relations \in Seq(ToSet(Relations))
       /\ \A r \in ToSet(Relations) : \A q \in effects(r) :
             /\ q \in Seq(ToSet(q))
             /\ \A e \in ToSet(q) : /\ e.op \in EffectOps
                                    /\ e.op = "push_goal" => "goal" \in DOMAIN e
       /\ Complaint \in DOMAIN GoalDef
ASSUME CatalogAssumption == CatalogIsValid /\ CatalogIsShaped

\* what else the rules of a catalogue may promise: a conclusion is of a higher level
\* than what it is drawn from, and a goal left aside for a subflow is returned to
EffectsOf(r) == ToSet(r.effects) \cup ToSet(r.onChild)
Layered(level) ==
    /\ \A f \in DOMAIN FactDef : \A d \in FactDef[f].depends : level[d] < level[f]
    /\ \A r \in ToSet(Relations) : \A e \in EffectsOf(r) :
          e.op = "assert_derived_fact" =>
              \A d \in e.from : d \in DOMAIN FactDef /\ level[d] < level[e.fact]
SubflowsReturn ==
    \A r \in ToSet(Relations) : \A e \in EffectsOf(r) :
        /\ e.op = "push_goal" /\ e.suspend => e.returns
        /\ e.op = "set_goal_status" => e.status \in {"ACTIVE", "WAITING"}

\* filter: the elements of a list that are in S, in their order
Among(seq, S) == FoldLeft(LAMBDA out, x : IF x \in S THEN Append(out, x) ELSE out, <<>>, seq)

OpenStatuses == {"ACTIVE", "SUSPENDED", "WAITING"}
NoReason == [why |-> "none", of |-> "none"]
Because(why, of) == [why |-> why, of |-> of]
NoQuestion == [fact |-> "none", goal |-> 0, conflict |-> FALSE, asked |-> 0]
NoHandoff == [at |-> 0, code |-> "none", case |-> 0, missing |-> {}]
BlockingRank == 3          \* PRIORITY_RANK of BLOCKING_UNCERTAINTY
Rounds == 12               \* iterations before the reducer gives up

InitState ==
    [seq |-> 0, cases |-> <<>>, goals |-> <<>>, facts |-> <<>>,
     question |-> NoQuestion, parked |-> <<>>, actions |-> {},
     handoff |-> NoHandoff, topic |-> "none", origin |-> "none",
     changed |-> FALSE, error |-> "none"]

Fail(s, why) == [s EXCEPT !.error = IF @ = "none" THEN why ELSE @]
Authoritative(code, value) ==
    FactDef[code].authority \/ value \in FactDef[code].authValues

-----------------------------------------------------------------------------
(* Facts in scope.                                                         *)

ScopeOwner(s, code, g) ==
    CASE FactDef[code].scope = "CONVERSATION" \/ g = 0 -> 0
      [] FactDef[code].scope = "GOAL" -> g
      [] OTHER -> s.goals[g].case

\* bug: a value that was replaced still counts as the one on record
FactsEver(s, code, g) ==
    {i \in DOMAIN s.facts : s.facts[i].code = code /\ s.facts[i].owner = ScopeOwner(s, code, g)}

ActiveFacts(s, code, g) ==
    LET owner == ScopeOwner(s, code, g) IN
    {i \in DOMAIN s.facts : /\ s.facts[i].code = code
                            /\ s.facts[i].status = "ACTIVE"
                            /\ s.facts[i].owner = owner}
FirstOf(F) == IF F = {} THEN 0 ELSE Min(F)
ActiveFact(s, code, g) == FirstOf(ActiveFacts(s, code, g))

ConfirmedIn(s, i, values) ==
    i # 0 /\ s.facts[i].confidence = "CONFIRMED" /\ s.facts[i].value \in values
ConditionsHold(s, conditions, g) ==
    \A c \in conditions : ConfirmedIn(s, ActiveFact(s, c.fact, g), c.in)

IsRelevant(s, code, g) == ConditionsHold(s, FactDef[code].relevant, g)

CaseOf(s, i) ==
    LET f == s.facts[i] IN
    CASE FactDef[f.code].scope = "CASE" -> f.owner
      [] FactDef[f.code].scope = "GOAL" /\ f.owner # 0 -> s.goals[f.owner].case
      [] OTHER -> 0

ActiveFactsForGoalCase(s, g) ==
    {i \in DOMAIN s.facts :
        /\ s.facts[i].status = "ACTIVE"
        /\ LET scope == FactDef[s.facts[i].code].scope IN
           \/ scope = "CONVERSATION"
           \/ scope = "CASE" /\ s.facts[i].owner = s.goals[g].case
           \/ scope = "GOAL" /\ \/ s.facts[i].owner = g
                                \/ s.goals[g].case # 0 /\ CaseOf(s, i) = s.goals[g].case}

GoalsWith(s, statuses) == {g \in DOMAIN s.goals : s.goals[g].status \in statuses}
Newest(G) == IF G = {} THEN 0 ELSE Max(G)
FocusGoal(s) == Newest(GoalsWith(s, {"ACTIVE"}))
ContextGoal(s) ==
    IF FocusGoal(s) # 0 THEN FocusGoal(s) ELSE Newest(GoalsWith(s, {"WAITING"}))

-----------------------------------------------------------------------------
(* Supersession: what was concluded from a fact falls with it.             *)

Dependents(s, i) ==
    LET scope == FactDef[s.facts[i].code].scope
        SameScope(j) ==
            \/ scope = "CONVERSATION"
            \/ /\ scope = "GOAL" /\ FactDef[s.facts[j].code].scope = "GOAL"
               /\ s.facts[j].owner = s.facts[i].owner
            \/ CaseOf(s, i) # 0 /\ CaseOf(s, j) = CaseOf(s, i)
    IN {j \in DOMAIN s.facts :
          /\ s.facts[j].status = "ACTIVE"
          /\ \/ i \in s.facts[j].from
             \/ s.facts[i].code \in FactDef[s.facts[j].code].depends /\ SameScope(j)}

Retire(s, I, why, by) ==
    [s EXCEPT !.facts = [i \in DOMAIN @ |->
        IF i \notin I THEN @[i]
        ELSE [@[i] EXCEPT !.status = "SUPERSEDED", !.why = why,
                          !.by = by, !.supAt = s.seq]]]

\* bug: what was concluded from a conclusion is left standing
InvalidateDirect(s, i) == Retire(s, Dependents(s, i), "DEPENDENCY_INVALIDATED", 0)

InvalidateDependents(s, i) ==
    LET grow(F, j) == F \cup UNION {Dependents(s, k) : k \in F}
    IN Retire(s, FoldLeft(grow, {i}, s.facts) \ {i}, "DEPENDENCY_INVALIDATED", 0)

\* bug: only the fact itself falls
SupersedeAlone(s, I, why, by) == Retire(s, I, why, by)

SupersedeAll(s, I, why, by) ==
    FoldLeft(LAMBDA t, i : IF i \notin I THEN t
                           ELSE InvalidateDependents(Retire(t, {i}, why, by), i),
             s, [i \in DOMAIN s.facts |-> i])

-----------------------------------------------------------------------------
(* Recording a fact: mode is ASSERT, SUPERSEDE or DERIVE.                  *)

\* a value the case already has is confirmed, and what contradicts it falls
ConfirmFact(s, i, existing, mode, in, confidence) ==
    LET why == CASE in.source = "USER_CORRECTION" -> "USER_CORRECTION"
                 [] mode = "DERIVE" -> "SYSTEM_REPLACEMENT"
                 [] OTHER -> "CHANGE_OF_MIND"
    IN [SupersedeAll(s, existing \ {i}, why, i) EXCEPT
          !.facts[i].confidence = IF confidence # "UNCERTAIN" \/ @ # "CONFIRMED"
                                  THEN confidence ELSE @,
          !.facts[i].authoritative = @ \/ in.authoritative,
          !.facts[i].conflict = 0]

\* a new value replaces the old one, or conflicts with it when both were asserted
AddFact(s, existing, first, mode, fact) ==
    LET id == Len(s.facts) + 1
        alone == existing = {} \/ FactDef[fact.code].repeatable
        conflicts == ~alone /\ mode = "ASSERT" /\ s.facts[first].confidence = "CONFIRMED"
        why == IF fact.source = "USER_CORRECTION" THEN "USER_CORRECTION" ELSE "CHANGE_OF_MIND"
        disputed == [s EXCEPT !.facts[first].confidence = "CONFLICTING",
                              !.facts[first].conflict = id]
        kept == IF conflicts THEN InvalidateDependents(disputed, first)
                ELSE SupersedeAll(s, CASE alone -> {}
                                       [] ~alone /\ mode = "ASSERT" -> {first}
                                       [] OTHER -> existing,
                                  IF mode = "SUPERSEDE" THEN why ELSE "SYSTEM_REPLACEMENT", id)
    IN [kept EXCEPT !.facts = Append(@,
           IF conflicts THEN [fact EXCEPT !.confidence = "CONFLICTING", !.conflict = first]
           ELSE fact)]

RecordGiven(s, existing, same, in, mode, fact) ==
    IF same # 0 /\ FactDef[in.code].repeatable THEN s
    ELSE IF same # 0 /\ (~in.authoritative \/ s.facts[same].authoritative)
    THEN ConfirmFact(s, same, existing, mode, in, fact.confidence)
    ELSE AddFact(SupersedeAll(s, {same} \ {0}, "SYSTEM_REPLACEMENT", 0),
                 existing, FirstOf(existing), mode, fact)

RecordAmong(s, existing, g, in, mode, from) ==
    LET doubtful == Authoritative(in.code, in.value) /\ in.source # "DERIVED_RULE"
                    /\ ~in.authoritative
    IN RecordGiven(s, existing, FirstOf({i \in existing : s.facts[i].value = in.value}),
                   in, mode,
                   [code |-> in.code, owner |-> ScopeOwner(s, in.code, g),
                    value |-> in.value, source |-> in.source,
                    confidence |-> IF doubtful THEN "UNCERTAIN" ELSE in.confidence,
                    status |-> "ACTIVE", authoritative |-> in.authoritative, conflict |-> 0,
                    from |-> from, why |-> "none", by |-> 0, at |-> s.seq, supAt |-> 0])

RecordFact(s, g, in, mode, from) ==
    IF in.code \notin DOMAIN FactDef THEN Fail(s, "UNKNOWN_FACT")
    ELSE IF \/ in.source \notin FactDef[in.code].sources
            \/ in.authoritative /\ in.source \notin {"SYSTEM", "DOCUMENT"}
    THEN Fail(s, "REFUSED_SOURCE")
    ELSE RecordAmong(s, ActiveFacts(s, in.code, g), g, in, mode, from)

-----------------------------------------------------------------------------
(* Goals and the effects of relations.                                     *)

CaseFor(s, def, ref, opts) ==
    LET known == FirstOf({c \in DOMAIN s.cases : /\ s.cases[c].ref = ref
                                                 /\ s.cases[c].kind = def.case})
    IN CASE opts.case # 0 -> opts.case
         [] opts.case = 0 /\ def.case # "none" ->
                IF known = 0 THEN Len(s.cases) + 1 ELSE known
         [] OTHER -> IF opts.parent = 0 THEN 0 ELSE s.goals[opts.parent].case

PushIn(s, code, opts, ref, case) ==
    LET goal == [code |-> code, case |-> case, status |-> "ACTIVE",
                 reason |-> NoReason, parent |-> opts.parent,
                 overlay |-> opts.overlay, returns |-> opts.returns,
                 relation |-> opts.relation, opened |-> s.seq, closed |-> 0]
        left == IF opts.parent = 0 \/ ~opts.suspend THEN s
                ELSE [s EXCEPT !.goals[opts.parent].status = "SUSPENDED",
                               !.goals[opts.parent].reason = Because("SUBFLOW", code)]
    IN [left EXCEPT
          !.cases = IF case <= Len(@) THEN @
                    ELSE Append(@, [kind |-> GoalDef[code].case, ref |-> ref]),
          !.goals = Append(@, goal)]

PushGoal(s, code, opts) ==
    LET ref == IF opts.ref = <<>> THEN <<code, s.seq>> ELSE opts.ref
    IN PushIn(s, code, opts, ref, CaseFor(s, GoalDef[code], ref, opts))

NoOpts == [parent |-> 0, suspend |-> FALSE, returns |-> FALSE, relation |-> "none",
           overlay |-> 0, ref |-> <<>>, case |-> 0]

SetGoal(s, g, status, reason) ==
    [s EXCEPT !.goals[g].status = status, !.goals[g].reason = reason,
              !.goals[g].closed = IF status \in OpenStatuses THEN 0 ELSE s.seq]
ResumeParent(s, g) ==
    LET p == s.goals[g].parent IN
    IF p # 0 /\ s.goals[g].returns /\ s.goals[p].status = "SUSPENDED"
    THEN SetGoal(s, p, "ACTIVE", NoReason) ELSE s

Recalculable == {"DEPENDENCY_SATISFIED", "DEPENDENCY_REMOVED"}
Changed(s) == [s EXCEPT !.changed = TRUE]

\* bug: a conclusion already drawn counts as a change
AssertAgain(s, g, e) ==
    Changed(RecordFact(s, g, [code |-> e.fact, value |-> e.value, source |-> "DERIVED_RULE",
                              confidence |-> "CONFIRMED", authoritative |-> FALSE],
                       "DERIVE", {ActiveFact(s, c, g) : c \in e.from} \ {0}))

\* assert_derived_fact
AssertDerived(s, g, e) ==
    LET in == [code |-> e.fact, value |-> e.value, source |-> "DERIVED_RULE",
               confidence |-> "CONFIRMED", authoritative |-> FALSE]
    IN IF \E i \in {ActiveFact(s, e.fact, g)} \ {0} : s.facts[i].value = e.value THEN s
       ELSE Changed(RecordFact(s, g, in, "DERIVE",
                               {ActiveFact(s, c, g) : c \in e.from} \ {0}))

\* push_goal: a subflow closed because its dependency went away may open again
OpenSubflow(s, g, e, relation) ==
    LET already == \E o \in DOMAIN s.goals :
            /\ s.goals[o].code = e.goal /\ s.goals[o].relation = relation
            /\ s.goals[o].case = s.goals[g].case
            /\ ~(s.goals[o].status = "ABANDONED" /\ s.goals[o].reason.why \in Recalculable)
    IN IF already THEN s
       ELSE Changed(PushGoal(s, e.goal,
                [NoOpts EXCEPT !.parent = g, !.suspend = e.suspend,
                               !.returns = e.returns, !.relation = relation,
                               !.case = s.goals[g].case]))

OpenSubflows(s, g, code) ==
    {o \in DOMAIN s.goals : /\ s.goals[o].code = code /\ s.goals[o].case = s.goals[g].case
                            /\ s.goals[o].status \in OpenStatuses}

\* bug: the goal the subflow was opened for is forgotten
SatisfyOnly(s, g, e) ==
    LET close(t, o) ==
            IF o \in OpenSubflows(s, g, e.goal)
            THEN Changed(SetGoal(t, o, "ABANDONED", Because(e.reason, "none"))) ELSE t
    IN FoldLeft(close, s, [o \in DOMAIN s.goals |-> o])

\* satisfy_dependency: the open subflows of the case are no longer needed
SatisfyDependency(s, g, e) ==
    LET close(t, o) ==
            IF o \in OpenSubflows(s, g, e.goal)
            THEN ResumeParent(SetGoal(t, o, "ABANDONED", Because(e.reason, "none")), o) ELSE t
    IN IF OpenSubflows(s, g, e.goal) = {} THEN s
       ELSE Changed(FoldLeft(close, s, [o \in DOMAIN s.goals |-> o]))

SetStatus(s, g, e) ==
    IF s.goals[g].status \in {e.status, "RESOLVED", "ABANDONED"} THEN s
    ELSE Changed(SetGoal(s, g, e.status, Because(e.reason, "none")))

Awaits(s, g, action) == \E a \in s.actions : a.action = action /\ a.goal = g
RequireAction(s, g, e) ==
    IF Awaits(s, g, e.action) THEN s
    ELSE Changed([s EXCEPT !.actions =
                    @ \cup {[action |-> e.action, goal |-> g, asked |-> s.seq]}])

ApplyEffects(s, g, effects, relation) ==
    FoldLeft(LAMBDA t, e : CASE e.op = "assert_derived_fact" -> AssertDerived(t, g, e)
                             [] e.op = "push_goal" -> OpenSubflow(t, g, e, relation)
                             [] e.op = "satisfy_dependency" -> SatisfyDependency(t, g, e)
                             [] e.op = "set_goal_status" -> SetStatus(t, g, e)
                             [] e.op = "require_action" -> RequireAction(t, g, e)
                             [] e.op = "require_facts_in_current_goal" -> t,
             s, effects)

-----------------------------------------------------------------------------
(* What a goal still misses, and its completion.                           *)

GapAt(s, g, code, late, i) ==
    LET def == FactDef[code]
        f == s.facts[i]
        ruled == \/ def.rules = {}
                 \/ \E r \in def.rules : r.value = f.value /\ ConditionsHold(s, r.when, g)
        gap(rank, conflicting, authority) ==
            <<[code |-> code, rank |-> rank, conflicting |-> conflicting,
               authoritative |-> authority]>>
    IN CASE i = 0 -> gap(def.rank, FALSE, def.authority \/ late)
         [] i # 0 /\ f.confidence # "CONFIRMED" ->
                gap(BlockingRank, f.confidence = "CONFLICTING",
                    f.confidence = "UNCERTAIN" /\ Authoritative(code, f.value))
         [] OTHER ->
                IF \/ f.value \in def.blocking \/ f.value \notin def.accepts \/ ~ruled
                   \/ Authoritative(code, f.value) /\ ~f.authoritative
                THEN gap(BlockingRank, FALSE, TRUE) ELSE <<>>

\* the administrative confirmation is looked at once nothing else is missing
MissingFacts(s, g) ==
    LET def == GoalDef[s.goals[g].code]
        late(i) == i > Len(def.required)
        codes == def.required \o def.completion
        add(out, i) ==
            IF (late(i) /\ out # <<>>) \/ ~IsRelevant(s, codes[i], g) THEN out
            ELSE out \o GapAt(s, g, codes[i], late(i), ActiveFact(s, codes[i], g))
    IN FoldLeft(add, <<>>, [i \in 1 .. Len(codes) |-> i])

ResolveGoal(s, g) ==
    LET relation == s.goals[g].relation
        p == s.goals[g].parent
        onChild(t, r) == IF p # 0 /\ r.name = relation
                         THEN ApplyEffects(t, p, r.onChild, relation) ELSE t
    IN ResumeParent(FoldLeft(onChild, Changed(SetGoal(s, g, "RESOLVED", s.goals[g].reason)),
                             Relations), g)

ResolveCompletedGoals(s) ==
    LET visit(t, g) ==
            IF \/ t.goals[g].status # "ACTIVE" \/ GoalDef[t.goals[g].code].explicit
               \/ MissingFacts(t, g) # <<>>
            THEN t ELSE ResolveGoal(t, g)
    IN FoldLeft(visit, s, Reverse([g \in DOMAIN s.goals |-> g]))

ApplyRelation(s, r) ==
    LET targets == {g \in GoalsWith(s, r.statuses) : s.goals[g].code = r.goal}
        visit(t, g) == IF g \in targets /\ ConditionsHold(t, r.when, g)
                       THEN ApplyEffects(t, g, r.effects, r.name) ELSE t
    IN FoldLeft(visit, s, [g \in DOMAIN s.goals |-> g])

\* every relation in the order of the catalogue, then the goals now complete
EvaluateOnce(s) ==
    LET pass(t, n) == IF n > Len(Relations) THEN ResolveCompletedGoals(t)
                      ELSE ApplyRelation(t, Relations[n])
    IN FoldLeft(pass, [s EXCEPT !.changed = FALSE], [n \in 1 .. Len(Relations) + 1 |-> n])

Stopped(s, why) == IF s.changed THEN Fail(s, why) ELSE s
EvaluateRelations(s) ==
    LET pass(t, n) == IF t.changed THEN EvaluateOnce(t) ELSE t
    IN Stopped(FoldLeft(pass, Changed(s), [n \in 1 .. Rounds |-> n]), "RELATIONS_DIVERGE")

-----------------------------------------------------------------------------
(* The next question, the authoritative gaps and the settling of a turn.   *)

\* among those of D: a conflict first, then the best rank, then the order of the catalogue
Best(missing, D) ==
    LET conflicts == {i \in D : missing[i].conflicting}
        first == {i \in D : \A j \in D : missing[i].rank <= missing[j].rank}
    IN missing[Min(IF conflicts # {} THEN conflicts ELSE first)]

Askable(m) == ~m.authoritative /\ ~FactDef[m.code].derived

QuestionAmong(s, g, missing, D) ==
    IF D = {} THEN NoQuestion
    ELSE LET best == Best(missing, D)
         IN [fact |-> best.code, goal |-> g, conflict |-> best.conflicting, asked |-> s.seq]
BestQuestion(s, g, missing) ==
    QuestionAmong(s, g, missing, {i \in DOMAIN missing : Askable(missing[i])})
NextBestQuestion(s, g) == IF g = 0 THEN NoQuestion ELSE BestQuestion(s, g, MissingFacts(s, g))

QuestionStillValid(s, q) ==
    /\ s.goals[q.goal].status \in {"ACTIVE", "WAITING"}
    /\ \E m \in ToSet(MissingFacts(s, q.goal)) : m.code = q.fact /\ Askable(m)

Park(s) == [s EXCEPT !.parked = Append(@, s.question), !.question = NoQuestion]

\* the question of a goal that now waits for an action is parked when stale
ParkStale(s, g) ==
    IF s.question.goal = g /\ ~QuestionStillValid(s, s.question) THEN Park(s) ELSE s

AwaitAction(s, g, action) ==
    [SetGoal(s, g, "WAITING", Because("AWAITING", action)) EXCEPT
        !.actions = {a \in @ : a.goal # g \/ a.action = action} \cup
                    (IF Awaits(s, g, action) THEN {}
                     ELSE {[action |-> action, goal |-> g, asked |-> s.seq]})]
\* bug: a goal that waited goes on waiting once its action is settled
SyncWaiting(s, g, gap) ==
    IF gap.authoritative /\ Resolution[gap.code] # "none"
    THEN ParkStale(AwaitAction(s, g, Resolution[gap.code]), g) ELSE s

SyncWith(s, g, gap) ==
    IF gap.authoritative /\ Resolution[gap.code] # "none"
    THEN ParkStale(AwaitAction(s, g, Resolution[gap.code]), g)
    ELSE IF s.goals[g].status # "WAITING" THEN s
    ELSE [SetGoal(s, g, "ACTIVE", NoReason) EXCEPT !.actions = {a \in @ : a.goal # g}]

NoGap == [code |-> "none", authoritative |-> FALSE]
FirstGap(missing) == IF missing = <<>> THEN NoGap ELSE Best(missing, DOMAIN missing)
SyncGoal(s, g) ==
    IF s.goals[g].status \notin {"ACTIVE", "WAITING"} THEN s
    ELSE SyncWith(s, g, FirstGap(MissingFacts(s, g)))

SyncAuthoritativeGaps(s) == FoldLeft(SyncGoal, s, [g \in DOMAIN s.goals |-> g])

Declares(code, fact) ==
    LET def == GoalDef[code] IN
    fact \in ToSet(def.required) \cup def.optional \cup ToSet(def.completion)

\* a correction of this turn may invalidate a subflow that was complete
ReopenGoal(s, g) ==
    LET p == s.goals[g].parent
        invalidated == \E i \in DOMAIN s.facts :
            LET f == s.facts[i] IN
            /\ f.status = "SUPERSEDED" /\ f.supAt = s.seq
            /\ Declares(s.goals[g].code, f.code) /\ f.owner = ScopeOwner(s, f.code, g)
        t == SetGoal(s, g, "ACTIVE", Because("DEPENDENCY_INVALIDATED", "none"))
    IN IF s.goals[g].status # "RESOLVED" \/ MissingFacts(s, g) = <<>> \/ ~invalidated THEN s
       ELSE IF p # 0 /\ s.goals[g].returns /\ s.goals[p].status # "ABANDONED"
       THEN SetGoal(t, p, "SUSPENDED", Because("SUBFLOW", s.goals[g].code))
       ELSE t

Same(t, u) == t.goals = u.goals /\ t.actions = u.actions /\ t.facts = u.facts
NextRound(t, s) == [t EXCEPT !.changed = ~Same(t, s)]
SettlingPhases == <<"relations", "gaps", "compare">>
SettleGoals(s) ==
    LET phase(t, before, name) ==
            CASE name = "relations" -> EvaluateRelations(t)
              [] name = "gaps" -> SyncAuthoritativeGaps(t)
              [] name = "compare" -> NextRound(t, before)
        round(t, n) ==
            IF ~t.changed THEN t
            ELSE FoldLeft(LAMBDA u, name : phase(u, t, name), t, SettlingPhases)
        reopened == FoldLeft(ReopenGoal, s, [g \in DOMAIN s.goals |-> g])
    IN Stopped(FoldLeft(round, Changed(reopened), [n \in 1 .. Rounds |-> n]), "GOALS_DIVERGE")

\* bug: a question of the goal in focus is kept even once it is answered
KeepAnyQuestion(s, focus) ==
    IF s.question = NoQuestion \/ s.question.goal = focus THEN s ELSE Park(s)

\* the current question is kept, parked or dropped
KeepQuestion(s, focus) ==
    LET q == s.question
    IN IF q = NoQuestion THEN s
       ELSE IF ~QuestionStillValid(s, q) THEN [s EXCEPT !.question = NoQuestion]
       ELSE IF q.goal = focus THEN s ELSE Park(s)

\* a better one takes its place: another goal's, or a conflict
TakeQuestion(s, candidate) ==
    IF /\ s.question # NoQuestion /\ candidate # NoQuestion
       /\ \/ candidate.goal # s.question.goal
          \/ candidate.conflict /\ ~s.question.conflict
    THEN [Park(s) EXCEPT !.question = candidate] ELSE s

\* resume the newest valid one of the goal, dropping the stale ones above it
ResumeQuestion(s, ofFocus, newest, focus) ==
    LET kept == {i \in DOMAIN s.parked : i \notin ofFocus \/ i < newest}
        rest == Among([i \in DOMAIN s.parked |-> i], kept)
    IN [s EXCEPT !.parked = [i \in DOMAIN rest |-> s.parked[rest[i]]],
                 !.question = IF newest = 0 THEN NextBestQuestion(s, focus)
                              ELSE s.parked[newest]]
RestoreQuestion(s, focus, ofFocus) ==
    IF s.question # NoQuestion THEN s
    ELSE ResumeQuestion(s, ofFocus,
            Newest({i \in ofFocus : QuestionStillValid(s, s.parked[i])}), focus)
AfterTaking(s, focus) ==
    RestoreQuestion(s, focus, {i \in DOMAIN s.parked : s.parked[i].goal = focus})
AfterKeeping(s, focus) == AfterTaking(TakeQuestion(s, NextBestQuestion(s, focus)), focus)
RefreshFor(s, focus) == AfterKeeping(KeepQuestion(s, focus), focus)
RefreshPendingQuestion(s) == RefreshFor(s, ContextGoal(s))

-----------------------------------------------------------------------------
(* Events.                                                                 *)

Filled(in, source, confidence) ==
    [in EXCEPT !.source = IF @ = "default" THEN source ELSE @,
               !.confidence = IF @ = "default" THEN confidence ELSE @]
Told(ins, source, confidence) ==
    [i \in DOMAIN ins |-> Filled(ins[i], source, confidence)]
Tell(s, g, ins) ==
    FoldLeft(LAMBDA t, in : RecordFact(t, g, in, "ASSERT", {}), s,
             Told(ins, "USER_EXPLICIT", "CONFIRMED"))

\* a fact belongs to the open goal of the case in focus that declares it
OwnerGoalForFact(s, code, focus) ==
    LET open == {g \in GoalsWith(s, OpenStatuses) :
                    /\ focus # 0 => s.goals[g].case = s.goals[focus].case
                    /\ Declares(s.goals[g].code, code)}
    IN CASE focus # 0 /\ Declares(s.goals[focus].code, code) -> focus
         [] OTHER -> IF open = {} THEN focus ELSE Max(open)
RecordFacts(s, focus, ins, mode) ==
    FoldLeft(LAMBDA t, in : RecordFact(t, OwnerGoalForFact(t, in.code, focus), in, mode, {}),
             s, ins)

BuildHandoff(s) ==
    LET open == Newest(GoalsWith(s, OpenStatuses))
        done == Newest({g \in GoalsWith(s, {"RESOLVED"}) : s.goals[g].overlay = 0})
        g == CASE ContextGoal(s) # 0 -> ContextGoal(s)
               [] ContextGoal(s) = 0 /\ open # 0 -> open
               [] OTHER -> done
    IN IF g = 0 THEN [NoHandoff EXCEPT !.at = s.seq]
       ELSE [at |-> s.seq, code |-> s.goals[g].code, case |-> s.goals[g].case,
             missing |-> {m.code : m \in ToSet(MissingFacts(s, g))}]

LeaveGoal(s, g) ==
    LET p == s.goals[g].parent
        left == SetGoal(s, g, "ABANDONED", Because("USER_ABANDONED", "none"))
    IN IF p # 0 /\ s.goals[p].status = "SUSPENDED"
       THEN SetGoal(left, p, "SUSPENDED", Because("BLOCKED_BY_ABANDONED_SUBFLOW", "none"))
       ELSE left

OnNewGoal(s, g, e) ==
    LET left == IF ~e.abandon \/ g = 0 THEN s ELSE LeaveGoal(s, g)
    IN Tell([PushGoal(left, e.goal, [NoOpts EXCEPT !.ref = e.ref])
               EXCEPT !.topic = GoalDef[e.goal].topic], Len(s.goals) + 1, e.facts)

\* the same demand is recognised as another topic: the goal keeps its identity
OnReclassification(s, g, e) ==
    LET recent == Newest({o \in DOMAIN s.goals : /\ s.goals[o].status # "ABANDONED"
                                                 /\ s.goals[o].overlay = 0})
        target == IF g # 0 THEN g ELSE recent
        before == IF s.topic # "none" THEN s.topic ELSE GoalDef[s.goals[target].code].topic
        reopens == s.goals[target].status \in {"RESOLVED", "WAITING"}
    IN IF target = 0 THEN Fail(s, "NO_GOAL")
       ELSE [s EXCEPT !.origin = IF @ = "none" THEN before ELSE @,
                      !.topic = GoalDef[e.goal].topic,
                      !.goals[target].code = e.goal,
                      !.goals[target].status = IF reopens THEN "ACTIVE" ELSE @,
                      !.goals[target].reason = IF reopens THEN NoReason ELSE @,
                      !.goals[target].closed = IF reopens THEN 0 ELSE @]

\* the complaint is an overlay: the goal it is about stays as it is
ComplaintGoal(s, base, known) ==
    CASE known = 0 ->
            PushGoal(s, Complaint, [NoOpts EXCEPT !.parent = base, !.overlay = base,
                                                  !.case = s.goals[base].case])
      [] known # 0 /\ s.goals[known].status = "RESOLVED" -> SetGoal(s, known, "ACTIVE", NoReason)
      [] OTHER -> s
ComplainAgain(s, base, known, e) ==
    Tell(ComplaintGoal(s, base, known), IF known = 0 THEN Len(s.goals) + 1 ELSE known, e.facts)
ComplainAbout(s, base, e) ==
    ComplainAgain(s, base, Newest({o \in DOMAIN s.goals : /\ s.goals[o].code = Complaint
                                                          /\ s.goals[o].overlay = base
                                                          /\ s.goals[o].status # "ABANDONED"}), e)
OnComplaint(s, g, e) ==
    LET opens == g = 0 /\ e.base # "none"
        base == IF opens THEN Len(s.goals) + 1 ELSE g
    IN IF base = 0 THEN Fail(s, "NO_BASE")
       ELSE ComplainAbout(
              Tell(IF opens THEN PushGoal(s, e.base, [NoOpts EXCEPT !.ref = e.ref]) ELSE s,
                   base, e.baseFacts), base, e)

OnParallelQuestion(s, g, e) ==
    Tell(PushGoal(IF s.question = NoQuestion THEN s ELSE Park(s), e.goal,
                  [NoOpts EXCEPT !.parent = g, !.case = IF g = 0 THEN 0 ELSE s.goals[g].case]),
         Len(s.goals) + 1, e.facts)

OnFacts(s, g, e) ==
    RecordFacts(s, g,
        Told(e.facts, IF e.kind = "CORRECTION" THEN "USER_CORRECTION" ELSE "USER_EXPLICIT",
             IF e.kind = "UNCERTAIN" THEN "UNCERTAIN" ELSE "CONFIRMED"),
        IF e.kind \in {"CORRECTION", "CHANGE_OF_MIND"} THEN "SUPERSEDE" ELSE "ASSERT")

OnSettling(s, g, e) ==
    CASE e.kind = "NEW_GOAL" -> OnNewGoal(s, g, e)
      [] e.kind = "RECLASSIFICATION" -> OnReclassification(s, g, e)
      [] e.kind = "COMPLAINT" -> OnComplaint(s, g, e)
      [] e.kind = "PARALLEL_QUESTION" -> OnParallelQuestion(s, g, e)
      [] OTHER -> OnFacts(s, g, e)

\* the only entry that can confirm an authoritative fact
SignalScopes(s, c) ==
    {ScopeOwner(s, c, g) : g \in {o \in GoalsWith(s, OpenStatuses) : Declares(s.goals[o].code, c)}}
RecordSignal(s, owner, target, in) ==
    IF target = 0 /\ Cardinality(SignalScopes(s, in.code)) > 1 THEN Fail(s, "AMBIGUOUS_CASE")
    ELSE IF owner = 0 THEN Fail(s, "FOREIGN_FACT")
    ELSE IF ~Declares(s.goals[owner].code, in.code) THEN Fail(s, "FOREIGN_FACT")
    ELSE RecordFact(s, owner, in, "SUPERSEDE", {})

Signalled(s, sig) ==
    LET told == [i \in DOMAIN sig.facts |->
                    [Filled(sig.facts[i], "SYSTEM", "CONFIRMED") EXCEPT !.authoritative = TRUE]]
        record(t, in) ==
            RecordSignal(t, OwnerGoalForFact(t, in.code, sig.target), sig.target, in)
    IN IF sig.target = 0 \/ sig.target \in GoalsWith(s, OpenStatuses)
       THEN FoldLeft(record, s, told) ELSE Fail(s, "CLOSED_GOAL")

\* a social event looks for a question, a request for a person for none;
\* every other one settles the goals before the next question is chosen
Phases(e) ==
    CASE e.kind = "HUMAN_REQUEST" \/ (e.kind = "SOCIAL" /\ e.closing) -> <<"handle">>
      [] e.kind = "SOCIAL" /\ ~e.closing -> <<"ask">>
      [] OTHER -> <<"handle", "settle", "ask">>
Handle(s, e) ==
    CASE e.kind = "SOCIAL" -> [s EXCEPT !.question = NoQuestion]
      [] e.kind = "HUMAN_REQUEST" ->
            [s EXCEPT !.question = NoQuestion, !.handoff = BuildHandoff(s)]
      [] e.kind = "SIGNAL" -> Signalled(s, e)
      [] OTHER -> OnSettling(s, ContextGoal(s), e)

ApplyEvent(previous, e) ==
    LET phase(s, name) == CASE name = "handle" -> Handle(s, e)
                            [] name = "settle" -> SettleGoals(s)
                            [] name = "ask" -> RefreshPendingQuestion(s)
        step(s, name) == IF s.error = "none" THEN phase(s, name) ELSE s
    IN FoldLeft(step, [previous EXCEPT !.seq = @ + 1], Phases(e))
=============================================================================
