---------------------- MODULE ConversationEngine_proofs ----------------------
(***************************************************************************)
(* What every step of the reducer keeps, for every catalogue of the shape  *)
(* ConversationEngine assumes.  A state has a shape (Shaped: its fields,   *)
(* lists that are lists, goals whose parent exists, pending actions whose  *)
(* goal exists); nothing but a request for a person touches the handoff,   *)
(* nothing but the event itself the number (Within).  The operators are    *)
(* taken one by one, bottom up, the folds by the rules of FoldRules.       *)
(***************************************************************************)
EXTENDS TurnPlanning, TLAPS
LOCAL INSTANCE SequencesExt
Order == INSTANCE WellFoundedInduction
Finite == INSTANCE FiniteSetTheorems

IsSeq(q) == \E S : q \in Seq(S)

StateFields == {"seq", "cases", "goals", "facts", "question", "parked", "actions",
                "handoff", "topic", "origin", "changed", "error"}
GoalFields == {"code", "case", "status", "reason", "parent", "overlay", "returns",
               "relation", "opened", "closed"}
FactFields == {"code", "owner", "value", "source", "confidence", "status", "authoritative",
               "conflict", "from", "why", "by", "at", "supAt"}

Shaped(s) ==
    /\ DOMAIN s = StateFields
    /\ IsSeq(s.goals) /\ IsSeq(s.facts) /\ IsSeq(s.parked)
    /\ \A g \in DOMAIN s.goals : /\ DOMAIN s.goals[g] = GoalFields
                                 /\ s.goals[g].parent \in {0} \cup DOMAIN s.goals
    /\ \A i \in DOMAIN s.facts : /\ DOMAIN s.facts[i] = FactFields
                                 /\ s.facts[i].code \in DOMAIN FactDef
    /\ \A a \in s.actions : a.goal \in DOMAIN s.goals

Codes(s) == {s.goals[g].code : g \in DOMAIN s.goals}

\* What was said stays: a fact keeps its words, one no longer in force all of it.
InForce(s) == {i \in DOMAIN s.facts : s.facts[i].status = "ACTIVE"}
Stand(s, t) ==
    \A i \in DOMAIN s.facts :
        /\ \A f \in {"code", "value", "owner", "at", "from"} : t.facts[i][f] = s.facts[i][f]
        /\ i \notin InForce(s) => t.facts[i] = s.facts[i]

\* What is concluded stands on facts in force, each of a lower level than itself.
Levels == [DOMAIN FactDef -> Nat]
Stratified == \E level \in Levels : Layered(level)
Level == CHOOSE level \in Levels : Layered(level)
LevelOf(s, i) == Level[s.facts[i].code]
Grounded(s) ==
    \A j \in InForce(s) : \A k \in s.facts[j].from :
        k \in InForce(s) /\ LevelOf(s, k) < LevelOf(s, j)

\* Within a case, what was established for a fact falls when it does or is disputed.
Housed(s) ==
    \A i \in DOMAIN s.facts :
        FactDef[s.facts[i].code].scope = "GOAL" => s.facts[i].owner \in {0} \cup DOMAIN s.goals
Based(s, j, k) ==
    /\ s.facts[k].code \in FactDef[s.facts[j].code].depends
    /\ CaseOf(s, j) = CaseOf(s, k) /\ CaseOf(s, k) # 0
Disturbed(s, t, k) == \/ t.facts[k].status # "ACTIVE"
                      \/ t.facts[k].conflict \notin {0, s.facts[k].conflict}
Falling(s, t) ==
    \A j, k \in InForce(s) : Based(s, j, k) /\ Disturbed(s, t, k) => j \notin InForce(t)

\* Every goal left aside, but those of X, is owed something.
OwedBut(s, X) ==
    \A g \in GoalsWith(s, {"SUSPENDED"}) \ X :
        \/ s.goals[g].reason.why = "BLOCKED_BY_ABANDONED_SUBFLOW"
        \/ \E o \in GoalsWith(s, OpenStatuses) : s.goals[o].parent = g /\ s.goals[o].returns

Firm(s, t) ==
    /\ Stand(s, t)
    /\ Stratified /\ Grounded(s) => Grounded(t)
    /\ Housed(s) => Housed(t)
    /\ Stratified /\ Grounded(s) /\ Housed(s) => Falling(s, t)
    /\ \A g \in DOMAIN s.goals : /\ t.goals[g].parent = s.goals[g].parent
                                 /\ t.goals[g].returns = s.goals[g].returns
                                 /\ t.goals[g].case = s.goals[g].case
Owing(s, t) == SubflowsReturn => \A X : OwedBut(s, X) => OwedBut(t, X)
Steady(s, t) == Firm(s, t) /\ Owing(s, t)

\* t comes after s: of the same shape, and no more than the conversation moved
Kept(s, t) ==
    /\ Shaped(t)
    /\ t.seq = s.seq /\ t.handoff = s.handoff
    /\ DOMAIN s.goals \subseteq DOMAIN t.goals
    /\ DOMAIN s.facts \subseteq DOMAIN t.facts
    /\ Steady(s, t)
\* ... and its goals are of the catalogue, if those of s were
Within(s, t) ==
    /\ Shaped(t)
    /\ t.seq = s.seq /\ t.handoff = s.handoff
    /\ DOMAIN s.goals \subseteq DOMAIN t.goals
    /\ DOMAIN s.facts \subseteq DOMAIN t.facts
    /\ Steady(s, t)
    /\ Codes(t) \subseteq Codes(s) \cup DOMAIN GoalDef

\* ... whatever the goals left aside are owed
Near(s, t) ==
    /\ Shaped(t)
    /\ t.seq = s.seq /\ t.handoff = s.handoff
    /\ DOMAIN s.goals \subseteq DOMAIN t.goals
    /\ DOMAIN s.facts \subseteq DOMAIN t.facts
    /\ Firm(s, t)
    /\ Codes(t) \subseteq Codes(s) \cup DOMAIN GoalDef
\* ... or what they are owed but p
OwingBut(s, t, p) == SubflowsReturn => \A X : OwedBut(s, X) => OwedBut(t, X \cup {p})

WithinOf(env, done, t) == Within(env.s, t)

\* What falls with a fact: one more round of dependents for every fact there is.
Fallen(s, i) ==
    FoldLeft(LAMBDA F, j : F \cup UNION {Dependents(s, k) : k \in F}, {i}, s.facts)
Closed(s, F) == \A k \in F : Dependents(s, k) \subseteq F
Rising(s) ==
    Stratified /\ \A j \in InForce(s) : \A k \in s.facts[j].from : LevelOf(s, k) < LevelOf(s, j)
GrowingOp(env, F, j) == F \cup UNION {Dependents(env.s, k) : k \in F}
GrownOf(env, done, F) ==
    /\ env.i \in F /\ F \subseteq {env.i} \cup InForce(env.s)
    /\ Rising(env.s) => \A j \in F \ {env.i} : LevelOf(env.s, env.i) < LevelOf(env.s, j)
    /\ Closed(env.s, F) \/ Cardinality(F) > done
Growing == INSTANCE FoldRules WITH Op <- GrowingOp, P <- GrownOf

SupersedingOp(env, t, i) ==
    IF i \notin env.I THEN t
    ELSE InvalidateDependents(Retire(t, {i}, env.why, env.by), i)
RemainsOf(env, done, t) ==
    /\ Within(env.r, t) /\ DOMAIN t.facts = DOMAIN env.s.facts
    /\ \A i \in DOMAIN env.s.facts : t.facts[i].code = env.s.facts[i].code
    /\ Stratified /\ Grounded(env.s) =>
          /\ Grounded(t)
          /\ \A k \in InForce(env.s) \ env.I :
                LevelOf(env.s, k) <= Level[env.code] => k \in InForce(t)
Superseding == INSTANCE FoldRules WITH Op <- SupersedingOp, P <- RemainsOf

ClosingOp(env, t, o) ==
    IF o \in OpenSubflows(env.s, env.g, env.e.goal)
    THEN ResumeParent(SetGoal(t, o, "ABANDONED", Because(env.e.reason, "none")), o) ELSE t
Closing == INSTANCE FoldRules WITH Op <- ClosingOp, P <- WithinOf

ApplyingOp(env, t, e) ==
    CASE e.op = "assert_derived_fact" -> AssertDerived(t, env.g, e)
      [] e.op = "push_goal" -> OpenSubflow(t, env.g, e, env.relation)
      [] e.op = "satisfy_dependency" -> SatisfyDependency(t, env.g, e)
      [] e.op = "set_goal_status" -> SetStatus(t, env.g, e)
      [] e.op = "require_action" -> RequireAction(t, env.g, e)
      [] e.op = "require_facts_in_current_goal" -> t
Applying == INSTANCE FoldRules WITH Op <- ApplyingOp, P <- WithinOf

ResolvingOp(env, t, r) ==
    LET h == env.s.goals[env.g] IN
    IF h.parent # 0 /\ r.name = h.relation
    THEN ApplyEffects(t, h.parent, r.onChild, h.relation) ELSE t
ClosedOf(env, done, t) == Within(env.t, t)
Resolving == INSTANCE FoldRules WITH Op <- ResolvingOp, P <- ClosedOf

CompletingOp(env, t, g) ==
    IF \/ t.goals[g].status # "ACTIVE" \/ GoalDef[t.goals[g].code].explicit
       \/ MissingFacts(t, g) # <<>>
    THEN t ELSE ResolveGoal(t, g)
Completing == INSTANCE FoldRules WITH Op <- CompletingOp, P <- WithinOf

RelatingOp(env, t, g) ==
    IF /\ g \in {o \in GoalsWith(env.s, env.r.statuses) : env.s.goals[o].code = env.r.goal}
       /\ ConditionsHold(t, env.r.when, g)
    THEN ApplyEffects(t, g, env.r.effects, env.r.name) ELSE t
Relating == INSTANCE FoldRules WITH Op <- RelatingOp, P <- WithinOf

PassingOp(env, t, n) ==
    IF n > Len(Relations) THEN ResolveCompletedGoals(t) ELSE ApplyRelation(t, Relations[n])
Passing == INSTANCE FoldRules WITH Op <- PassingOp, P <- WithinOf

IteratingOp(env, t, n) == IF t.changed THEN EvaluateOnce(t) ELSE t
Iterating == INSTANCE FoldRules WITH Op <- IteratingOp, P <- WithinOf

\* the elements kept so far are some of the first ones, and in the set
SiftingOp(env, out, x) == IF x \in env.S THEN Append(out, x) ELSE out
SiftedOf(env, done, out) ==
    IsSeq(out) /\ \A i \in DOMAIN out : out[i] \in env.S /\ \E k \in DOMAIN env.q : out[i] = env.q[k]
Sifting == INSTANCE FoldRules WITH Op <- SiftingOp, P <- SiftedOf

SyncingOp(env, t, g) == SyncGoal(t, g)
Syncing == INSTANCE FoldRules WITH Op <- SyncingOp, P <- WithinOf

ReopeningOp(env, t, g) == ReopenGoal(t, g)
Reopening == INSTANCE FoldRules WITH Op <- ReopeningOp, P <- WithinOf

PhasingOp(env, u, name) ==
    CASE name = "relations" -> EvaluateRelations(u)
      [] name = "gaps" -> SyncAuthoritativeGaps(u)
      [] name = "compare" -> NextRound(u, env.t)
Phasing == INSTANCE FoldRules WITH Op <- PhasingOp, P <- WithinOf

SettlingOp(env, t, n) ==
    IF ~t.changed THEN t
    ELSE FoldLeft(LAMBDA u, name : CASE name = "relations" -> EvaluateRelations(u)
                                     [] name = "gaps" -> SyncAuthoritativeGaps(u)
                                     [] name = "compare" -> NextRound(u, t),
                  t, SettlingPhases)
Settling == INSTANCE FoldRules WITH Op <- SettlingOp, P <- WithinOf

TellingOp(env, t, in) == RecordFact(t, env.g, in, "ASSERT", {})
Telling == INSTANCE FoldRules WITH Op <- TellingOp, P <- WithinOf

RecordingOp(env, t, in) ==
    RecordFact(t, OwnerGoalForFact(t, in.code, env.g), in, env.mode, {})
Recording == INSTANCE FoldRules WITH Op <- RecordingOp, P <- WithinOf

SignallingOp(env, t, in) ==
    RecordSignal(t, OwnerGoalForFact(t, in.code, env.sig.target), env.sig.target, in)
Signalling == INSTANCE FoldRules WITH Op <- SignallingOp, P <- WithinOf

SteppingOp(env, s, name) ==
    IF s.error = "none"
    THEN CASE name = "handle" -> Handle(s, env.e)
           [] name = "settle" -> SettleGoals(s)
           [] name = "ask" -> RefreshPendingQuestion(s)
    ELSE s
Stepping == INSTANCE FoldRules WITH Op <- SteppingOp, P <- WithinOf

\* t comes after s, some events later
Onward(s, t) ==
    /\ DOMAIN s.goals \subseteq DOMAIN t.goals /\ DOMAIN s.facts \subseteq DOMAIN t.facts
    /\ Steady(s, t)
Advanced(s, t, known) ==
    /\ Shaped(t) /\ t.handoff = s.handoff /\ Onward(s, t)
    /\ s.seq \in Nat => t.seq \in Nat
    /\ known => Codes(t) \subseteq Codes(s) \cup DOMAIN GoalDef
EventKnown(e) ==
    /\ e.kind \in {"NEW_GOAL", "RECLASSIFICATION", "PARALLEL_QUESTION"} => e.goal \in DOMAIN GoalDef
    /\ e.kind = "COMPLAINT" => e.base \in DOMAIN GoalDef \cup {"none"}
AdvancedOf(env, done, t) == Advanced(env.s, t, \A k \in DOMAIN env.q : EventKnown(env.q[k]))
PlanningOp(env, t, e) == IF t.error = "none" THEN React(t, e) ELSE t
Planning == INSTANCE FoldRules WITH Op <- PlanningOp, P <- AdvancedOf

-----------------------------------------------------------------------------
LEMMA SeqIs ==
    ASSUME NEW q, IsSeq(q)
    PROVE  Len(q) \in Nat /\ DOMAIN q = 1 .. Len(q)
BY DEF IsSeq

LEMMA AppendIs ==
    ASSUME NEW q, IsSeq(q), NEW x
    PROVE  /\ IsSeq(Append(q, x)) /\ Len(Append(q, x)) = Len(q) + 1
           /\ DOMAIN Append(q, x) = 1 .. (Len(q) + 1)
           /\ \A i \in DOMAIN q : Append(q, x)[i] = q[i]
           /\ Append(q, x)[Len(q) + 1] = x
<1>1. PICK S : q \in Seq(S)
    BY DEF IsSeq
<1>2. q \in Seq(S \cup {x})
    BY <1>1
<1> QED BY <1>1, <1>2 DEF IsSeq

LEMMA FunctionIsSeq ==
    ASSUME NEW n \in Nat, NEW f, f = [i \in 1 .. n |-> f[i]]
    PROVE  IsSeq(f) /\ Len(f) = n
<1> DEFINE S == {f[i] : i \in 1 .. n}
<1>1. f \in Seq(S)
    OBVIOUS
<1>2. Len(f) = n
    BY <1>1
<1> QED BY <1>1, <1>2 DEF IsSeq

LEMMA ExceptIsSeq ==
    ASSUME NEW q, IsSeq(q), NEW i, NEW v
    PROVE  IsSeq([q EXCEPT ![i] = v]) /\ DOMAIN [q EXCEPT ![i] = v] = DOMAIN q
BY SeqIs, FunctionIsSeq

LEMMA MapIsSeq ==
    ASSUME NEW q, IsSeq(q), NEW f, f = [i \in DOMAIN q |-> f[i]]
    PROVE  IsSeq(f) /\ Len(f) = Len(q)
BY SeqIs, FunctionIsSeq

LEMMA CountsAre ==
    \A S : Finite!Cardinality(S) = Cardinality(S) /\ (Finite!IsFiniteSet(S) <=> IsFiniteSet(S))
BY DEF Finite!Cardinality, Cardinality, Finite!IsFiniteSet, IsFiniteSet

LEMMA Counting ==
    ASSUME NEW M, 0 \in M, \A n \in Nat : n \in M => n + 1 \in M
    PROVE  Nat \subseteq M
<1> DEFINE T == Nat \ M
<1> SUFFICES ASSUME T # {} PROVE FALSE
    OBVIOUS
<1>1. PICK x \in T : \A y \in T : ~(<<y, x>> \in Order!OpToRel(<, Nat))
  <2>1. Order!IsWellFoundedOn(Order!OpToRel(<, Nat), Nat)
    BY Order!NatLessThanWellFounded
  <2> HIDE DEF Order!OpToRel
  <2> QED BY <2>1, Order!WFMin
<1>2. x \in Nat /\ x # 0 /\ x - 1 \in Nat /\ (x - 1) + 1 = x
    OBVIOUS
<1>3. x - 1 \in T
    BY <1>2
<1>4. <<x - 1, x>> \in Order!OpToRel(<, Nat)
    BY <1>2 DEF Order!OpToRel
<1> QED BY <1>1, <1>3, <1>4

LEMMA SmallestIs ==
    ASSUME NEW S, S \subseteq Nat, S # {}
    PROVE  Min(S) \in S /\ \A y \in S : Min(S) <= y
<1>1. PICK x \in S : \A y \in S : ~(<<y, x>> \in Order!OpToRel(<, Nat))
  <2>1. Order!IsWellFoundedOn(Order!OpToRel(<, Nat), Nat)
    BY Order!NatLessThanWellFounded
  <2> HIDE DEF Order!OpToRel
  <2> QED BY <2>1, Order!WFMin
<1>2. \A y \in S : ~(y < x)
    BY <1>1 DEF Order!OpToRel
<1>3. \A y \in S : x <= y
    BY <1>2
<1> QED BY <1>3 DEF Min

LEMMA LargestIs ==
    ASSUME NEW n \in Nat, NEW S, S \subseteq 1 .. n, S # {}
    PROVE  Max(S) \in S /\ \A y \in S : y <= Max(S)
<1>1. S \subseteq 0 .. n
    OBVIOUS
<1> QED BY <1>1, Counting, Superseding!GreatestOf
        DEF Max, Superseding!Greatest, Superseding!Inductive

\* A fact stays in its case, and based on what it was.
LEMMA CaseStays ==
    ASSUME NEW s, NEW t, Housed(s), Stand(s, t),
           \A g \in DOMAIN s.goals : t.goals[g].case = s.goals[g].case
    PROVE  \A j, k \in DOMAIN s.facts : Based(t, j, k) <=> Based(s, j, k)
<1>1. ASSUME NEW i \in DOMAIN s.facts
      PROVE  CaseOf(t, i) = CaseOf(s, i) /\ t.facts[i].code = s.facts[i].code
  <2>1. t.facts[i].code = s.facts[i].code /\ t.facts[i].owner = s.facts[i].owner
    BY DEF Stand
  <2>2. FactDef[s.facts[i].code].scope = "GOAL" => s.facts[i].owner \in {0} \cup DOMAIN s.goals
    BY DEF Housed
  <2> QED BY <2>1, <2>2 DEF CaseOf
<1> QED BY <1>1 DEF Based

\* Nothing falls where the facts in force are as they were.
LEMMA SameSteady ==
    ASSUME NEW s, NEW t, t.facts = s.facts, t.goals = s.goals
    PROVE  Steady(s, t)
<1>1. InForce(t) = InForce(s) /\ Stand(s, t)
    BY DEF InForce, Stand
<1>2. Grounded(s) => Grounded(t)
    BY <1>1 DEF Grounded, LevelOf
<1>3. \A X : OwedBut(s, X) => OwedBut(t, X)
    BY DEF OwedBut, GoalsWith
<1>4. Falling(s, t) /\ (Housed(s) => Housed(t))
    BY DEF Falling, Disturbed, InForce, Housed
<1> QED BY <1>1, <1>2, <1>3, <1>4 DEF Steady, Firm, Owing

LEMMA FirmTrans ==
    ASSUME NEW s, NEW t, NEW u, Firm(s, t), Firm(t, u),
           DOMAIN s.facts \subseteq DOMAIN t.facts, DOMAIN s.goals \subseteq DOMAIN t.goals
    PROVE  Firm(s, u)
<1>1. Stand(s, u)
    BY DEF Stand, Firm, InForce
<1>2. /\ Stratified /\ Grounded(s) => Grounded(t) /\ Grounded(u)
      /\ Housed(s) => Housed(t) /\ Housed(u)
    BY DEF Firm
<1>3. \A g \in DOMAIN s.goals : /\ u.goals[g].parent = s.goals[g].parent
                                /\ u.goals[g].returns = s.goals[g].returns
                                /\ u.goals[g].case = s.goals[g].case
                                /\ t.goals[g].case = s.goals[g].case
    BY DEF Firm
<1>4. ASSUME Stratified, Grounded(s), Housed(s), NEW j \in InForce(s), NEW k \in InForce(s),
             Based(s, j, k), Disturbed(s, u, k)
      PROVE  j \notin InForce(u)
  <2>1. Falling(s, t) /\ Falling(t, u) /\ Stand(s, t) /\ Stand(t, u)
    BY <1>2, <1>4 DEF Firm
  <2>2. CASE j \notin InForce(t)
    BY <2>1, <2>2 DEF Stand, InForce
  <2>3. CASE j \in InForce(t)
    <3>1. ~Disturbed(s, t, k)
      BY <1>4, <2>1, <2>3 DEF Falling
    <3>2. k \in InForce(t) /\ Disturbed(t, u, k)
      BY <1>4, <3>1 DEF Disturbed, InForce
    <3>3. Based(t, j, k)
      BY <1>3, <1>4, <2>1, CaseStays DEF InForce
    <3> QED BY <2>1, <2>3, <3>2, <3>3 DEF Falling
  <2> QED BY <2>2, <2>3
<1>5. Stratified /\ Grounded(s) /\ Housed(s) => Falling(s, u)
    BY <1>4 DEF Falling
<1> QED BY <1>1, <1>2, <1>3, <1>5 DEF Firm

LEMMA SteadyTrans ==
    ASSUME NEW s, NEW t, NEW u, Steady(s, t), Steady(t, u),
           DOMAIN s.facts \subseteq DOMAIN t.facts, DOMAIN s.goals \subseteq DOMAIN t.goals
    PROVE  Steady(s, u)
BY FirmTrans DEF Steady, Owing

LEMMA OnwardIs ==
    /\ \A s, t : t.facts = s.facts /\ t.goals = s.goals => Onward(s, t)
    /\ \A s, t : Kept(s, t) => Onward(s, t)
    /\ \A s, t, u : Onward(s, t) /\ Onward(t, u) => Onward(s, u)
<1>1. \A s, t : t.facts = s.facts /\ t.goals = s.goals => Onward(s, t)
    BY SameSteady DEF Onward
<1>2. ASSUME NEW s, NEW t, NEW u, Onward(s, t), Onward(t, u)
      PROVE  Onward(s, u)
  <2>1. Steady(s, u)
    BY <1>2, SteadyTrans DEF Onward
  <2> QED BY <1>2, <2>1 DEF Onward
<1> QED BY <1>1, <1>2 DEF Kept, Onward

LEMMA WithinSelf == ASSUME NEW s, Shaped(s) PROVE Within(s, s)
BY SameSteady DEF Within

LEMMA WithinTrans ==
    ASSUME NEW s, NEW t, NEW u, Within(s, t), Within(t, u)
    PROVE  Within(s, u)
BY SteadyTrans DEF Within

LEMMA KeptTrans ==
    /\ \A s, t : Within(s, t) => Kept(s, t)
    /\ \A s, t, u : Kept(s, t) /\ Kept(t, u) => Kept(s, u)
BY SteadyTrans DEF Within, Kept

\* Only the facts are other ones, and those of the beginning stand.
LEMMA FactsWithin ==
    ASSUME NEW r, NEW s, Within(r, s), NEW t, DOMAIN t = DOMAIN s,
           \A f \in DOMAIN s : f # "facts" => t[f] = s[f],
           IsSeq(t.facts), DOMAIN s.facts \subseteq DOMAIN t.facts,
           \A i \in DOMAIN t.facts : /\ DOMAIN t.facts[i] = FactFields
                                     /\ t.facts[i].code \in DOMAIN FactDef,
           Stand(r, t), Stratified /\ Grounded(s) => Grounded(t), Housed(r) => Housed(t),
           Stratified /\ Grounded(r) /\ Housed(r) => Falling(r, t)
    PROVE  Within(r, t)
<1>1. \A f \in StateFields \ {"facts"} : t[f] = s[f]
    BY DEF Within, Shaped
<1>2. Shaped(t) /\ t.goals = s.goals /\ t.seq = s.seq /\ t.handoff = s.handoff
    BY <1>1 DEF Within, Shaped, StateFields
<1>3. Codes(t) = Codes(s) /\ \A X : OwedBut(t, X) <=> OwedBut(s, X)
    BY <1>2 DEF Codes, OwedBut, GoalsWith
<1>4. Steady(r, t)
    BY <1>2, <1>3 DEF Within, Steady, Firm, Owing
<1> QED BY <1>2, <1>3, <1>4 DEF Within

LEMMA ErrorWithin ==
    ASSUME NEW s, Shaped(s), NEW why
    PROVE  Within(s, Fail(s, why)) /\ Within(s, Changed(s)) /\ Within(s, Stopped(s, why))
<1>1. ASSUME NEW t, DOMAIN t = DOMAIN s,
             \A f \in StateFields \ {"changed", "error"} : t[f] = s[f]
      PROVE  Within(s, t)
  <2>1. Steady(s, t)
    BY <1>1, SameSteady DEF StateFields
  <2> QED BY <1>1, <2>1 DEF Within, Shaped, StateFields, Codes
<1>2. Within(s, Fail(s, why)) /\ Within(s, Changed(s))
    BY <1>1 DEF Fail, Changed, Shaped, StateFields
<1> QED BY <1>2, WithinSelf DEF Stopped

-----------------------------------------------------------------------------
(* Facts that fall.                                                        *)

LEMMA LevelIs ==
    ASSUME Stratified
    PROVE  Level \in Levels /\ Layered(Level)
BY DEF Stratified, Level

LEMMA LevelsAre ==
    ASSUME Stratified, NEW s, Shaped(s), NEW i \in DOMAIN s.facts
    PROVE  LevelOf(s, i) \in Nat
BY LevelIs DEF LevelOf, Levels, Shaped

LEMMA RetireIs ==
    ASSUME NEW s, Shaped(s), NEW I, NEW why, NEW by
    PROVE  LET t == Retire(s, I, why, by) IN
           /\ DOMAIN t = DOMAIN s /\ \A f \in DOMAIN s : f # "facts" => t[f] = s[f]
           /\ IsSeq(t.facts) /\ DOMAIN t.facts = DOMAIN s.facts
           /\ \A i \in DOMAIN s.facts : i \notin I => t.facts[i] = s.facts[i]
           /\ \A i \in I \cap DOMAIN s.facts : t.facts[i].status = "SUPERSEDED"
           /\ \A i \in DOMAIN s.facts :
                 /\ DOMAIN t.facts[i] = FactFields
                 /\ \A f \in {"code", "value", "owner", "at", "from"} :
                       t.facts[i][f] = s.facts[i][f]
<1> DEFINE F == [i \in DOMAIN s.facts |->
                   IF i \notin I THEN s.facts[i]
                   ELSE [s.facts[i] EXCEPT !.status = "SUPERSEDED", !.why = why,
                                           !.by = by, !.supAt = s.seq]]
           t == Retire(s, I, why, by)
<1>1. IsSeq(F)
    BY MapIsSeq DEF Shaped
<1>2. t = [s EXCEPT !.facts = F]
    BY DEF Retire, Shaped, StateFields
<1>3. DOMAIN F = DOMAIN s.facts
    OBVIOUS
<1>4. \A i \in DOMAIN s.facts : i \notin I => F[i] = s.facts[i]
    OBVIOUS
<1>5. ASSUME NEW i \in DOMAIN s.facts, i \in I
      PROVE  /\ F[i].status = "SUPERSEDED" /\ DOMAIN F[i] = FactFields
             /\ \A f \in {"code", "value", "owner", "at", "from"} : F[i][f] = s.facts[i][f]
  <2>1. F[i] = [s.facts[i] EXCEPT !.status = "SUPERSEDED", !.why = why,
                                  !.by = by, !.supAt = s.seq]
    BY <1>5
  <2>2. DOMAIN s.facts[i] = FactFields
    BY DEF Shaped
  <2> HIDE DEF F
  <2> QED BY <2>1, <2>2 DEF FactFields
<1>6. \A i \in DOMAIN s.facts : DOMAIN s.facts[i] = FactFields
    BY DEF Shaped
<1> HIDE DEF F
<1>7. t.facts = F /\ DOMAIN t = DOMAIN s /\ \A f \in DOMAIN s : f # "facts" => t[f] = s[f]
    BY <1>2 DEF Shaped, StateFields
<1> HIDE DEF t
<1>8. \A i \in DOMAIN s.facts : /\ DOMAIN F[i] = FactFields
                                /\ \A f \in {"code", "value", "owner", "at", "from"} :
                                      F[i][f] = s.facts[i][f]
    BY <1>4, <1>5, <1>6
<1> QED BY <1>1, <1>3, <1>4, <1>5, <1>7, <1>8 DEF t

LEMMA GrowingIs ==
    ASSUME NEW env
    PROVE  Fallen(env.s, env.i) = Growing!Along(env, {env.i}, env.s.facts)
BY Zenon DEF Fallen, Growing!Along, GrowingOp, FoldLeft, Max, Growing!Greatest,
             MapThenFoldSet, Growing!MapThenFoldSet

\* A dependent is in force, and above what it depends on.
LEMMA DependentsAre ==
    ASSUME NEW s, Shaped(s), NEW k \in DOMAIN s.facts, NEW j \in Dependents(s, k)
    PROVE  j \in InForce(s) /\ (Rising(s) => LevelOf(s, k) < LevelOf(s, j))
<1>1. /\ j \in InForce(s)
      /\ k \in s.facts[j].from \/ s.facts[k].code \in FactDef[s.facts[j].code].depends
    BY DEF Dependents, InForce
<1>2. ASSUME Rising(s), s.facts[k].code \in FactDef[s.facts[j].code].depends
      PROVE  LevelOf(s, k) < LevelOf(s, j)
  <2>1. Layered(Level) /\ s.facts[j].code \in DOMAIN FactDef
    BY <1>1, <1>2, LevelIs DEF Rising, InForce, Shaped
  <2> QED BY <1>2, <2>1 DEF Layered, LevelOf
<1>3. Rising(s) /\ k \in s.facts[j].from => LevelOf(s, k) < LevelOf(s, j)
    BY <1>1 DEF Rising
<1> QED BY <1>1, <1>2, <1>3

\* The facts that fall with one are in force, all that depend on any of them, and above it.
LEMMA FallenIs ==
    ASSUME NEW s, Shaped(s), NEW i \in DOMAIN s.facts
    PROVE  LET F == Fallen(s, i) IN
           /\ i \in F /\ F \subseteq {i} \cup InForce(s) /\ Closed(s, F)
           /\ Rising(s) => \A j \in F \ {i} : LevelOf(s, i) < LevelOf(s, j)
<1> DEFINE env == [s |-> s, i |-> i]
           n == Len(s.facts)
           F == Growing!Along(env, {i}, s.facts)
<1>1. env.s = s /\ env.i = i
    OBVIOUS
<1> HIDE DEF env
<1>2. Fallen(s, i) = F
  <2>1. Fallen(env.s, env.i) = Growing!Along(env, {env.i}, env.s.facts)
    BY GrowingIs
  <2> QED BY <1>1, <2>1
<1>3. n \in Nat /\ DOMAIN s.facts = 1 .. n
    BY SeqIs DEF Shaped
<1> HIDE DEF n
<1>4. \A G : G \subseteq {i} \cup InForce(s) =>
         IsFiniteSet(G) /\ Cardinality(G) \in Nat /\ Cardinality(G) <= n
  <2>1. IsFiniteSet(1 .. n) /\ Cardinality(1 .. n) = n
    BY <1>3, CountsAre, Finite!FS_Interval
  <2>2. {i} \cup InForce(s) \subseteq 1 .. n
    BY <1>3 DEF InForce
  <2> QED BY <2>1, <2>2, Finite!FS_Subset, CountsAre, Finite!FS_CardinalityType
<1>5. GrownOf(env, 0, {i})
  <2>1. Cardinality({i}) = 1
    BY CountsAre, Finite!FS_Singleton
  <2> QED BY <1>1, <2>1 DEF GrownOf
<1>6. ASSUME NEW k \in 1 .. n, NEW x, NEW G, GrownOf(env, k - 1, G)
      PROVE  GrownOf(env, k, GrowingOp(env, G, x))
  <2> DEFINE H == GrowingOp(env, G, x)
  <2>1. /\ i \in G /\ G \subseteq {i} \cup InForce(s) /\ G \subseteq DOMAIN s.facts
        /\ Rising(s) => \A j \in G \ {i} : LevelOf(s, i) < LevelOf(s, j)
        /\ Closed(s, G) \/ Cardinality(G) > k - 1
    BY <1>1, <1>6 DEF GrownOf, InForce
  <2>2. H = G \cup UNION {Dependents(s, m) : m \in G}
    BY <1>1 DEF GrowingOp
  <2>3. H \subseteq {i} \cup InForce(s)
    BY <2>1, <2>2, DependentsAre
  <2>4. ASSUME Rising(s), NEW j \in H \ {i}
        PROVE  LevelOf(s, i) < LevelOf(s, j)
    <3>1. CASE j \in G
      BY <2>1, <2>4, <3>1
    <3>2. CASE j \notin G
      <4>1. PICK m \in G : j \in Dependents(s, m)
        BY <2>2, <2>4, <3>2
      <4>2. LevelOf(s, m) < LevelOf(s, j) /\ j \in DOMAIN s.facts
        BY <2>1, <2>4, <4>1, DependentsAre DEF InForce
      <4>3. LevelOf(s, i) \in Nat /\ LevelOf(s, m) \in Nat /\ LevelOf(s, j) \in Nat
        BY <2>1, <2>4, <4>2, LevelsAre DEF Rising
      <4>4. m = i \/ LevelOf(s, i) < LevelOf(s, m)
        BY <2>1, <2>4
      <4> QED BY <4>2, <4>3, <4>4
    <3> QED BY <3>1, <3>2
  <2>5. Closed(s, H) \/ Cardinality(H) > k
    <3>1. CASE Closed(s, G)
      <4>1. H = G
        BY <2>2, <3>1 DEF Closed
      <4> QED BY <3>1, <4>1
    <3>2. CASE ~Closed(s, G)
      <4>1. PICK m \in G : ~(Dependents(s, m) \subseteq G)
        BY <3>2 DEF Closed
      <4>2. PICK d \in Dependents(s, m) : d \notin G
        BY <4>1
      <4>3. G \cup {d} \subseteq H
        BY <2>2, <4>2
      <4>4. IsFiniteSet(G) /\ IsFiniteSet(H) /\ Cardinality(G) \in Nat /\ Cardinality(H) \in Nat
        BY <1>4, <2>1, <2>3
      <4>5. Cardinality(G \cup {d}) = Cardinality(G) + 1
        BY <4>2, <4>4, CountsAre, Finite!FS_AddElement
      <4> HIDE DEF H
      <4>6. Cardinality(G \cup {d}) <= Cardinality(H)
        BY <4>3, <4>4, CountsAre, Finite!FS_Subset
      <4>7. Cardinality(G) > k - 1
        BY <2>1, <3>2
      <4> QED BY <4>4, <4>5, <4>6, <4>7
    <3> QED BY <3>1, <3>2
  <2> HIDE DEF H
  <2>6. i \in H
    BY <2>1, <2>2
  <2>7. GrownOf(env, k, H)
    BY <1>1, <2>3, <2>4, <2>5, <2>6 DEF GrownOf
  <2> QED BY <2>7 DEF H
<1>7. \A k \in 1 .. n : \A G :
         GrownOf(env, k - 1, G) => GrownOf(env, k, GrowingOp(env, G, s.facts[k]))
    BY <1>6
<1>8. GrownOf(env, n, F)
    BY <1>3, <1>5, <1>7, Counting, Growing!FoldLeftRule DEF Growing!Inductive
<1> HIDE DEF F
<1>9. Closed(s, F)
  <2>1. F \subseteq {i} \cup InForce(s) /\ (Closed(s, F) \/ Cardinality(F) > n)
    BY <1>1, <1>8 DEF GrownOf
  <2>2. Cardinality(F) \in Nat /\ Cardinality(F) <= n
    BY <1>4, <2>1
  <2> QED BY <1>3, <2>1, <2>2
<1> QED BY <1>1, <1>2, <1>8, <1>9 DEF GrownOf

\* What retiring facts does to those in force, and to those of the beginning.
LEMMA RetireStands ==
    ASSUME NEW r, NEW t, Shaped(t), Stand(r, t), DOMAIN r.facts \subseteq DOMAIN t.facts,
           NEW I, I \cap DOMAIN r.facts \subseteq InForce(r), NEW why, NEW by
    PROVE  LET u == Retire(t, I, why, by) IN
           /\ Shaped(u) /\ Stand(r, u) /\ DOMAIN u.facts = DOMAIN t.facts
           /\ InForce(u) = InForce(t) \ I
           /\ \A j \in DOMAIN t.facts : /\ u.facts[j].code = t.facts[j].code
                                       /\ u.facts[j].from = t.facts[j].from
                                       /\ u.facts[j].owner = t.facts[j].owner
           /\ \A j \in DOMAIN t.facts \ I : u.facts[j] = t.facts[j]
<1> DEFINE u == Retire(t, I, why, by)
<1>1. /\ DOMAIN u = DOMAIN t /\ \A f \in DOMAIN t : f # "facts" => u[f] = t[f]
      /\ IsSeq(u.facts) /\ DOMAIN u.facts = DOMAIN t.facts
      /\ \A j \in DOMAIN t.facts : j \notin I => u.facts[j] = t.facts[j]
      /\ \A j \in I \cap DOMAIN t.facts : u.facts[j].status = "SUPERSEDED"
      /\ \A j \in DOMAIN t.facts :
            /\ DOMAIN u.facts[j] = FactFields
            /\ \A f \in {"code", "value", "owner", "at", "from"} :
                  u.facts[j][f] = t.facts[j][f]
    BY RetireIs
<1> HIDE DEF u
<1>2. \A j \in DOMAIN t.facts : /\ u.facts[j].code = t.facts[j].code
                              /\ u.facts[j].from = t.facts[j].from
                              /\ u.facts[j].owner = t.facts[j].owner
    BY <1>1
<1>3. Shaped(u)
  <2>1. \A f \in StateFields \ {"facts"} : u[f] = t[f]
    BY <1>1 DEF Shaped
  <2>2. u.goals = t.goals /\ u.parked = t.parked /\ u.actions = t.actions
    BY <2>1 DEF StateFields
  <2> QED BY <1>1, <1>2, <2>2 DEF Shaped
<1>4. Stand(r, u)
    BY <1>1 DEF Stand
<1>5. InForce(u) = InForce(t) \ I
    BY <1>1 DEF InForce
<1>6. \A j \in DOMAIN t.facts \ I : u.facts[j] = t.facts[j]
    BY <1>1
<1> QED BY <1>1, <1>2, <1>3, <1>4, <1>5, <1>6 DEF u

\* What was concluded from a fact falls, whether the fact itself does or is disputed:
\* nothing of its level, nothing below.
LEMMA FallWithin ==
    ASSUME NEW r, NEW t, Within(r, t), NEW i \in InForce(r),
           NEW t0, Shaped(t0), Stand(r, t0), DOMAIN t0 = DOMAIN t,
           \A f \in DOMAIN t : f # "facts" => t0[f] = t[f],
           DOMAIN t0.facts = DOMAIN t.facts,
           InForce(t0) \subseteq InForce(t), InForce(t) \subseteq InForce(t0) \cup {i},
           \A j \in DOMAIN t.facts : /\ t0.facts[j].code = t.facts[j].code
                                   /\ t0.facts[j].from = t.facts[j].from
                                   /\ t0.facts[j].owner = t.facts[j].owner,
           \A j \in DOMAIN t.facts \ {i} : t0.facts[j] = t.facts[j]
    PROVE  LET u == InvalidateDependents(t0, i) IN
           /\ Within(r, u) /\ DOMAIN u.facts = DOMAIN t.facts
           /\ \A j \in DOMAIN t.facts : u.facts[j].code = t.facts[j].code
           /\ Stratified /\ Grounded(t) =>
                 /\ Grounded(u)
                 /\ \A k \in InForce(t) \ {i} :
                        LevelOf(t, k) <= LevelOf(t, i) => k \in InForce(u)
<1> DEFINE F == Fallen(t0, i)
           Others == F \ {i}
           reason == "DEPENDENCY_INVALIDATED"
           none == 0
           u == Retire(t0, Others, reason, none)
<1>1. InvalidateDependents(t0, i) = u
    BY DEF InvalidateDependents, Fallen
<1>2. /\ Shaped(t) /\ Stand(r, t) /\ DOMAIN r.facts \subseteq DOMAIN t.facts
      /\ i \in DOMAIN t.facts /\ InForce(t) \cap DOMAIN r.facts \subseteq InForce(r)
    BY DEF Within, Steady, Firm, Stand, InForce
<1>3. /\ i \in F /\ F \subseteq {i} \cup InForce(t0) /\ Closed(t0, F)
      /\ Rising(t0) => \A j \in F \ {i} : LevelOf(t0, i) < LevelOf(t0, j)
    BY <1>2, FallenIs
<1> HIDE DEF F
<1>4. Others \cap DOMAIN r.facts \subseteq InForce(r)
    BY <1>2, <1>3
<1> HIDE DEF Others, reason, none
<1>5. /\ Shaped(u) /\ Stand(r, u) /\ DOMAIN u.facts = DOMAIN t0.facts
      /\ InForce(u) = InForce(t0) \ Others
      /\ \A j \in DOMAIN t0.facts : /\ u.facts[j].code = t0.facts[j].code
                                   /\ u.facts[j].from = t0.facts[j].from
                                   /\ u.facts[j].owner = t0.facts[j].owner
      /\ \A j \in DOMAIN t0.facts \ Others : u.facts[j] = t0.facts[j]
  <2>1. DOMAIN r.facts \subseteq DOMAIN t0.facts
    BY <1>2
  <2>2. Shaped(t0) /\ Stand(r, t0)
    OBVIOUS
  <2> QED BY ONLY <1>4, <2>1, <2>2, RetireStands
<1>6. DOMAIN u = DOMAIN t /\ \A f \in DOMAIN t : f # "facts" => u[f] = t[f]
    BY RetireIs
<1> HIDE DEF u
<1>7. \A j \in DOMAIN t.facts : /\ LevelOf(t0, j) = LevelOf(t, j) /\ LevelOf(u, j) = LevelOf(t, j)
                               /\ u.facts[j].from = t.facts[j].from
    BY <1>5 DEF LevelOf
<1>8. ASSUME Stratified, Grounded(t)
      PROVE  Rising(t0)
  <2> SUFFICES ASSUME NEW j \in InForce(t0), NEW k \in t0.facts[j].from
               PROVE  LevelOf(t0, k) < LevelOf(t0, j)
    BY <1>8 DEF Rising
  <2>1. j \in InForce(t) /\ j \in DOMAIN t.facts
    BY DEF InForce
  <2>2. k \in InForce(t) /\ LevelOf(t, k) < LevelOf(t, j)
    BY <1>8, <2>1 DEF Grounded
  <2>3. k \in DOMAIN t.facts
    BY <2>2 DEF InForce
  <2> QED BY <1>7, <2>1, <2>2, <2>3
<1>9. ASSUME Stratified, Grounded(t), NEW k \in DOMAIN t.facts, k # i, LevelOf(t, k) <= LevelOf(t, i)
      PROVE  k \notin F
  <2>1. LevelOf(t, k) \in Nat /\ LevelOf(t, i) \in Nat
    BY <1>2, <1>9, LevelsAre
  <2>2. k \in F => LevelOf(t, i) < LevelOf(t, k)
    BY <1>2, <1>3, <1>7, <1>8, <1>9
  <2> QED BY <1>9, <2>1, <2>2
<1>10. ASSUME Stratified, Grounded(t)
       PROVE  Grounded(u)
  <2> SUFFICES ASSUME NEW j \in InForce(u), NEW k \in u.facts[j].from
               PROVE  k \in InForce(u) /\ LevelOf(u, k) < LevelOf(u, j)
    BY DEF Grounded
  <2>1. j \in InForce(t) /\ j \notin Others /\ j \in DOMAIN t.facts /\ j \in InForce(t0)
    BY <1>5 DEF InForce
  <2>2. k \in t.facts[j].from /\ k \in t0.facts[j].from
    BY <1>5, <2>1
  <2>3. k \in InForce(t) /\ k \in DOMAIN t.facts /\ LevelOf(t, k) < LevelOf(t, j)
    BY <1>10, <2>1, <2>2 DEF Grounded, InForce
  <2>4. /\ LevelOf(t, k) \in Nat /\ LevelOf(t, j) \in Nat /\ LevelOf(t, i) \in Nat
    BY <1>2, <1>10, <2>1, <2>3, LevelsAre
  <2>5. k \notin F
    <3> SUFFICES ASSUME k \in F PROVE FALSE
      OBVIOUS
    <3>1. j \in Dependents(t0, k)
      BY <2>1, <2>2 DEF Dependents, InForce
    <3>2. j = i
      BY <1>3, <2>1, <3>1 DEF Closed, Others
    <3> QED BY <1>9, <1>10, <2>3, <2>4, <3>2
  <2>6. k # i \/ i \in InForce(t0)
    BY <1>3, <2>5
  <2>7. k \in InForce(u)
    BY <1>3, <1>5, <2>3, <2>5, <2>6 DEF Others
  <2> QED BY <1>7, <2>1, <2>3, <2>7
<1>11. ASSUME Stratified, Grounded(t), NEW k \in InForce(t) \ {i}, LevelOf(t, k) <= LevelOf(t, i)
       PROVE  k \in InForce(u)
  <2>1. k \in DOMAIN t.facts /\ k \in InForce(t0)
    BY <1>11 DEF InForce
  <2> QED BY <1>5, <1>9, <1>11, <2>1 DEF Others
<1>12. IsSeq(u.facts) /\ \A j \in DOMAIN u.facts : /\ DOMAIN u.facts[j] = FactFields
                                                /\ u.facts[j].code \in DOMAIN FactDef
    BY <1>5 DEF Shaped
<1>13. \A g \in DOMAIN r.goals : t0.goals[g].case = r.goals[g].case
  <2>1. t0.goals = t.goals
    BY <1>2 DEF Shaped, StateFields
  <2> QED BY <2>1 DEF Within, Steady, Firm
<1>14. Housed(r) => Housed(u)
  <2>1. \A j \in DOMAIN t.facts : /\ u.facts[j].owner = t.facts[j].owner
                                 /\ u.facts[j].code = t.facts[j].code
    BY <1>5
  <2>2. u.goals = t.goals
    BY <1>2, <1>6 DEF Shaped, StateFields
  <2> QED BY <1>5, <2>1, <2>2 DEF Within, Steady, Firm, Housed
<1>15. ASSUME Stratified, Grounded(r), Housed(r), NEW j \in InForce(r), NEW k \in InForce(r),
              Based(r, j, k), Disturbed(r, u, k), j \in InForce(u)
       PROVE  FALSE
  <2>1. /\ Falling(r, t) /\ Grounded(t) /\ j \in DOMAIN t.facts /\ k \in DOMAIN t.facts
        /\ j \in DOMAIN r.facts /\ k \in DOMAIN r.facts
    BY <1>2, <1>15 DEF Within, Steady, Firm, InForce
  <2>2. j \in InForce(t0) /\ j \in InForce(t) /\ j \notin Others
    BY <1>5, <1>15
  <2>3. ~Disturbed(r, t, k)
    BY <1>15, <2>1, <2>2 DEF Falling
  <2>4. k \in F
    <3>1. k # i /\ k \notin Others => u.facts[k] = t.facts[k]
      BY <1>5, <2>1
    <3>2. k = i \/ k \in Others
      BY <1>15, <2>3, <3>1 DEF Disturbed
    <3> QED BY <1>3, <3>2 DEF Others
  <2>5. Based(t0, j, k)
    BY <1>13, <1>15, <2>1, CaseStays
  <2>6. j \in Dependents(t0, k)
    BY <2>2, <2>5 DEF Dependents, Based, InForce
  <2>7. j = i
    BY <1>3, <2>2, <2>4, <2>6 DEF Closed, Others
  <2>8. LevelOf(t0, k) < LevelOf(t0, j)
    <3>1. t0.facts[j].code \in DOMAIN FactDef /\ Layered(Level)
      BY <1>15, <2>1, LevelIs DEF Shaped
    <3> QED BY <2>5, <3>1 DEF Layered, LevelOf, Based
  <2>9. LevelOf(t0, k) \in Nat /\ LevelOf(t0, i) \in Nat
    BY <1>2, <1>15, <2>1, LevelsAre
  <2> QED BY <1>3, <1>8, <1>15, <2>1, <2>4, <2>7, <2>8, <2>9
<1>16. Within(r, u) /\ DOMAIN u.facts = DOMAIN t.facts
  <2>1. Stratified /\ Grounded(r) /\ Housed(r) => Falling(r, u)
    BY <1>15 DEF Falling
  <2> QED BY <1>5, <1>6, <1>10, <1>12, <1>14, <2>1, FactsWithin
<1>17. \A j \in DOMAIN t.facts : u.facts[j].code = t.facts[j].code
    BY <1>5
<1> QED BY <1>1, <1>10, <1>11, <1>16, <1>17

\* A fact falls, and what was concluded from it with it.
LEMMA RetiredWithin ==
    ASSUME NEW r, NEW t, Within(r, t), NEW i \in InForce(r), NEW why, NEW by
    PROVE  LET u == InvalidateDependents(Retire(t, {i}, why, by), i) IN
           /\ Within(r, u) /\ DOMAIN u.facts = DOMAIN t.facts
           /\ \A j \in DOMAIN t.facts : u.facts[j].code = t.facts[j].code
           /\ Stratified /\ Grounded(t) =>
                 /\ Grounded(u)
                 /\ \A k \in InForce(t) \ {i} :
                        LevelOf(t, k) <= LevelOf(t, i) => k \in InForce(u)
<1> DEFINE One == {i}
           t0 == Retire(t, One, why, by)
<1>1. /\ Shaped(t) /\ Stand(r, t) /\ DOMAIN r.facts \subseteq DOMAIN t.facts
      /\ One \cap DOMAIN r.facts \subseteq InForce(r)
    BY DEF Within, Steady, Firm
<1> HIDE DEF One
<1>2. /\ Shaped(t0) /\ Stand(r, t0) /\ DOMAIN t0.facts = DOMAIN t.facts
      /\ InForce(t0) = InForce(t) \ One
      /\ \A j \in DOMAIN t.facts : /\ t0.facts[j].code = t.facts[j].code
                                  /\ t0.facts[j].from = t.facts[j].from
                                  /\ t0.facts[j].owner = t.facts[j].owner
      /\ \A j \in DOMAIN t.facts \ One : t0.facts[j] = t.facts[j]
    BY <1>1, RetireStands
<1>3. DOMAIN t0 = DOMAIN t /\ \A f \in DOMAIN t : f # "facts" => t0[f] = t[f]
    BY <1>1, RetireIs
<1> HIDE DEF t0
<1>4. InForce(t0) \subseteq InForce(t) /\ InForce(t) \subseteq InForce(t0) \cup {i}
    BY <1>2 DEF One
<1>5. \A j \in DOMAIN t.facts \ {i} : t0.facts[j] = t.facts[j]
    BY <1>2 DEF One
<1>6. LET u == InvalidateDependents(t0, i) IN
      /\ Within(r, u) /\ DOMAIN u.facts = DOMAIN t.facts
      /\ \A j \in DOMAIN t.facts : u.facts[j].code = t.facts[j].code
      /\ Stratified /\ Grounded(t) =>
            /\ Grounded(u)
            /\ \A k \in InForce(t) \ {i} :
                   LevelOf(t, k) <= LevelOf(t, i) => k \in InForce(u)
    BY <1>2, <1>3, <1>4, <1>5, FallWithin
<1> QED BY <1>6 DEF t0, One

LEMMA SupersedingIs ==
    ASSUME NEW env, NEW s
    PROVE  SupersedeAll(s, env.I, env.why, env.by)
             = Superseding!Along(env, s, [i \in DOMAIN s.facts |-> i])
BY Zenon DEF SupersedeAll, Superseding!Along, SupersedingOp, FoldLeft, Max, Superseding!Greatest,
             MapThenFoldSet, Superseding!MapThenFoldSet

\* Facts of one code fall: nothing else of its level, nothing below.
LEMMA SupersedeWithin ==
    ASSUME NEW r, NEW s, Within(r, s), NEW I, I \subseteq InForce(r), NEW code,
           \A i \in I : s.facts[i].code = code, NEW why, NEW by
    PROVE  LET t == SupersedeAll(s, I, why, by) IN
           /\ Within(r, t) /\ DOMAIN t.facts = DOMAIN s.facts
           /\ \A i \in DOMAIN s.facts : t.facts[i].code = s.facts[i].code
           /\ Stratified /\ Grounded(s) =>
                 /\ Grounded(t)
                 /\ \A k \in InForce(s) \ I : LevelOf(s, k) <= Level[code] => k \in InForce(t)
<1> DEFINE env == [r |-> r, s |-> s, I |-> I, why |-> why, by |-> by, code |-> code]
           seq == [i \in DOMAIN s.facts |-> i]
           n == Len(s.facts)
           t == SupersedeAll(s, I, why, by)
<1>1. /\ env.r = r /\ env.s = s /\ env.I = I /\ env.why = why /\ env.by = by
      /\ env.code = code
    OBVIOUS
<1> HIDE DEF env
<1>2. t = Superseding!Along(env, s, seq)
    BY <1>1, SupersedingIs
<1> HIDE DEF t
<1>3. Shaped(s) /\ DOMAIN r.facts \subseteq DOMAIN s.facts
    BY DEF Within
<1>4. n \in Nat /\ DOMAIN seq = 1 .. n /\ \A k \in 1 .. n : seq[k] \in DOMAIN s.facts
    BY <1>3, SeqIs DEF Shaped
<1> HIDE DEF seq, n
<1>5. RemainsOf(env, 0, s)
    BY <1>1 DEF RemainsOf
<1>6. ASSUME NEW k, NEW l, NEW i \in DOMAIN s.facts, NEW u, RemainsOf(env, k, u)
      PROVE  RemainsOf(env, l, SupersedingOp(env, u, i))
  <2> DEFINE v == InvalidateDependents(Retire(u, {i}, why, by), i)
  <2>1. /\ Within(r, u) /\ DOMAIN u.facts = DOMAIN s.facts
        /\ \A j \in DOMAIN s.facts : u.facts[j].code = s.facts[j].code
        /\ Stratified /\ Grounded(s) =>
              /\ Grounded(u)
              /\ \A j \in InForce(s) \ I : LevelOf(s, j) <= Level[code] => j \in InForce(u)
    BY <1>1, <1>6 DEF RemainsOf
  <2>2. CASE i \in I
    <3>1. /\ Within(r, v) /\ DOMAIN v.facts = DOMAIN u.facts
          /\ \A j \in DOMAIN u.facts : v.facts[j].code = u.facts[j].code
          /\ Stratified /\ Grounded(u) =>
                /\ Grounded(v)
                /\ \A j \in InForce(u) \ {i} :
                      LevelOf(u, j) <= LevelOf(u, i) => j \in InForce(v)
      BY <2>1, <2>2, RetiredWithin
    <3> HIDE DEF v
    <3>2.  ASSUME Stratified, Grounded(s), NEW j \in InForce(s) \ I, LevelOf(s, j) <= Level[code]
          PROVE  j \in InForce(v)
      <4>1. j \in InForce(u) \ {i} /\ j \in DOMAIN s.facts
        BY <2>1, <2>2, <3>2 DEF InForce
      <4>2. LevelOf(u, j) = LevelOf(s, j) /\ LevelOf(u, i) = Level[code]
        BY <2>1, <2>2, <4>1 DEF LevelOf
      <4> QED BY <2>1, <3>1, <3>2, <4>1, <4>2
    <3>3. SupersedingOp(env, u, i) = v
      BY <1>1, <2>2 DEF SupersedingOp, v
    <3> QED BY <1>1, <2>1, <3>1, <3>2, <3>3 DEF RemainsOf
  <2>3. CASE i \notin I
    BY <1>1, <1>6, <2>3 DEF SupersedingOp, RemainsOf
  <2> QED BY <2>2, <2>3
<1>7. \A k \in 1 .. n : \A u :
         RemainsOf(env, k - 1, u) => RemainsOf(env, k, SupersedingOp(env, u, seq[k]))
    BY <1>4, <1>6
<1>8. RemainsOf(env, n, t)
    BY <1>2, <1>4, <1>5, <1>7, Counting, Superseding!FoldLeftRule DEF Superseding!Inductive
<1> QED BY <1>1, <1>8 DEF RemainsOf, t

-----------------------------------------------------------------------------
(* Recording a fact.                                                       *)

\* A fact in force keeps what it says, and is otherwise another one.
Marked(t, u, i) ==
    /\ DOMAIN u = DOMAIN t /\ \A f \in DOMAIN t : f # "facts" => u[f] = t[f]
    /\ IsSeq(u.facts) /\ DOMAIN u.facts = DOMAIN t.facts
    /\ \A j \in DOMAIN t.facts \ {i} : u.facts[j] = t.facts[j]
    /\ i \in DOMAIN t.facts =>
          /\ DOMAIN u.facts[i] = FactFields
          /\ \A f \in {"code", "value", "owner", "at", "from", "status"} :
                u.facts[i][f] = t.facts[i][f]

LEMMA MarkedIs ==
    ASSUME NEW r, NEW t, Shaped(t), Stand(r, t), DOMAIN r.facts \subseteq DOMAIN t.facts,
           NEW i \in InForce(r), NEW u, Marked(t, u, i)
    PROVE  /\ Shaped(u) /\ Stand(r, u) /\ InForce(u) = InForce(t)
           /\ \A j \in DOMAIN t.facts : /\ u.facts[j].code = t.facts[j].code
                                       /\ u.facts[j].from = t.facts[j].from
                                       /\ u.facts[j].owner = t.facts[j].owner
                                       /\ u.facts[j].status = t.facts[j].status
           /\ u.goals = t.goals
           /\ Grounded(u) <=> Grounded(t)
<1>1. \A j \in DOMAIN t.facts : /\ u.facts[j].code = t.facts[j].code
                              /\ u.facts[j].from = t.facts[j].from
                              /\ u.facts[j].owner = t.facts[j].owner
                              /\ u.facts[j].status = t.facts[j].status
    BY DEF Marked
<1>2. Shaped(u)
  <2>1. \A f \in StateFields \ {"facts"} : u[f] = t[f]
    BY DEF Shaped, Marked
  <2>2. u.goals = t.goals /\ u.parked = t.parked /\ u.actions = t.actions
    BY <2>1 DEF StateFields
  <2>3. \A j \in DOMAIN u.facts : DOMAIN u.facts[j] = FactFields
    BY DEF Shaped, Marked
  <2> QED BY <1>1, <2>2, <2>3 DEF Shaped, Marked
<1>3. Stand(r, u)
    BY DEF Stand, Marked
<1>4. InForce(u) = InForce(t)
    BY <1>1 DEF InForce, Marked
<1>5. Grounded(u) <=> Grounded(t)
  <2>1. \A j \in InForce(t) : j \in DOMAIN t.facts
    BY DEF InForce
  <2> QED BY <1>1, <1>4, <2>1 DEF Grounded, LevelOf
<1>6. u.goals = t.goals
    BY DEF Shaped, StateFields, Marked
<1> QED BY <1>1, <1>2, <1>3, <1>4, <1>5, <1>6

\* ... and falls only if it is in dispute.
LEMMA MarkedWithin ==
    ASSUME NEW r, NEW t, Within(r, t), NEW i \in InForce(r), NEW u, Marked(t, u, i),
           u.facts[i].conflict \in {0, t.facts[i].conflict}
    PROVE  Within(r, u)
<1>1. /\ Shaped(t) /\ Stand(r, t) /\ DOMAIN r.facts \subseteq DOMAIN t.facts
    BY DEF Within, Steady, Firm
<1>2. /\ Shaped(u) /\ Stand(r, u) /\ (Grounded(u) <=> Grounded(t))
      /\ InForce(u) = InForce(t) /\ u.goals = t.goals
      /\ \A j \in DOMAIN t.facts : /\ u.facts[j].code = t.facts[j].code
                                  /\ u.facts[j].owner = t.facts[j].owner
                                  /\ u.facts[j].status = t.facts[j].status
    BY <1>1, MarkedIs
<1>3. /\ DOMAIN u = DOMAIN t /\ \A f \in DOMAIN t : f # "facts" => u[f] = t[f]
      /\ IsSeq(u.facts) /\ DOMAIN t.facts \subseteq DOMAIN u.facts
      /\ \A j \in DOMAIN u.facts : /\ DOMAIN u.facts[j] = FactFields
                                  /\ u.facts[j].code \in DOMAIN FactDef
    BY <1>2 DEF Marked, Shaped
<1>4. Housed(r) => Housed(u)
  <2>1. DOMAIN u.facts = DOMAIN t.facts
    BY DEF Marked
  <2> QED BY <1>2, <2>1 DEF Within, Steady, Firm, Housed
<1>5. Falling(r, t) => Falling(r, u)
  <2>1. \A k \in InForce(r) : k \in DOMAIN t.facts
    BY <1>1 DEF InForce
  <2>2. \A k \in InForce(r) \ {i} : u.facts[k] = t.facts[k]
    BY <2>1 DEF Marked
  <2>3. ASSUME NEW k \in InForce(r), Disturbed(r, u, k)
        PROVE  Disturbed(r, t, k)
    <3>1. CASE k # i
      BY <2>2, <2>3, <3>1 DEF Disturbed
    <3>2. CASE k = i
      BY <1>2, <2>1, <2>3, <3>2 DEF Disturbed
    <3> QED BY <3>1, <3>2
  <2> QED BY <1>2, <2>3 DEF Falling
<1>6. Stratified /\ Grounded(r) /\ Housed(r) => Falling(r, u)
    BY <1>5 DEF Within, Steady, Firm
<1> QED BY <1>2, <1>3, <1>4, <1>6, FactsWithin

LEMMA ConfirmWithin ==
    ASSUME NEW s, Shaped(s), NEW existing, existing \subseteq InForce(s), NEW i \in existing,
           NEW code, \A j \in existing : s.facts[j].code = code, NEW mode, NEW in, NEW confidence
    PROVE  Within(s, ConfirmFact(s, i, existing, mode, in, confidence))
<1> DEFINE why == CASE in.source = "USER_CORRECTION" -> "USER_CORRECTION"
                    [] mode = "DERIVE" -> "SYSTEM_REPLACEMENT"
                    [] OTHER -> "CHANGE_OF_MIND"
           others == existing \ {i}
           t == SupersedeAll(s, others, why, i)
           f1 == [t.facts[i] EXCEPT !.confidence =
                    IF confidence # "UNCERTAIN" \/ @ # "CONFIRMED" THEN confidence ELSE @]
           F1 == [t.facts EXCEPT ![i] = f1]
           f2 == [F1[i] EXCEPT !.authoritative = @ \/ in.authoritative]
           F2 == [F1 EXCEPT ![i] = f2]
           f3 == [F2[i] EXCEPT !.conflict = 0]
           F3 == [F2 EXCEPT ![i] = f3]
           u == [t EXCEPT
                   !.facts[i].confidence = IF confidence # "UNCERTAIN" \/ @ # "CONFIRMED"
                                           THEN confidence ELSE @,
                   !.facts[i].authoritative = @ \/ in.authoritative,
                   !.facts[i].conflict = 0]
           said == {"code", "value", "owner", "at", "from", "status"}
<1>1. Within(s, t)
  <2>1. others \subseteq InForce(s) /\ \A j \in others : s.facts[j].code = code
    BY DEF InForce
  <2> HIDE DEF others, why
  <2> QED BY <2>1, WithinSelf, SupersedeWithin
<1>2. ConfirmFact(s, i, existing, mode, in, confidence) = u
    BY DEF ConfirmFact
<1> HIDE DEF t
<1>3. /\ IsSeq(t.facts) /\ DOMAIN t = StateFields /\ i \in DOMAIN t.facts
      /\ DOMAIN t.facts[i] = FactFields
    BY <1>1 DEF Within, Shaped, InForce
<1>4. IsSeq(F1) /\ DOMAIN F1 = DOMAIN t.facts
    BY <1>3, ExceptIsSeq
<1>5. IsSeq(F2) /\ DOMAIN F2 = DOMAIN F1
  <2> HIDE DEF F1
  <2> QED BY <1>4, ExceptIsSeq
<1>6. IsSeq(F3) /\ DOMAIN F3 = DOMAIN F2
  <2> HIDE DEF F2
  <2> QED BY <1>5, ExceptIsSeq
<1>7. F1[i] = f1 /\ F2[i] = f2 /\ F3[i] = f3 /\ \A j \in DOMAIN t.facts \ {i} : F3[j] = t.facts[j]
    BY <1>3
<1>8. DOMAIN F3[i] = FactFields /\ F3[i].conflict = 0 /\ \A f \in said : F3[i][f] = t.facts[i][f]
  <2>1. DOMAIN f1 = FactFields /\ \A f \in said : f1[f] = t.facts[i][f]
    BY <1>3 DEF FactFields
  <2> HIDE DEF f1, F1
  <2>2. DOMAIN f2 = FactFields /\ \A f \in said : f2[f] = t.facts[i][f]
    BY <1>7, <2>1 DEF FactFields
  <2> HIDE DEF f2, F2
  <2>3. DOMAIN f3 = FactFields /\ f3.conflict = 0 /\ \A f \in said : f3[f] = t.facts[i][f]
    BY <1>7, <2>2 DEF FactFields
  <2> HIDE DEF f3, F3
  <2> QED BY <1>7, <2>3
<1>9. DOMAIN u = DOMAIN t /\ \A f \in DOMAIN t : f # "facts" => u[f] = t[f]
    OBVIOUS
<1>10. u.facts = F3
    BY <1>3 DEF StateFields
<1> HIDE DEF u, F3
<1>11. Marked(t, u, i)
    BY <1>4, <1>5, <1>6, <1>7, <1>8, <1>9, <1>10 DEF Marked
<1>12. u.facts[i].conflict \in {0, t.facts[i].conflict}
    BY <1>8, <1>10
<1> QED BY <1>1, <1>2, <1>11, <1>12, MarkedWithin

\* What a fact is concluded from is in force, and below it, if all was at the beginning.
Founded(r, s, code, from) ==
    Stratified /\ Grounded(r) =>
        \A k \in from : k \in InForce(s) /\ LevelOf(s, k) < Level[code]

LEMMA AddWithin ==
    ASSUME NEW r, NEW s, Within(r, s), NEW fact, DOMAIN fact = FactFields,
           fact.code \in DOMAIN FactDef,
           FactDef[fact.code].scope = "GOAL" => fact.owner \in {0} \cup DOMAIN r.goals,
           Founded(r, s, fact.code, fact.from),
           NEW existing, existing \subseteq InForce(r),
           \A i \in existing : s.facts[i].code = fact.code, NEW mode
    PROVE  Within(r, AddFact(s, existing, FirstOf(existing), mode, fact))
<1> DEFINE first == FirstOf(existing)
           id == Len(s.facts) + 1
           alone == existing = {} \/ FactDef[fact.code].repeatable
           conflicts == ~alone /\ mode = "ASSERT" /\ s.facts[first].confidence = "CONFIRMED"
           why == IF fact.source = "USER_CORRECTION" THEN "USER_CORRECTION" ELSE "CHANGE_OF_MIND"
           disputed == [s EXCEPT !.facts[first].confidence = "CONFLICTING",
                                 !.facts[first].conflict = id]
           f1 == [s.facts[first] EXCEPT !.confidence = "CONFLICTING"]
           F1 == [s.facts EXCEPT ![first] = f1]
           f2 == [F1[first] EXCEPT !.conflict = id]
           F2 == [F1 EXCEPT ![first] = f2]
           gone == CASE alone -> {}
                     [] ~alone /\ mode = "ASSERT" -> {first}
                     [] OTHER -> existing
           because == IF mode = "SUPERSEDE" THEN why ELSE "SYSTEM_REPLACEMENT"
           kept == IF conflicts THEN InvalidateDependents(disputed, first)
                   ELSE SupersedeAll(s, gone, because, id)
           new == IF conflicts THEN [fact EXCEPT !.confidence = "CONFLICTING", !.conflict = first]
                  ELSE fact
           u == [kept EXCEPT !.facts = Append(@, new)]
           said == {"code", "value", "owner", "at", "from", "status"}
<1>1. AddFact(s, existing, first, mode, fact) = u
    BY DEF AddFact
<1>2. /\ IsSeq(s.facts) /\ Shaped(s) /\ DOMAIN r.facts \subseteq DOMAIN s.facts /\ Stand(r, s)
      /\ existing \subseteq DOMAIN s.facts
    BY DEF Within, Shaped, Steady, Firm, InForce
<1>3. existing # {} => first \in existing
  <2>1. Len(s.facts) \in Nat /\ existing \subseteq 1 .. Len(s.facts)
    BY <1>2, SeqIs
  <2> QED BY <2>1, SmallestIs DEF FirstOf
<1> HIDE DEF first
<1>4. gone \subseteq existing
    BY <1>3
<1>5. ASSUME existing # {}
      PROVE  Marked(s, disputed, first)
  <2>0. first \in DOMAIN s.facts /\ DOMAIN s.facts[first] = FactFields
    BY <1>2, <1>3, <1>5 DEF Shaped
  <2>1. IsSeq(F1) /\ DOMAIN F1 = DOMAIN s.facts
    BY <1>2, ExceptIsSeq
  <2>2. IsSeq(F2) /\ DOMAIN F2 = DOMAIN F1
    <3> HIDE DEF F1
    <3> QED BY <2>1, ExceptIsSeq
  <2>3. DOMAIN disputed = DOMAIN s /\ \A f \in DOMAIN s : f # "facts" => disputed[f] = s[f]
    OBVIOUS
  <2>4. disputed.facts = F2
    BY <1>2 DEF Shaped, StateFields
  <2>5. F1[first] = f1 /\ F2[first] = f2 /\ \A j \in DOMAIN s.facts \ {first} : F2[j] = s.facts[j]
    BY <2>0
  <2>6. DOMAIN f1 = FactFields /\ \A f \in said : f1[f] = s.facts[first][f]
    BY <2>0 DEF FactFields
  <2> HIDE DEF f1, F1
  <2>7. DOMAIN f2 = FactFields /\ \A f \in said : f2[f] = s.facts[first][f]
    BY <2>5, <2>6 DEF FactFields
  <2> HIDE DEF disputed, F2, f2
  <2> QED BY <2>1, <2>2, <2>3, <2>4, <2>5, <2>7 DEF Marked
<1> HIDE DEF disputed
<1>6. /\ Within(r, kept) /\ DOMAIN kept.facts = DOMAIN s.facts
      /\ \A i \in DOMAIN s.facts : kept.facts[i].code = s.facts[i].code
      /\ Stratified /\ Grounded(s) =>
            /\ Grounded(kept)
            /\ \A k \in InForce(s) \ existing :
                  LevelOf(s, k) <= Level[fact.code] => k \in InForce(kept)
  <2> HIDE DEF gone, because, id
  <2>1. CASE conflicts
    <3>1. existing # {} /\ first \in existing /\ first \in InForce(r)
      BY <1>3, <2>1
    <3>2. Marked(s, disputed, first)
      BY <1>5, <3>1
    <3>3. /\ Shaped(disputed) /\ Stand(r, disputed) /\ InForce(disputed) = InForce(s)
          /\ \A j \in DOMAIN s.facts : /\ disputed.facts[j].code = s.facts[j].code
                                      /\ disputed.facts[j].from = s.facts[j].from
                                      /\ disputed.facts[j].owner = s.facts[j].owner
      BY <1>2, <3>1, <3>2, MarkedIs
    <3>4. /\ DOMAIN disputed = DOMAIN s /\ \A f \in DOMAIN s : f # "facts" => disputed[f] = s[f]
          /\ DOMAIN disputed.facts = DOMAIN s.facts
          /\ \A j \in DOMAIN s.facts \ {first} : disputed.facts[j] = s.facts[j]
      BY <3>2 DEF Marked
    <3>5. InForce(disputed) \subseteq InForce(s) /\ InForce(s) \subseteq InForce(disputed) \cup {first}
      BY <3>3
    <3> DEFINE v == InvalidateDependents(disputed, first)
    <3>6. /\ Within(r, v) /\ DOMAIN v.facts = DOMAIN s.facts
          /\ \A j \in DOMAIN s.facts : v.facts[j].code = s.facts[j].code
          /\ Stratified /\ Grounded(s) =>
                /\ Grounded(v)
                /\ \A k \in InForce(s) \ {first} :
                       LevelOf(s, k) <= LevelOf(s, first) => k \in InForce(v)
      BY <3>1, <3>3, <3>4, <3>5, FallWithin
    <3>7. kept = v
      BY <2>1
    <3> HIDE DEF v, kept
    <3>8. LevelOf(s, first) = Level[fact.code]
      BY <3>1 DEF LevelOf
    <3> QED BY <3>1, <3>6, <3>7, <3>8
  <2>2. CASE ~conflicts
    <3> DEFINE v == SupersedeAll(s, gone, because, id)
    <3>1. /\ gone \subseteq InForce(r) /\ \A i \in gone : s.facts[i].code = fact.code
      BY <1>4
    <3> DEFINE code == fact.code
    <3>2. \A i \in gone : s.facts[i].code = code
      BY <3>1
    <3> HIDE DEF code
    <3>3. /\ Within(r, v) /\ DOMAIN v.facts = DOMAIN s.facts
          /\ \A i \in DOMAIN s.facts : v.facts[i].code = s.facts[i].code
          /\ Stratified /\ Grounded(s) =>
                /\ Grounded(v)
                /\ \A k \in InForce(s) \ gone : LevelOf(s, k) <= Level[code] => k \in InForce(v)
      BY <3>1, <3>2, SupersedeWithin
    <3>4. kept = v
      BY <2>2
    <3> HIDE DEF v, kept
    <3> QED BY <1>4, <3>3, <3>4 DEF code
  <2> QED BY <2>1, <2>2
<1>7. /\ DOMAIN new = FactFields /\ new.code = fact.code /\ new.from = fact.from
      /\ new.owner = fact.owner
    BY DEF FactFields
<1> HIDE DEF kept, new
<1>8. IsSeq(kept.facts) /\ DOMAIN kept = StateFields /\ Shaped(kept) /\ Stand(r, kept)
    BY <1>6 DEF Within, Shaped, Steady, Firm
<1>9. DOMAIN u = DOMAIN kept /\ \A f \in DOMAIN kept : f # "facts" => u[f] = kept[f]
    OBVIOUS
<1>10. u.facts = Append(kept.facts, new)
    BY <1>8 DEF StateFields
<1> HIDE DEF u
<1> DEFINE n == Len(kept.facts) + 1
<1>11. /\ IsSeq(u.facts) /\ DOMAIN u.facts = DOMAIN kept.facts \cup {n} /\ n \notin DOMAIN kept.facts
       /\ \A i \in DOMAIN kept.facts : u.facts[i] = kept.facts[i]
       /\ u.facts[n] = new
    BY <1>8, <1>10, AppendIs, SeqIs
<1> HIDE DEF n
<1>12. \A i \in DOMAIN u.facts : DOMAIN u.facts[i] = FactFields /\ u.facts[i].code \in DOMAIN FactDef
    BY <1>7, <1>8, <1>11 DEF Shaped
<1>13. Stand(r, u)
    BY <1>2, <1>6, <1>8, <1>11 DEF Stand
<1>14. ASSUME Stratified, Grounded(r)
       PROVE  Grounded(u)
  <2>0. Grounded(s) /\ Grounded(kept)
    BY <1>6, <1>14 DEF Within, Steady, Firm
  <2> SUFFICES ASSUME NEW j \in InForce(u), NEW k \in u.facts[j].from
               PROVE  k \in InForce(u) /\ LevelOf(u, k) < LevelOf(u, j)
    BY DEF Grounded
  <2>1. InForce(kept) \subseteq InForce(u) /\ \A i \in InForce(kept) : LevelOf(u, i) = LevelOf(kept, i)
    BY <1>11 DEF InForce, LevelOf
  <2>2. CASE j \in DOMAIN kept.facts
    <3>1. j \in InForce(kept) /\ k \in kept.facts[j].from
      BY <1>11, <2>2 DEF InForce
    <3>2. k \in InForce(kept) /\ LevelOf(kept, k) < LevelOf(kept, j)
      BY <2>0, <3>1 DEF Grounded
    <3> QED BY <2>1, <3>1, <3>2
  <2>3. CASE j = n
    <3>1. k \in fact.from /\ LevelOf(u, j) = Level[fact.code]
      BY <1>7, <1>11, <2>3 DEF LevelOf
    <3>2. k \in InForce(s) /\ LevelOf(s, k) < Level[fact.code] /\ k \in DOMAIN s.facts
      BY <1>14, <3>1 DEF Founded, InForce
    <3>3. LevelOf(s, k) \in Nat /\ Level[fact.code] \in Nat
      BY <1>2, <1>14, <3>2, LevelsAre, LevelIs DEF Levels
    <3>4. k \notin existing
      BY <3>2, <3>3 DEF LevelOf
    <3>5. k \in InForce(kept)
      BY <1>6, <1>14, <2>0, <3>2, <3>3, <3>4
    <3>6. LevelOf(u, k) = LevelOf(s, k)
      BY <1>6, <2>1, <3>2, <3>5 DEF LevelOf
    <3> QED BY <2>1, <3>1, <3>2, <3>5, <3>6
  <2> QED BY <1>11, <2>2, <2>3 DEF InForce
<1>15. Housed(r) => Housed(u)
  <2>1. Housed(r) => Housed(kept)
    BY <1>6 DEF Within, Steady, Firm
  <2>2. u.goals = kept.goals /\ DOMAIN r.goals \subseteq DOMAIN kept.goals
    BY <1>6, <1>8, <1>9 DEF Within, StateFields
  <2>3. FactDef[new.code].scope = "GOAL" => new.owner \in {0} \cup DOMAIN u.goals
    BY <1>7, <2>2
  <2>4. ASSUME Housed(kept), NEW i \in DOMAIN u.facts, FactDef[u.facts[i].code].scope = "GOAL"
        PROVE  u.facts[i].owner \in {0} \cup DOMAIN u.goals
    <3>1. CASE i = n
      BY <1>11, <2>3, <2>4, <3>1
    <3>2. CASE i \in DOMAIN kept.facts
      <4>1. u.facts[i] = kept.facts[i]
        BY <1>11, <3>2
      <4>2. FactDef[kept.facts[i].code].scope = "GOAL"
        BY <2>4, <4>1
      <4>3. kept.facts[i].owner \in {0} \cup DOMAIN kept.goals
        BY <2>4, <3>2, <4>2 DEF Housed
      <4> QED BY <2>2, <4>1, <4>3
    <3> QED BY <1>11, <3>1, <3>2
  <2> QED BY <2>1, <2>4 DEF Housed
<1>16. Falling(r, kept) => Falling(r, u)
  <2>1. \A k \in InForce(r) : k \in DOMAIN kept.facts /\ u.facts[k] = kept.facts[k]
    BY <1>2, <1>6, <1>11 DEF InForce
  <2> QED BY <1>11, <2>1 DEF Falling, Disturbed, InForce
<1>17. Within(r, u)
  <2>1. Shaped(u) /\ u.goals = kept.goals /\ u.seq = kept.seq /\ u.handoff = kept.handoff
    <3>1. \A f \in StateFields \ {"facts"} : u[f] = kept[f]
      BY <1>8, <1>9
    <3> QED BY <1>8, <1>9, <1>11, <1>12, <3>1 DEF Shaped, StateFields
  <2>2. Codes(u) = Codes(kept) /\ \A X : OwedBut(u, X) <=> OwedBut(kept, X)
    BY <2>1 DEF Codes, OwedBut, GoalsWith
  <2>3. Stratified /\ Grounded(r) /\ Housed(r) => Falling(r, u)
    BY <1>6, <1>16 DEF Within, Steady, Firm
  <2>4. Steady(r, u)
    BY <1>6, <1>13, <1>14, <1>15, <2>1, <2>2, <2>3 DEF Within, Steady, Firm, Owing
  <2> QED BY <1>6, <1>11, <2>1, <2>2, <2>4 DEF Within
<1> QED BY <1>1, <1>17 DEF first

LEMMA RecordWithin ==
    ASSUME NEW s, Shaped(s), NEW g \in {0} \cup DOMAIN s.goals, NEW in, NEW mode, NEW from,
           in.code \in DOMAIN FactDef => Founded(s, s, in.code, from)
    PROVE  Within(s, RecordFact(s, g, in, mode, from))
<1>1. ASSUME in.code \in DOMAIN FactDef,
             NEW existing, existing \subseteq InForce(s),
             \A i \in existing : s.facts[i].code = in.code,
             NEW same, same \in {0} \cup existing,
             NEW fact, DOMAIN fact = FactFields, fact.code = in.code, fact.from = from,
             FactDef[in.code].scope = "GOAL" => fact.owner \in {0} \cup DOMAIN s.goals
      PROVE  Within(s, RecordGiven(s, existing, same, in, mode, fact))
  <2> DEFINE I == {same} \ {0}
             code == in.code
             reason == "SYSTEM_REPLACEMENT"
             none == 0
             t == SupersedeAll(s, I, reason, none)
  <2>1. /\ Within(s, t) /\ \A i \in DOMAIN s.facts : t.facts[i].code = s.facts[i].code
        /\ Stratified /\ Grounded(s) =>
              /\ Grounded(t)
              /\ \A k \in InForce(s) \ I : LevelOf(s, k) <= Level[code] => k \in InForce(t)
    <3>1. I \subseteq InForce(s) /\ \A i \in I : s.facts[i].code = code
      BY <1>1
    <3>2. Within(s, s)
      BY WithinSelf
    <3> HIDE DEF I, code, reason, none
    <3> QED BY ONLY <3>1, <3>2, SupersedeWithin
  <2>2. t = SupersedeAll(s, {same} \ {0}, "SYSTEM_REPLACEMENT", 0)
    OBVIOUS
  <2> HIDE DEF t
  <2>3. \A i \in existing : t.facts[i].code = fact.code
    BY <1>1, <2>1 DEF InForce
  <2>4. Founded(s, t, fact.code, fact.from)
    <3> SUFFICES ASSUME Stratified, Grounded(s), NEW k \in from
                 PROVE  k \in InForce(t) /\ LevelOf(t, k) < Level[code]
      BY <1>1 DEF Founded
    <3>1. k \in InForce(s) /\ k \in DOMAIN s.facts /\ LevelOf(s, k) < Level[code]
      BY <1>1 DEF Founded, InForce
    <3>2. LevelOf(s, k) \in Nat /\ Level[code] \in Nat
      BY <1>1, <3>1, LevelsAre, LevelIs DEF Levels
    <3>3. k \notin I
      BY <1>1, <3>1, <3>2 DEF LevelOf
    <3>4. LevelOf(t, k) = LevelOf(s, k)
      BY <2>1, <3>1 DEF LevelOf
    <3> QED BY <2>1, <3>1, <3>2, <3>3, <3>4
  <2> HIDE DEF code
  <2>5. Within(s, AddFact(t, existing, FirstOf(existing), mode, fact))
    BY <1>1, <2>1, <2>3, <2>4, AddWithin
  <2>6. same # 0 => Within(s, ConfirmFact(s, same, existing, mode, in, fact.confidence))
    <3>1. \A j \in existing : s.facts[j].code = code
      BY <1>1 DEF code
    <3> QED BY <1>1, <3>1, ConfirmWithin
  <2> QED BY <2>2, <2>5, <2>6, WithinSelf DEF RecordGiven
<1>2. ASSUME in.code \in DOMAIN FactDef,
             NEW existing, existing \subseteq InForce(s),
             \A i \in existing : s.facts[i].code = in.code
      PROVE  Within(s, RecordAmong(s, existing, g, in, mode, from))
  <2> DEFINE alike == {i \in existing : s.facts[i].value = in.value}
             doubtful == Authoritative(in.code, in.value) /\ in.source # "DERIVED_RULE"
                         /\ ~in.authoritative
             fact == [code |-> in.code, owner |-> ScopeOwner(s, in.code, g),
                      value |-> in.value, source |-> in.source,
                      confidence |-> IF doubtful THEN "UNCERTAIN" ELSE in.confidence,
                      status |-> "ACTIVE", authoritative |-> in.authoritative, conflict |-> 0,
                      from |-> from, why |-> "none", by |-> 0, at |-> s.seq, supAt |-> 0]
             same == FirstOf(alike)
  <2>1. same \in {0} \cup existing
    <3>1. Len(s.facts) \in Nat /\ alike \subseteq 1 .. Len(s.facts) /\ alike \subseteq existing
      BY <1>2, SeqIs DEF Shaped, InForce
    <3> HIDE DEF alike
    <3>2. alike \subseteq Nat
      BY <3>1
    <3> QED BY <3>1, <3>2, SmallestIs DEF FirstOf
  <2>2. /\ DOMAIN fact = FactFields /\ fact.code = in.code /\ fact.from = from
        /\ fact.owner = ScopeOwner(s, in.code, g)
    BY DEF FactFields
  <2>3. RecordAmong(s, existing, g, in, mode, from) = RecordGiven(s, existing, same, in, mode, fact)
    BY Zenon DEF RecordAmong
  <2> HIDE DEF same, fact
  <2>4. FactDef[in.code].scope = "GOAL" => fact.owner \in {0} \cup DOMAIN s.goals
    BY <2>2 DEF ScopeOwner
  <2> QED BY <1>1, <1>2, <2>1, <2>2, <2>3, <2>4
<1>3. /\ ActiveFacts(s, in.code, g) \subseteq InForce(s)
      /\ \A i \in ActiveFacts(s, in.code, g) : s.facts[i].code = in.code
    BY DEF ActiveFacts, InForce
<1>4. ASSUME in.code \in DOMAIN FactDef
      PROVE  Within(s, RecordAmong(s, ActiveFacts(s, in.code, g), g, in, mode, from))
  <2> DEFINE existing == ActiveFacts(s, in.code, g)
  <2>1. existing \subseteq InForce(s) /\ \A i \in existing : s.facts[i].code = in.code
    BY <1>3
  <2> HIDE DEF existing
  <2>2. Within(s, RecordAmong(s, existing, g, in, mode, from))
    BY <1>2, <1>4, <2>1
  <2> QED BY <2>2 DEF existing
<1> QED BY <1>4, ErrorWithin DEF RecordFact

LEMMA SaidWithin ==
    ASSUME NEW s, Shaped(s), NEW g \in {0} \cup DOMAIN s.goals, NEW in, NEW mode
    PROVE  Within(s, RecordFact(s, g, in, mode, {}))
<1> DEFINE from == {}
<1>1. Founded(s, s, in.code, from)
    BY DEF Founded
<1> HIDE DEF from
<1>2. Within(s, RecordFact(s, g, in, mode, from))
    BY <1>1, RecordWithin
<1> QED BY <1>2 DEF from

-----------------------------------------------------------------------------
(* Goals.                                                                  *)

LEMMA NearIs ==
    /\ \A s, t : Within(s, t) <=> Near(s, t) /\ Owing(s, t)
    /\ \A s, t, u : Near(s, t) /\ Near(t, u) => Near(s, u)
<1>1. \A s, t : Within(s, t) <=> Near(s, t) /\ Owing(s, t)
    BY DEF Within, Near, Steady
<1>2. ASSUME NEW s, NEW t, NEW u, Near(s, t), Near(t, u)
      PROVE  Near(s, u)
  <2>1. Firm(s, u)
    BY <1>2, FirmTrans DEF Near
  <2> QED BY <1>2, <2>1 DEF Near
<1> QED BY <1>1, <1>2

\* Goals, cases and pending actions may be other ones.
LEMMA GoalsKept ==
    ASSUME NEW s, Shaped(s), NEW t, DOMAIN t = DOMAIN s,
           \A f \in {"seq", "facts", "parked", "handoff"} : t[f] = s[f],
           IsSeq(t.goals), DOMAIN s.goals \subseteq DOMAIN t.goals,
           \A g \in DOMAIN t.goals : /\ DOMAIN t.goals[g] = GoalFields
                                     /\ t.goals[g].parent \in {0} \cup DOMAIN t.goals,
           \A g \in DOMAIN s.goals : /\ t.goals[g].parent = s.goals[g].parent
                                     /\ t.goals[g].returns = s.goals[g].returns
                                     /\ t.goals[g].case = s.goals[g].case,
           \A a \in t.actions : a.goal \in DOMAIN t.goals
    PROVE  /\ Owing(s, t) => Kept(s, t)
           /\ Codes(t) \subseteq Codes(s) \cup DOMAIN GoalDef => Near(s, t)
<1>1. InForce(t) = InForce(s) /\ Stand(s, t)
    BY DEF InForce, Stand
<1>2. Grounded(s) => Grounded(t)
    BY <1>1 DEF Grounded, LevelOf
<1>3. Falling(s, t) /\ (Housed(s) => Housed(t))
  <2>1. t.facts = s.facts
    OBVIOUS
  <2> QED BY <2>1 DEF Falling, Disturbed, InForce, Housed
<1>4. Firm(s, t)
    BY <1>1, <1>2, <1>3 DEF Firm
<1>5. Shaped(t)
    BY DEF Shaped, StateFields
<1> QED BY <1>4, <1>5 DEF Kept, Near, Steady

LEMMA SetGoalIs ==
    ASSUME NEW s, Shaped(s), NEW g, NEW status, NEW reason
    PROVE  LET t == SetGoal(s, g, status, reason) IN
           /\ DOMAIN t = DOMAIN s /\ \A f \in DOMAIN s : f # "goals" => t[f] = s[f]
           /\ IsSeq(t.goals) /\ DOMAIN t.goals = DOMAIN s.goals
           /\ \A o \in DOMAIN s.goals : o # g => t.goals[o] = s.goals[o]
           /\ g \in DOMAIN s.goals =>
                 /\ DOMAIN t.goals[g] = GoalFields
                 /\ \A f \in GoalFields \ {"status", "reason", "closed"} :
                       t.goals[g][f] = s.goals[g][f]
                 /\ t.goals[g].status = status /\ t.goals[g].reason = reason
<1> DEFINE v == IF status \in OpenStatuses THEN 0 ELSE s.seq
           h1 == [s.goals[g] EXCEPT !.status = status]
           G1 == [s.goals EXCEPT ![g] = h1]
           h2 == [G1[g] EXCEPT !.reason = reason]
           G2 == [G1 EXCEPT ![g] = h2]
           h3 == [G2[g] EXCEPT !.closed = v]
           G3 == [G2 EXCEPT ![g] = h3]
           t == SetGoal(s, g, status, reason)
<1>1. DOMAIN t = DOMAIN s /\ \A f \in DOMAIN s : f # "goals" => t[f] = s[f]
    BY DEF SetGoal
<1>2. t.goals = G3
    BY DEF SetGoal, Shaped, StateFields
<1>3. IsSeq(s.goals)
    BY DEF Shaped
<1>4. g \in DOMAIN s.goals => DOMAIN s.goals[g] = GoalFields
    BY DEF Shaped
<1>5. IsSeq(G1) /\ DOMAIN G1 = DOMAIN s.goals
    BY <1>3, ExceptIsSeq
<1>6. IsSeq(G2) /\ DOMAIN G2 = DOMAIN s.goals
  <2> HIDE DEF G1
  <2> QED BY <1>5, ExceptIsSeq
<1>7. IsSeq(G3) /\ DOMAIN G3 = DOMAIN s.goals
  <2> HIDE DEF G2
  <2> QED BY <1>6, ExceptIsSeq
<1>8. \A o \in DOMAIN s.goals : o # g => G3[o] = s.goals[o]
    OBVIOUS
<1>9. ASSUME g \in DOMAIN s.goals
      PROVE  /\ DOMAIN G3[g] = GoalFields
             /\ \A f \in GoalFields \ {"status", "reason", "closed"} :
                   G3[g][f] = s.goals[g][f]
             /\ G3[g].status = status /\ G3[g].reason = reason
  <2>1. G1[g] = h1 /\ G2[g] = h2 /\ G3[g] = h3
      BY <1>9
  <2>2. /\ DOMAIN h1 = GoalFields /\ h1.status = status
        /\ \A f \in GoalFields \ {"status"} : h1[f] = s.goals[g][f]
      BY <1>4, <1>9 DEF GoalFields
  <2> HIDE DEF h1
  <2>3. /\ DOMAIN h2 = GoalFields /\ h2.reason = reason
        /\ \A f \in GoalFields \ {"reason"} : h2[f] = h1[f]
      BY <2>1, <2>2 DEF GoalFields
  <2> HIDE DEF h2
  <2>4. /\ DOMAIN h3 = GoalFields
        /\ \A f \in GoalFields \ {"closed"} : h3[f] = h2[f]
      BY <2>1, <2>3 DEF GoalFields
  <2> HIDE DEF h3, G3
  <2> QED BY <2>1, <2>2, <2>3, <2>4 DEF GoalFields
<1> HIDE DEF t, G3
<1> QED BY <1>1, <1>2, <1>7, <1>8, <1>9 DEF t

\* A goal that goes on is owed nothing; one that closes may leave its parent unowed.
LEMMA SetGoalWithin ==
    ASSUME NEW s, Shaped(s), NEW g, NEW status, NEW reason
    PROVE  LET t == SetGoal(s, g, status, reason) IN
           /\ Near(s, t)
           /\ (SubflowsReturn => status \in {"ACTIVE", "WAITING"}) => Within(s, t)
           /\ OwingBut(s, t, IF status \in OpenStatuses THEN g ELSE s.goals[g].parent)
           /\ status \notin OpenStatuses /\ ~s.goals[g].returns => Owing(s, t)
<1> DEFINE t == SetGoal(s, g, status, reason)
<1>1. /\ DOMAIN t = DOMAIN s /\ \A f \in DOMAIN s : f # "goals" => t[f] = s[f]
      /\ IsSeq(t.goals) /\ DOMAIN t.goals = DOMAIN s.goals
      /\ \A o \in DOMAIN s.goals : o # g => t.goals[o] = s.goals[o]
      /\ g \in DOMAIN s.goals =>
            /\ DOMAIN t.goals[g] = GoalFields
            /\ t.goals[g].parent = s.goals[g].parent
            /\ t.goals[g].returns = s.goals[g].returns
            /\ t.goals[g].case = s.goals[g].case
            /\ t.goals[g].code = s.goals[g].code
            /\ t.goals[g].status = status
    BY SetGoalIs DEF GoalFields
<1> HIDE DEF t
<1>2. \A f \in {"seq", "facts", "parked", "handoff", "actions"} : t[f] = s[f]
    BY <1>1 DEF Shaped, StateFields
<1>3. \A o \in DOMAIN t.goals : /\ DOMAIN t.goals[o] = GoalFields
                                /\ t.goals[o].parent = s.goals[o].parent
                                /\ t.goals[o].returns = s.goals[o].returns
                                /\ t.goals[o].case = s.goals[o].case
                                /\ t.goals[o].parent \in {0} \cup DOMAIN t.goals
    BY <1>1 DEF Shaped
<1>4. \A a \in t.actions : a.goal \in DOMAIN t.goals
    BY <1>1, <1>2 DEF Shaped
<1>5. Codes(t) \subseteq Codes(s)
    BY <1>1 DEF Codes
<1>6. Near(s, t)
    BY <1>1, <1>2, <1>3, <1>4, <1>5, GoalsKept
<1>7. ASSUME NEW X, OwedBut(s, X), NEW Y, X \subseteq Y,
             status \notin {"ACTIVE", "WAITING"} =>
                 IF status \in OpenStatuses THEN g \in Y
                 ELSE s.goals[g].returns => s.goals[g].parent \in Y
      PROVE  OwedBut(t, Y)
  <2> SUFFICES ASSUME NEW h \in GoalsWith(t, {"SUSPENDED"}) \ Y,
                      t.goals[h].reason.why # "BLOCKED_BY_ABANDONED_SUBFLOW"
               PROVE  \E o \in GoalsWith(t, OpenStatuses) :
                         t.goals[o].parent = h /\ t.goals[o].returns
    BY DEF OwedBut
  <2>1. h # g /\ h \in DOMAIN s.goals
    BY <1>1, <1>7 DEF GoalsWith, OpenStatuses
  <2>2. h \in GoalsWith(s, {"SUSPENDED"}) \ X /\ s.goals[h] = t.goals[h]
    BY <1>1, <1>7, <2>1 DEF GoalsWith
  <2>3. PICK o \in GoalsWith(s, OpenStatuses) : s.goals[o].parent = h /\ s.goals[o].returns
    BY <1>7, <2>2 DEF OwedBut
  <2>4. o \in DOMAIN t.goals /\ t.goals[o].parent = h /\ t.goals[o].returns
    BY <1>1, <1>3, <2>3 DEF GoalsWith
  <2>5. o # g => t.goals[o] = s.goals[o]
    BY <1>1, <2>4
  <2>6. o = g => t.goals[o].status \in OpenStatuses
    BY <1>1, <1>7, <2>3, <2>4 DEF OpenStatuses
  <2>7. o \in GoalsWith(t, OpenStatuses)
    BY <2>3, <2>4, <2>5, <2>6 DEF GoalsWith
  <2> QED BY <2>4, <2>7
<1>8. (SubflowsReturn => status \in {"ACTIVE", "WAITING"}) => Owing(s, t)
    BY <1>7 DEF Owing
<1>9. OwingBut(s, t, IF status \in OpenStatuses THEN g ELSE s.goals[g].parent)
    BY <1>7 DEF OwingBut
<1>10. status \notin OpenStatuses /\ ~s.goals[g].returns => Owing(s, t)
    BY <1>7 DEF Owing
<1> QED BY <1>6, <1>8, <1>9, <1>10, NearIs DEF t

\* When a subflow closes, the goal it was opened for goes on.
LEMMA ResumedWithin ==
    ASSUME NEW s, Shaped(s), NEW g \in DOMAIN s.goals, NEW u, Near(s, u),
           OwingBut(s, u, s.goals[g].parent), ~s.goals[g].returns => Owing(s, u)
    PROVE  Within(s, ResumeParent(u, g))
<1> DEFINE p == s.goals[g].parent
           v == SetGoal(u, p, "ACTIVE", NoReason)
<1>1. Shaped(u) /\ u.goals[g].parent = p /\ (u.goals[g].returns <=> s.goals[g].returns)
    BY DEF Near, Firm
<1>2. 0 \notin DOMAIN u.goals /\ p \in {0} \cup DOMAIN u.goals
  <2>1. p \in {0} \cup DOMAIN s.goals
    BY DEF Shaped
  <2> QED BY <1>1, <2>1, SeqIs DEF Shaped, Near
<1>3. CASE p # 0 /\ s.goals[g].returns /\ u.goals[p].status = "SUSPENDED"
  <2>1. ResumeParent(u, g) = v
    BY <1>1, <1>3 DEF ResumeParent
  <2>2. Within(u, v)
    BY <1>1, SetGoalWithin
  <2>3. v.goals[p].status = "ACTIVE"
    BY <1>1, <1>2, <1>3, SetGoalIs
  <2> HIDE DEF v, p
  <2>4. \A X : OwedBut(v, X \cup {p}) => OwedBut(v, X)
    BY <2>3 DEF OwedBut, GoalsWith
  <2>5. ASSUME SubflowsReturn, NEW X, OwedBut(s, X)
        PROVE  OwedBut(v, X)
    <3>1. OwedBut(u, X \cup {p})
      BY <2>5 DEF OwingBut, p
    <3>2. OwedBut(v, X \cup {p})
      BY <2>2, <2>5, <3>1, NearIs DEF Owing
    <3> QED BY <2>4, <3>2
  <2>6. Owing(s, v)
    BY <2>5 DEF Owing
  <2> QED BY <2>1, <2>2, <2>6, NearIs
<1>4. CASE ~(p # 0 /\ s.goals[g].returns /\ u.goals[p].status = "SUSPENDED")
  <2>1. ResumeParent(u, g) = u
    BY <1>1, <1>4 DEF ResumeParent
  <2> HIDE DEF p
  <2>2. p = 0 \/ u.goals[p].status # "SUSPENDED" => \A X : OwedBut(u, X \cup {p}) => OwedBut(u, X)
    BY <1>2 DEF OwedBut, GoalsWith
  <2>3. Owing(s, u)
    BY <1>4, <2>2 DEF Owing, OwingBut, p
  <2> QED BY <2>1, <2>3, NearIs
<1> QED BY <1>3, <1>4

LEMMA PushInWithin ==
    ASSUME NEW s, Shaped(s), NEW code, NEW opts, opts.parent \in {0} \cup DOMAIN s.goals,
           SubflowsReturn /\ opts.suspend => opts.returns, NEW ref, NEW case
    PROVE  /\ Kept(s, PushIn(s, code, opts, ref, case))
           /\ code \in DOMAIN GoalDef => Within(s, PushIn(s, code, opts, ref, case))
           /\ DOMAIN PushIn(s, code, opts, ref, case).goals = 1 .. (Len(s.goals) + 1)
<1> DEFINE goal == [code |-> code, case |-> case, status |-> "ACTIVE",
                    reason |-> NoReason, parent |-> opts.parent,
                    overlay |-> opts.overlay, returns |-> opts.returns,
                    relation |-> opts.relation, opened |-> s.seq, closed |-> 0]
           p == opts.parent
           h1 == [s.goals[p] EXCEPT !.status = "SUSPENDED"]
           G1 == [s.goals EXCEPT ![p] = h1]
           h2 == [G1[p] EXCEPT !.reason = Because("SUBFLOW", code)]
           G2 == [G1 EXCEPT ![p] = h2]
           left == IF opts.parent = 0 \/ ~opts.suspend THEN s
                   ELSE [s EXCEPT !.goals[opts.parent].status = "SUSPENDED",
                                  !.goals[opts.parent].reason = Because("SUBFLOW", code)]
           G == IF opts.parent = 0 \/ ~opts.suspend THEN s.goals ELSE G2
           t == PushIn(s, code, opts, ref, case)
<1>1. /\ DOMAIN left = DOMAIN s
      /\ \A f \in DOMAIN s : f # "goals" => left[f] = s[f]
    OBVIOUS
<1>2. left.goals = G
    BY DEF Shaped, StateFields
<1>3. IsSeq(s.goals)
    BY DEF Shaped
<1>4. IsSeq(G1) /\ DOMAIN G1 = DOMAIN s.goals
    BY <1>3, ExceptIsSeq
<1>5. IsSeq(G2) /\ DOMAIN G2 = DOMAIN s.goals
  <2> HIDE DEF G1
  <2> QED BY <1>4, ExceptIsSeq
<1>6. \A o \in DOMAIN s.goals : o # p => G[o] = s.goals[o]
    OBVIOUS
<1>7. p \in DOMAIN s.goals => /\ DOMAIN G[p] = DOMAIN s.goals[p]
                              /\ G[p].parent = s.goals[p].parent
                              /\ G[p].returns = s.goals[p].returns
                              /\ G[p].case = s.goals[p].case
                              /\ G[p].code = s.goals[p].code
                              /\ G[p].status \in {"SUSPENDED", s.goals[p].status}
                              /\ ~opts.suspend => G[p] = s.goals[p]
    BY DEF Shaped, GoalFields
<1>8. IsSeq(G) /\ DOMAIN G = DOMAIN s.goals
    BY <1>3, <1>5
<1>9. t = [left EXCEPT
            !.cases = IF case <= Len(@) THEN @
                      ELSE Append(@, [kind |-> GoalDef[code].case, ref |-> ref]),
            !.goals = Append(@, goal)]
    BY DEF PushIn
<1>10. /\ DOMAIN goal = GoalFields /\ goal.parent = p /\ goal.code = code
       /\ goal.status = "ACTIVE" /\ goal.returns = opts.returns
    BY DEF GoalFields
<1> HIDE DEF left, goal, G
<1>11. /\ DOMAIN t = DOMAIN s
       /\ \A f \in {"seq", "facts", "parked", "handoff", "actions"} : t[f] = s[f]
    BY <1>1, <1>9 DEF Shaped, StateFields
<1>12. t.goals = Append(G, goal)
    BY <1>1, <1>2, <1>9 DEF Shaped, StateFields
<1> HIDE DEF t, p
<1>13. /\ IsSeq(t.goals) /\ DOMAIN t.goals = 1 .. (Len(G) + 1)
       /\ \A o \in DOMAIN G : t.goals[o] = G[o]
       /\ t.goals[Len(G) + 1] = goal
    BY <1>8, <1>12, AppendIs
<1>14. Len(G) = Len(s.goals) /\ Len(G) \in Nat /\ DOMAIN G = 1 .. Len(G)
    BY <1>3, <1>8, SeqIs
<1>15. DOMAIN s.goals \subseteq DOMAIN t.goals
    BY <1>8, <1>13, <1>14
<1>16. ASSUME NEW o \in DOMAIN t.goals
       PROVE  /\ DOMAIN t.goals[o] = GoalFields
              /\ t.goals[o].parent \in {0} \cup DOMAIN t.goals
              /\ t.goals[o].code \in Codes(s) \cup {code}
  <2>1. CASE o = Len(G) + 1
    BY <1>10, <1>13, <1>15, <2>1 DEF p
  <2>2. CASE o \in DOMAIN G
    <3>1. t.goals[o] = G[o] /\ o \in DOMAIN s.goals
      BY <1>8, <1>13, <2>2
    <3>2. /\ DOMAIN G[o] = DOMAIN s.goals[o] /\ G[o].parent = s.goals[o].parent
          /\ G[o].code = s.goals[o].code
      BY <1>6, <1>7, <3>1
    <3> QED BY <1>15, <3>1, <3>2 DEF Shaped, Codes
  <2> QED BY <1>13, <1>14, <2>1, <2>2
<1>17. \A o \in DOMAIN s.goals : /\ t.goals[o] = G[o] /\ G[o].parent = s.goals[o].parent
                               /\ G[o].returns = s.goals[o].returns
                               /\ G[o].case = s.goals[o].case
                               /\ G[o].status \in {"SUSPENDED", s.goals[o].status}
    BY <1>6, <1>7, <1>8, <1>13
<1>18. Owing(s, t)
  <2> SUFFICES ASSUME SubflowsReturn, NEW X, OwedBut(s, X),
                      NEW h \in GoalsWith(t, {"SUSPENDED"}) \ X,
                      t.goals[h].reason.why # "BLOCKED_BY_ABANDONED_SUBFLOW"
               PROVE  \E o \in GoalsWith(t, OpenStatuses) :
                         t.goals[o].parent = h /\ t.goals[o].returns
    BY DEF Owing, OwedBut
  <2>1. h \in DOMAIN s.goals /\ h \in DOMAIN t.goals
    BY <1>8, <1>10, <1>13, <1>14 DEF GoalsWith
  <2>2. CASE h = p /\ opts.suspend
    <3>1. Len(G) + 1 \in GoalsWith(t, OpenStatuses)
      BY <1>10, <1>13, <1>14 DEF GoalsWith, OpenStatuses
    <3> QED BY <1>10, <1>13, <2>2, <3>1
  <2>3. CASE ~(h = p /\ opts.suspend)
    <3>1. t.goals[h] = s.goals[h]
      BY <1>6, <1>7, <1>17, <2>1, <2>3
    <3>2. PICK o \in GoalsWith(s, OpenStatuses) : s.goals[o].parent = h /\ s.goals[o].returns
      BY <2>1, <3>1 DEF OwedBut, GoalsWith
    <3>3. o \in GoalsWith(t, OpenStatuses) /\ t.goals[o].parent = h /\ t.goals[o].returns
      BY <1>15, <1>17, <3>2 DEF GoalsWith, OpenStatuses
    <3> QED BY <3>3
  <2> QED BY <2>2, <2>3
<1>19. \A a \in t.actions : a.goal \in DOMAIN t.goals
    BY <1>11, <1>15 DEF Shaped
<1>20. Kept(s, t) /\ (code \in DOMAIN GoalDef => Within(s, t))
  <2>1. Codes(t) \subseteq Codes(s) \cup {code}
    BY <1>16 DEF Codes
  <2>2. \A o \in DOMAIN s.goals : /\ t.goals[o].parent = s.goals[o].parent
                                  /\ t.goals[o].returns = s.goals[o].returns
                                  /\ t.goals[o].case = s.goals[o].case
    BY <1>17
  <2> QED BY <1>11, <1>13, <1>15, <1>16, <1>19, <1>18, <2>1, <2>2, GoalsKept, NearIs
<1> QED BY <1>13, <1>14, <1>20 DEF t

LEMMA PushWithin ==
    ASSUME NEW s, Shaped(s), NEW code, NEW opts, opts.parent \in {0} \cup DOMAIN s.goals,
           SubflowsReturn /\ opts.suspend => opts.returns
    PROVE  /\ Kept(s, PushGoal(s, code, opts))
           /\ code \in DOMAIN GoalDef => Within(s, PushGoal(s, code, opts))
           /\ DOMAIN PushGoal(s, code, opts).goals = 1 .. (Len(s.goals) + 1)
BY PushInWithin DEF PushGoal

\* What the catalogue promises of an effect: what a conclusion is drawn from is below it,
\* a goal left aside is returned to, and a rule only makes a goal go on.
Effect(e) ==
    /\ e.op \in EffectOps
    /\ e.op = "push_goal" => e.goal \in DOMAIN GoalDef
    /\ Stratified /\ e.op = "assert_derived_fact" =>
          \A d \in e.from : d \in DOMAIN FactDef /\ Level[d] < Level[e.fact]
    /\ SubflowsReturn => /\ e.op = "push_goal" /\ e.suspend => e.returns
                         /\ e.op = "set_goal_status" => e.status \in {"ACTIVE", "WAITING"}

LEMMA AssertWithin ==
    ASSUME NEW s, Shaped(s), NEW g \in {0} \cup DOMAIN s.goals, NEW e, Effect(e),
           e.op = "assert_derived_fact"
    PROVE  Within(s, AssertDerived(s, g, e))
<1> DEFINE in == [code |-> e.fact, value |-> e.value, source |-> "DERIVED_RULE",
                  confidence |-> "CONFIRMED", authoritative |-> FALSE]
           from == {ActiveFact(s, c, g) : c \in e.from} \ {0}
           t == RecordFact(s, g, in, "DERIVE", from)
<1>1. AssertDerived(s, g, e) = s \/ AssertDerived(s, g, e) = Changed(t)
    BY DEF AssertDerived
<1>2. in.code = e.fact
    OBVIOUS
<1>3. ASSUME NEW k \in from
      PROVE  k \in InForce(s) /\ \E c \in e.from : s.facts[k].code = c
  <2>1. PICK c \in e.from : k = ActiveFact(s, c, g)
    OBVIOUS
  <2> DEFINE F == ActiveFacts(s, c, g)
  <2>2. F # {} /\ k = Min(F)
    BY <2>1 DEF ActiveFact, FirstOf
  <2>3. F \subseteq DOMAIN s.facts
    BY DEF ActiveFacts
  <2>4. k \in F
    <3> HIDE DEF F
    <3> QED BY <2>2, <2>3, SeqIs, SmallestIs DEF Shaped
  <2> QED BY <2>4 DEF ActiveFacts, InForce
<1> HIDE DEF in, from
<1>4. Founded(s, s, in.code, from)
  <2> SUFFICES ASSUME Stratified, NEW k \in from
               PROVE  k \in InForce(s) /\ LevelOf(s, k) < Level[in.code]
    BY DEF Founded
  <2> QED BY <1>2, <1>3 DEF Effect, LevelOf
<1>5. Within(s, t)
    BY <1>4, RecordWithin
<1>6. Within(t, Changed(t))
    BY <1>5, ErrorWithin DEF Within
<1> QED BY <1>1, <1>5, <1>6, WithinSelf, WithinTrans

LEMMA OpenSubflowWithin ==
    ASSUME NEW s, Shaped(s), NEW g \in DOMAIN s.goals, NEW e, Effect(e), e.op = "push_goal",
           NEW relation
    PROVE  Within(s, OpenSubflow(s, g, e, relation))
<1> DEFINE opts == [NoOpts EXCEPT !.parent = g, !.suspend = e.suspend,
                                  !.returns = e.returns, !.relation = relation,
                                  !.case = s.goals[g].case]
           t == PushGoal(s, e.goal, opts)
<1>1. OpenSubflow(s, g, e, relation) = s \/ OpenSubflow(s, g, e, relation) = Changed(t)
    BY DEF OpenSubflow
<1>2. opts.parent = g /\ opts.suspend = e.suspend /\ opts.returns = e.returns
    BY DEF NoOpts
<1> HIDE DEF opts
<1>3. Within(s, t)
    BY <1>2, PushWithin DEF Effect
<1>4. Within(t, Changed(t))
    BY <1>3, ErrorWithin DEF Within
<1> QED BY <1>1, <1>3, <1>4, WithinSelf, WithinTrans

LEMMA ClosingIs ==
    ASSUME NEW env
    PROVE  SatisfyDependency(env.s, env.g, env.e)
             = IF OpenSubflows(env.s, env.g, env.e.goal) = {} THEN env.s
               ELSE Changed(Closing!Along(env, env.s, [o \in DOMAIN env.s.goals |-> o]))
BY Zenon DEF SatisfyDependency, Closing!Along, ClosingOp, FoldLeft, Max, Closing!Greatest,
             MapThenFoldSet, Closing!MapThenFoldSet

LEMMA SatisfyWithin ==
    ASSUME NEW s, Shaped(s), NEW g, NEW e
    PROVE  Within(s, SatisfyDependency(s, g, e))
<1> DEFINE env == [s |-> s, g |-> g, e |-> e]
           seq == [o \in DOMAIN s.goals |-> o]
           n == Len(s.goals)
           u == Closing!Along(env, s, seq)
<1>1. env.s = s /\ env.g = g /\ env.e = e
    OBVIOUS
<1> HIDE DEF env
<1>2. SatisfyDependency(s, g, e) \in {s, Changed(u)}
  <2>1. SatisfyDependency(env.s, env.g, env.e)
          \in {env.s, Changed(Closing!Along(env, env.s, [o \in DOMAIN env.s.goals |-> o]))}
    BY ClosingIs
  <2> QED BY <1>1, <2>1
<1>3. n \in Nat /\ DOMAIN seq = 1 .. n
    BY SeqIs DEF Shaped
<1> HIDE DEF seq, n
<1>4. WithinOf(env, 0, s)
    BY <1>1, WithinSelf DEF WithinOf
<1>5. ASSUME NEW k, NEW l, NEW o, NEW t, WithinOf(env, k, t)
      PROVE  WithinOf(env, l, ClosingOp(env, t, o))
  <2> DEFINE closed == "ABANDONED"
             reason == Because(env.e.reason, "none")
             v == SetGoal(t, o, closed, reason)
  <2>1. Within(env.s, t) /\ Shaped(t)
    BY <1>5 DEF WithinOf, Within
  <2>2. CASE o \in OpenSubflows(env.s, env.g, env.e.goal)
    <3>1. o \in DOMAIN t.goals
      BY <2>1, <2>2 DEF OpenSubflows, Within
    <3>2. closed \notin OpenStatuses
      BY DEF OpenStatuses
    <3> HIDE DEF closed, reason
    <3>3. /\ Near(t, v) /\ OwingBut(t, v, t.goals[o].parent)
          /\ ~t.goals[o].returns => Owing(t, v)
      BY <2>1, <3>2, SetGoalWithin
    <3>4. Within(t, ResumeParent(v, o))
      BY <2>1, <3>1, <3>3, ResumedWithin
    <3>5. ClosingOp(env, t, o) = ResumeParent(v, o)
      BY <2>2 DEF ClosingOp, closed, reason
    <3> QED BY <2>1, <3>4, <3>5, WithinTrans DEF WithinOf
  <2>3. CASE o \notin OpenSubflows(env.s, env.g, env.e.goal)
    BY <2>1, <2>3 DEF ClosingOp, WithinOf
  <2> QED BY <2>2, <2>3
<1>6. \A k \in 1 .. n : \A t :
         WithinOf(env, k - 1, t) => WithinOf(env, k, ClosingOp(env, t, seq[k]))
    BY <1>5
<1>7. WithinOf(env, n, u)
    BY <1>3, <1>4, <1>6, Counting, Closing!FoldLeftRule DEF Closing!Inductive
<1> HIDE DEF u
<1>8. Within(s, u) /\ Within(u, Changed(u))
    BY <1>1, <1>7, ErrorWithin DEF WithinOf, Within
<1> QED BY <1>2, <1>8, WithinSelf, WithinTrans

LEMMA SetStatusWithin ==
    ASSUME NEW s, Shaped(s), NEW g, NEW e, Effect(e), e.op = "set_goal_status"
    PROVE  Within(s, SetStatus(s, g, e))
<1> DEFINE t == SetGoal(s, g, e.status, Because(e.reason, "none"))
<1>1. Within(s, t)
    BY SetGoalWithin DEF Effect
<1>2. Within(t, Changed(t))
    BY <1>1, ErrorWithin DEF Within
<1> QED BY <1>1, <1>2, WithinSelf, WithinTrans DEF SetStatus

LEMMA RequireWithin ==
    ASSUME NEW s, Shaped(s), NEW g \in DOMAIN s.goals, NEW e
    PROVE  Within(s, RequireAction(s, g, e))
<1> DEFINE t == [s EXCEPT !.actions =
                    @ \cup {[action |-> e.action, goal |-> g, asked |-> s.seq]}]
<1>1. DOMAIN t = DOMAIN s /\ \A f \in DOMAIN s : f # "actions" => t[f] = s[f]
    OBVIOUS
<1>2. \A a \in t.actions : a.goal \in DOMAIN s.goals
    BY DEF Shaped, StateFields
<1>3. RequireAction(s, g, e) = s \/ RequireAction(s, g, e) = Changed(t)
    BY DEF RequireAction
<1> HIDE DEF t
<1>4. Within(s, t)
  <2>1. Codes(t) = Codes(s)
    BY <1>1 DEF Codes, Shaped, StateFields
  <2>2. /\ t.goals = s.goals /\ t.facts = s.facts /\ t.actions = t.actions
        /\ \A f \in {"seq", "facts", "parked", "handoff"} : t[f] = s[f]
    BY <1>1 DEF Shaped, StateFields
  <2>3. Near(s, t)
    BY <1>1, <1>2, <2>1, <2>2, GoalsKept DEF Shaped
  <2> QED BY <2>2, <2>3, NearIs, SameSteady DEF Steady
<1>5. Within(t, Changed(t))
    BY <1>4, ErrorWithin DEF Within
<1> QED BY <1>3, <1>4, <1>5, WithinSelf, WithinTrans


-----------------------------------------------------------------------------
(* The relations of the catalogue.                                         *)

EffectList(q) == IsSeq(q) /\ \A k \in DOMAIN q : Effect(q[k])

LEMMA RelationsAre ==
    /\ IsSeq(Relations)
    /\ \A k \in DOMAIN Relations : /\ EffectList(Relations[k].effects)
                                   /\ EffectList(Relations[k].onChild)
<1>1. /\ Relations \in Seq(ToSet(Relations))
      /\ \A r \in ToSet(Relations) : \A q \in {r.effects, r.onChild} :
            /\ q \in Seq(ToSet(q))
            /\ \A e \in ToSet(q) : /\ e.op \in EffectOps
                                   /\ e.op = "push_goal" => "goal" \in DOMAIN e
    BY CatalogAssumption DEF CatalogIsShaped
<1>2. \A q : \A k \in DOMAIN q : q[k] \in ToSet(q)
    BY DEF ToSet
<1>3. \A q : \A e \in ToSet(q) : \E k \in DOMAIN q : e = q[k]
    BY DEF ToSet
<1>4. ASSUME NEW r \in ToSet(Relations), NEW e \in ToSet(r.effects) \cup ToSet(r.onChild),
             "goal" \in DOMAIN e
      PROVE  e.goal \in DOMAIN GoalDef
  <2>1. \A x \in ToSet(r.effects \o r.onChild) :
            "goal" \in DOMAIN x => x.goal \in DOMAIN GoalDef
    BY CatalogAssumption DEF CatalogIsValid
  <2>2. r.effects \in Seq(ToSet(r.effects)) /\ r.onChild \in Seq(ToSet(r.onChild))
    BY <1>1
  <2>3. e \in ToSet(r.effects \o r.onChild)
    <3> DEFINE p == r.effects
               q == r.onChild
               S == ToSet(p)
               T == ToSet(q)
    <3>1. p \in Seq(S) /\ q \in Seq(T)
      BY <2>2
    <3> HIDE DEF p, q, S, T
    <3>2. /\ \A k \in DOMAIN p : k \in DOMAIN (p \o q) /\ (p \o q)[k] = p[k]
          /\ \A k \in DOMAIN q : /\ Len(p) + k \in DOMAIN (p \o q)
                                 /\ (p \o q)[Len(p) + k] = q[k]
      BY <3>1
    <3>3. PICK k : (k \in DOMAIN p /\ e = p[k]) \/ (k \in DOMAIN q /\ e = q[k])
      BY <1>3 DEF p, q
    <3>4. \E m \in DOMAIN (p \o q) : e = (p \o q)[m]
      BY <3>2, <3>3
    <3> QED BY <1>2, <3>4 DEF p, q
  <2> QED BY <1>4, <2>1, <2>3
<1>5. ASSUME NEW k \in DOMAIN Relations, NEW q \in {Relations[k].effects, Relations[k].onChild}
      PROVE  EffectList(q)
  <2>0. Relations[k] \in ToSet(Relations)
    BY <1>2
  <2> DEFINE Good(p) == /\ p \in Seq(ToSet(p))
                        /\ \A e \in ToSet(p) : /\ e.op \in EffectOps
                                               /\ e.op = "push_goal" => "goal" \in DOMAIN e
  <2>a. \A r \in ToSet(Relations) : Good(r.effects) /\ Good(r.onChild)
    BY <1>1, Zenon
  <2>b. Good(q)
    <3> HIDE DEF Good
    <3> QED BY <2>0, <2>a
  <2>1. q \in Seq(ToSet(q))
    BY <2>b
  <2>c. \A e \in ToSet(q) : e.op \in EffectOps /\ (e.op = "push_goal" => "goal" \in DOMAIN e)
    BY <2>b
  <2>2. \A e \in ToSet(q) : "goal" \in DOMAIN e => e.goal \in DOMAIN GoalDef
    <3>1. \A e \in ToSet(q) : e \in ToSet(Relations[k].effects) \cup ToSet(Relations[k].onChild)
      BY <1>5
    <3> QED BY <1>4, <2>0, <3>1
  <2> HIDE DEF Good
  <2>3. \A i \in DOMAIN q : q[i] \in ToSet(q)
    BY <1>2
  <2>4. \A e \in ToSet(q) : e \in EffectsOf(Relations[k])
    BY <1>5 DEF EffectsOf
  <2>5. ASSUME Stratified, NEW e \in ToSet(q), e.op = "assert_derived_fact"
        PROVE  \A d \in e.from : d \in DOMAIN FactDef /\ Level[d] < Level[e.fact]
    BY <2>0, <2>4, <2>5, LevelIs DEF Layered
  <2>6. ASSUME SubflowsReturn, NEW e \in ToSet(q)
        PROVE  /\ e.op = "push_goal" /\ e.suspend => e.returns
               /\ e.op = "set_goal_status" => e.status \in {"ACTIVE", "WAITING"}
    BY <2>0, <2>4, <2>6 DEF SubflowsReturn
  <2> QED BY <2>1, <2>c, <2>2, <2>3, <2>5, <2>6 DEF EffectList, Effect, IsSeq
<1> QED BY <1>1, <1>5 DEF IsSeq

LEMMA ApplyIs ==
    ASSUME NEW env, NEW s, NEW effects
    PROVE  ApplyEffects(s, env.g, effects, env.relation) = Applying!Along(env, s, effects)
BY Zenon DEF ApplyEffects, Applying!Along, ApplyingOp, FoldLeft, Max, Applying!Greatest,
             MapThenFoldSet, Applying!MapThenFoldSet

LEMMA ApplyWithin ==
    ASSUME NEW s, Shaped(s), NEW g \in DOMAIN s.goals, NEW effects, EffectList(effects),
           NEW relation
    PROVE  Within(s, ApplyEffects(s, g, effects, relation))
<1> DEFINE env == [s |-> s, g |-> g, relation |-> relation]
<1>1. env.s = s /\ env.g = g /\ env.relation = relation
    OBVIOUS
<1> HIDE DEF env
<1>2. WithinOf(env, 0, s)
    BY <1>1, WithinSelf DEF WithinOf
<1>3. ASSUME NEW k, NEW l, NEW t, WithinOf(env, k, t), NEW e, Effect(e)
      PROVE  WithinOf(env, l, ApplyingOp(env, t, e))
  <2>1. Within(env.s, t) /\ Shaped(t) /\ env.g \in DOMAIN t.goals
    BY <1>1, <1>3 DEF WithinOf, Within
  <2>2. /\ e.op = "assert_derived_fact" => Within(t, AssertDerived(t, env.g, e))
        /\ e.op = "push_goal" => Within(t, OpenSubflow(t, env.g, e, env.relation))
    BY <1>3, <2>1, AssertWithin, OpenSubflowWithin
  <2>3. /\ Within(t, SatisfyDependency(t, env.g, e))
        /\ e.op = "set_goal_status" => Within(t, SetStatus(t, env.g, e))
    BY <1>3, <2>1, SatisfyWithin, SetStatusWithin
  <2>4. Within(t, RequireAction(t, env.g, e)) /\ Within(t, t)
    BY <2>1, RequireWithin, WithinSelf
  <2>5. Within(t, ApplyingOp(env, t, e))
    BY <1>3, <2>2, <2>3, <2>4 DEF ApplyingOp, Effect, EffectOps
  <2> QED BY <2>1, <2>5, WithinTrans DEF WithinOf
<1>4. Len(effects) \in Nat /\ DOMAIN effects = 1 .. Len(effects)
    BY SeqIs DEF EffectList
<1>5. \A k \in 1 .. Len(effects) : \A t :
         WithinOf(env, k - 1, t) => WithinOf(env, k, ApplyingOp(env, t, effects[k]))
    BY <1>3, <1>4 DEF EffectList
<1>6. WithinOf(env, Len(effects), Applying!Along(env, s, effects))
    BY <1>2, <1>4, <1>5, Counting, Applying!FoldLeftRule DEF Applying!Inductive
<1>7. ApplyEffects(s, env.g, effects, env.relation) = Applying!Along(env, s, effects)
    BY ApplyIs
<1> QED BY <1>1, <1>6, <1>7 DEF WithinOf

LEMMA ChildIs ==
    ASSUME NEW env
    PROVE  ResolveGoal(env.s, env.g) =
             ResumeParent(Resolving!Along(env,
                Changed(SetGoal(env.s, env.g, "RESOLVED", env.s.goals[env.g].reason)), Relations),
                env.g)
BY Zenon DEF ResolveGoal, Resolving!Along, ResolvingOp, FoldLeft, Max, Resolving!Greatest,
             MapThenFoldSet, Resolving!MapThenFoldSet

LEMMA ResolveWithin ==
    ASSUME NEW s, Shaped(s), NEW g \in DOMAIN s.goals
    PROVE  Within(s, ResolveGoal(s, g))
<1> DEFINE closed == "RESOLVED"
           reason == s.goals[g].reason
           v == SetGoal(s, g, closed, reason)
           t0 == Changed(v)
           env == [s |-> s, g |-> g, t |-> t0]
           h == s.goals[g]
           u == Resolving!Along(env, t0, Relations)
<1>1. env.s = s /\ env.g = g /\ env.t = t0
    OBVIOUS
<1> HIDE DEF env
<1>2. ResolveGoal(s, g) = ResumeParent(u, g)
  <2>1. ResolveGoal(env.s, env.g) =
           ResumeParent(Resolving!Along(env,
              Changed(SetGoal(env.s, env.g, "RESOLVED", env.s.goals[env.g].reason)), Relations),
              env.g)
    BY ChildIs
  <2> QED BY <1>1, <2>1
<1>3. Near(s, v) /\ OwingBut(s, v, h.parent) /\ (~h.returns => Owing(s, v))
  <2>1. closed \notin OpenStatuses
    BY DEF OpenStatuses
  <2> HIDE DEF closed, reason
  <2> QED BY <2>1, SetGoalWithin
<1> HIDE DEF v
<1>4. Shaped(t0) /\ Within(v, t0)
    BY <1>3, ErrorWithin DEF Near, Within
<1> HIDE DEF t0
<1>5. ClosedOf(env, 0, t0)
    BY <1>1, <1>4, WithinSelf DEF ClosedOf
<1>6. ASSUME NEW k \in DOMAIN Relations, NEW t, ClosedOf(env, k - 1, t)
      PROVE  ClosedOf(env, k, ResolvingOp(env, t, Relations[k]))
  <2>1. Within(t0, t) /\ Shaped(t) /\ DOMAIN s.goals \subseteq DOMAIN t.goals
    BY <1>1, <1>3, <1>4, <1>6 DEF ClosedOf, Near, Within
  <2>2. CASE h.parent # 0 /\ Relations[k].name = h.relation
    <3>1. h.parent \in DOMAIN t.goals
      BY <2>1, <2>2 DEF Shaped
    <3>2. Within(t, ApplyEffects(t, h.parent, Relations[k].onChild, h.relation))
      BY <2>1, <3>1, RelationsAre, ApplyWithin
    <3> QED BY <1>1, <2>1, <2>2, <3>2, WithinTrans DEF ClosedOf, ResolvingOp
  <2>3. CASE ~(h.parent # 0 /\ Relations[k].name = h.relation)
    BY <1>1, <2>1, <2>3 DEF ClosedOf, ResolvingOp
  <2> QED BY <2>2, <2>3
<1>7. Len(Relations) \in Nat /\ DOMAIN Relations = 1 .. Len(Relations)
    BY RelationsAre, SeqIs
<1>8. ClosedOf(env, Len(Relations), u)
    BY <1>5, <1>6, <1>7, Counting, Resolving!FoldLeftRule DEF Resolving!Inductive
<1> HIDE DEF u
<1>9. Within(v, u)
    BY <1>1, <1>4, <1>8, WithinTrans DEF ClosedOf
<1>10. Near(s, u)
    BY <1>3, <1>9, NearIs
<1>11. OwingBut(s, u, h.parent)
  <2>1. Owing(v, u)
    BY <1>9, NearIs
  <2> QED BY <1>3, <2>1 DEF Owing, OwingBut
<1>12. ~h.returns => Owing(s, u)
  <2>1. Owing(v, u)
    BY <1>9, NearIs
  <2> QED BY <1>3, <2>1 DEF Owing
<1> QED BY <1>2, <1>10, <1>11, <1>12, ResumedWithin

LEMMA CompletingIs ==
    ASSUME NEW env, NEW s
    PROVE  ResolveCompletedGoals(s) = Completing!Along(env, s, Reverse([g \in DOMAIN s.goals |-> g]))
BY Zenon DEF ResolveCompletedGoals, Completing!Along, CompletingOp, FoldLeft, Max, Completing!Greatest,
             MapThenFoldSet, Completing!MapThenFoldSet

\* The goals of a state, in order and in reverse order.
LEMMA GoalOrder ==
    ASSUME NEW s, Shaped(s)
    PROVE  LET n == Len(s.goals)
               up == [g \in DOMAIN s.goals |-> g]
               down == Reverse(up)
           IN /\ n \in Nat /\ DOMAIN s.goals = 1 .. n
              /\ DOMAIN up = 1 .. n /\ \A k \in 1 .. n : up[k] = k
              /\ DOMAIN down = 1 .. n /\ \A k \in 1 .. n : down[k] \in 1 .. n
<1> DEFINE n == Len(s.goals)
           up == [g \in DOMAIN s.goals |-> g]
           down == Reverse(up)
<1>1. n \in Nat /\ DOMAIN s.goals = 1 .. n
    BY SeqIs DEF Shaped
<1> HIDE DEF n
<1>2. up = [g \in 1 .. n |-> g]
    BY <1>1
<1>3. DOMAIN up = 1 .. n /\ \A k \in 1 .. n : up[k] = k
    BY <1>2
<1>4. Len(up) = n
    BY <1>1, <1>2
<1>5. down = [i \in 1 .. n |-> up[(n - i) + 1]]
    BY <1>4 DEF Reverse
<1>6. ASSUME NEW k \in 1 .. n
      PROVE  down[k] \in 1 .. n
  <2>1. (n - k) + 1 \in 1 .. n
      BY <1>1
  <2>2. down[k] = up[(n - k) + 1]
      BY <1>5
  <2> HIDE DEF up
  <2> QED BY <1>3, <2>1, <2>2
<1>7. DOMAIN down = 1 .. n
  <2> HIDE DEF up
  <2> QED BY <1>5
<1> HIDE DEF up, down
<1> QED BY <1>1, <1>3, <1>6, <1>7 DEF n, up, down

LEMMA CompletedWithin ==
    ASSUME NEW s, Shaped(s)
    PROVE  Within(s, ResolveCompletedGoals(s))
<1> DEFINE env == [s |-> s]
           seq == Reverse([g \in DOMAIN s.goals |-> g])
<1>1. env.s = s
    OBVIOUS
<1> HIDE DEF env
<1>2. /\ Len(s.goals) \in Nat /\ DOMAIN s.goals = 1 .. Len(s.goals)
      /\ DOMAIN seq = 1 .. Len(s.goals)
      /\ \A k \in 1 .. Len(s.goals) : seq[k] \in DOMAIN s.goals
    BY GoalOrder
<1>3. ResolveCompletedGoals(s) = Completing!Along(env, s, seq)
    BY CompletingIs
<1> HIDE DEF seq
<1>4. WithinOf(env, 0, s)
    BY <1>1, WithinSelf DEF WithinOf
<1>5. ASSUME NEW k, NEW l, NEW t, WithinOf(env, k, t), NEW g \in DOMAIN s.goals
      PROVE  WithinOf(env, l, CompletingOp(env, t, g))
  <2>1. Within(env.s, t) /\ Shaped(t) /\ g \in DOMAIN t.goals
    BY <1>1, <1>5 DEF WithinOf, Within
  <2>2. Within(t, ResolveGoal(t, g))
    BY <2>1, ResolveWithin
  <2> QED BY <2>1, <2>2, WithinTrans DEF WithinOf, CompletingOp
<1>6. \A k \in 1 .. Len(s.goals) : \A t :
         WithinOf(env, k - 1, t) => WithinOf(env, k, CompletingOp(env, t, seq[k]))
    BY <1>2, <1>5
<1>7. WithinOf(env, Len(s.goals), Completing!Along(env, s, seq))
    BY <1>2, <1>4, <1>6, Counting, Completing!FoldLeftRule DEF Completing!Inductive
<1> QED BY <1>1, <1>3, <1>7 DEF WithinOf

LEMMA RelatingIs ==
    ASSUME NEW env
    PROVE  ApplyRelation(env.s, env.r) =
             Relating!Along(env, env.s, [g \in DOMAIN env.s.goals |-> g])
BY Zenon DEF ApplyRelation, Relating!Along, RelatingOp, FoldLeft, Max, Relating!Greatest,
             MapThenFoldSet, Relating!MapThenFoldSet

LEMMA RelationWithin ==
    ASSUME NEW s, Shaped(s), NEW r, EffectList(r.effects)
    PROVE  Within(s, ApplyRelation(s, r))
<1> DEFINE env == [s |-> s, r |-> r]
           seq == [g \in DOMAIN s.goals |-> g]
<1>1. env.s = s /\ env.r = r
    OBVIOUS
<1> HIDE DEF env
<1>2. /\ Len(s.goals) \in Nat /\ DOMAIN s.goals = 1 .. Len(s.goals)
      /\ DOMAIN seq = 1 .. Len(s.goals)
      /\ \A k \in 1 .. Len(s.goals) : seq[k] \in DOMAIN s.goals
    BY GoalOrder
<1>3. ApplyRelation(s, r) = Relating!Along(env, s, seq)
  <2>1. ApplyRelation(env.s, env.r) =
             Relating!Along(env, env.s, [g \in DOMAIN env.s.goals |-> g])
    BY RelatingIs
  <2> QED BY <1>1, <2>1
<1> HIDE DEF seq
<1>4. WithinOf(env, 0, s)
    BY <1>1, WithinSelf DEF WithinOf
<1>5. ASSUME NEW k, NEW l, NEW t, WithinOf(env, k, t), NEW g \in DOMAIN s.goals
      PROVE  WithinOf(env, l, RelatingOp(env, t, g))
  <2>1. Within(env.s, t) /\ Shaped(t) /\ g \in DOMAIN t.goals
    BY <1>1, <1>5 DEF WithinOf, Within
  <2>2. Within(t, ApplyEffects(t, g, env.r.effects, env.r.name))
    BY <1>1, <2>1, ApplyWithin
  <2> QED BY <2>1, <2>2, WithinTrans DEF WithinOf, RelatingOp
<1>6. \A k \in 1 .. Len(s.goals) : \A t :
         WithinOf(env, k - 1, t) => WithinOf(env, k, RelatingOp(env, t, seq[k]))
    BY <1>2, <1>5
<1>7. WithinOf(env, Len(s.goals), Relating!Along(env, s, seq))
    BY <1>2, <1>4, <1>6, Counting, Relating!FoldLeftRule DEF Relating!Inductive
<1> QED BY <1>1, <1>3, <1>7 DEF WithinOf

LEMMA PassingIs ==
    ASSUME NEW env, NEW s
    PROVE  EvaluateOnce(s) =
             Passing!Along(env, [s EXCEPT !.changed = FALSE],
                           [n \in 1 .. Len(Relations) + 1 |-> n])
BY Zenon DEF EvaluateOnce, Passing!Along, PassingOp, FoldLeft, Max, Passing!Greatest,
             MapThenFoldSet, Passing!MapThenFoldSet

LEMMA OnceWithin ==
    ASSUME NEW s, Shaped(s)
    PROVE  Within(s, EvaluateOnce(s))
<1> DEFINE env == [s |-> s]
           t0 == [s EXCEPT !.changed = FALSE]
           m == Len(Relations) + 1
           seq == [n \in 1 .. Len(Relations) + 1 |-> n]
<1>1. env.s = s
    OBVIOUS
<1> HIDE DEF env
<1>2. m \in Nat /\ DOMAIN Relations = 1 .. m - 1 /\ Len(Relations) = m - 1
    BY RelationsAre, SeqIs
<1>3. DOMAIN seq = 1 .. m /\ \A k \in 1 .. m : seq[k] = k
    BY <1>2
<1>4. EvaluateOnce(s) = Passing!Along(env, t0, seq)
    BY PassingIs
<1> HIDE DEF seq, m
<1>5. Within(s, t0)
  <2>1. DOMAIN t0 = DOMAIN s /\ \A f \in DOMAIN s \ {"changed"} : t0[f] = s[f]
    OBVIOUS
  <2> HIDE DEF t0
  <2>2. Steady(s, t0)
    BY <2>1, SameSteady DEF Shaped, StateFields
  <2> QED BY <2>1, <2>2 DEF Within, Shaped, StateFields, Codes
<1> HIDE DEF t0
<1>6. WithinOf(env, 0, t0)
    BY <1>1, <1>5 DEF WithinOf
<1>7. ASSUME NEW k \in 1 .. m, NEW t, WithinOf(env, k - 1, t)
      PROVE  WithinOf(env, k, PassingOp(env, t, k))
  <2>1. Within(env.s, t) /\ Shaped(t)
    BY <1>1, <1>7 DEF WithinOf, Within
  <2>2. CASE k > Len(Relations)
    <3>1. Within(t, ResolveCompletedGoals(t))
      BY <2>1, CompletedWithin
    <3> QED BY <2>1, <2>2, <3>1, WithinTrans DEF WithinOf, PassingOp
  <2>3. CASE ~(k > Len(Relations))
    <3>1. k \in DOMAIN Relations
      BY <1>2, <2>3
    <3>2. Within(t, ApplyRelation(t, Relations[k]))
      BY <2>1, <3>1, RelationsAre, RelationWithin
    <3> QED BY <2>1, <2>3, <3>2, WithinTrans DEF WithinOf, PassingOp
  <2> QED BY <2>2, <2>3
<1>8. \A k \in 1 .. m : \A t :
         WithinOf(env, k - 1, t) => WithinOf(env, k, PassingOp(env, t, seq[k]))
    BY <1>3, <1>7
<1>9. WithinOf(env, m, Passing!Along(env, t0, seq))
    BY <1>2, <1>3, <1>6, <1>8, Counting, Passing!FoldLeftRule DEF Passing!Inductive
<1> QED BY <1>1, <1>4, <1>9 DEF WithinOf

LEMMA IteratingIs ==
    ASSUME NEW env, NEW s
    PROVE  EvaluateRelations(s) =
             Stopped(Iterating!Along(env, Changed(s), [n \in 1 .. Rounds |-> n]),
                     "RELATIONS_DIVERGE")
BY Zenon DEF EvaluateRelations, Iterating!Along, IteratingOp, FoldLeft, Max, Iterating!Greatest,
             MapThenFoldSet, Iterating!MapThenFoldSet

LEMMA RelationsWithin ==
    ASSUME NEW s, Shaped(s)
    PROVE  Within(s, EvaluateRelations(s))
<1> DEFINE env == [s |-> s]
           t0 == Changed(s)
           seq == [n \in 1 .. Rounds |-> n]
           u == Iterating!Along(env, t0, seq)
<1>1. env.s = s
    OBVIOUS
<1> HIDE DEF env
<1>2. Rounds \in Nat
    BY DEF Rounds
<1>3. DOMAIN seq = 1 .. Rounds
    BY <1>2
<1>4. EvaluateRelations(s) = Stopped(u, "RELATIONS_DIVERGE")
    BY IteratingIs
<1> HIDE DEF seq
<1>5. Within(s, t0)
    BY ErrorWithin
<1> HIDE DEF t0
<1>6. WithinOf(env, 0, t0)
    BY <1>1, <1>5 DEF WithinOf
<1>7. ASSUME NEW k, NEW l, NEW x, NEW t, WithinOf(env, k, t)
      PROVE  WithinOf(env, l, IteratingOp(env, t, x))
  <2>1. Within(env.s, t) /\ Within(t, EvaluateOnce(t))
    BY <1>1, <1>7, OnceWithin DEF WithinOf, Within
  <2> QED BY <2>1, WithinTrans DEF WithinOf, IteratingOp
<1>8. \A k \in 1 .. Rounds : \A t :
         WithinOf(env, k - 1, t) => WithinOf(env, k, IteratingOp(env, t, seq[k]))
    BY <1>7
<1>9. WithinOf(env, Rounds, u)
    BY <1>2, <1>3, <1>6, <1>8, Counting, Iterating!FoldLeftRule DEF Iterating!Inductive
<1> HIDE DEF u
<1>10. Within(s, u)
    BY <1>1, <1>9 DEF WithinOf
<1>11. Within(u, Stopped(u, "RELATIONS_DIVERGE"))
    BY <1>10, ErrorWithin DEF Within
<1> QED BY <1>4, <1>10, <1>11, WithinTrans
-----------------------------------------------------------------------------
(* Questions: nothing but the question and the parked ones moves.          *)

Calm(s, t) == Shaped(t) /\ \A f \in StateFields \ {"question", "parked"} : t[f] = s[f]

LEMMA CalmWithin ==
    ASSUME NEW s, Shaped(s)
    PROVE  /\ Calm(s, s)
           /\ \A t : Calm(s, t) => Within(s, t) /\ \A u : Calm(t, u) => Calm(s, u)
<1>1. Calm(s, s) /\ \A t, u : Calm(s, t) /\ Calm(t, u) => Calm(s, u)
    BY DEF Calm, Shaped
<1>2. ASSUME NEW t, Calm(s, t)
      PROVE  Within(s, t)
  <2>1. /\ t.goals = s.goals /\ t.facts = s.facts /\ t.seq = s.seq /\ t.handoff = s.handoff
        /\ Shaped(t)
    BY <1>2 DEF Calm, StateFields
  <2>2. Steady(s, t)
    BY <2>1, SameSteady
  <2> QED BY <2>1, <2>2 DEF Within, Codes
<1> QED BY <1>1, <1>2

LEMMA AmongIs ==
    ASSUME NEW q, IsSeq(q), NEW S
    PROVE  LET r == Among(q, S) IN
           IsSeq(r) /\ \A i \in DOMAIN r : r[i] \in S /\ \E k \in DOMAIN q : r[i] = q[k]
<1> DEFINE env == [q |-> q, S |-> S]
<1>1. env.q = q /\ env.S = S
    OBVIOUS
<1> HIDE DEF env
<1>2. ASSUME NEW e, NEW p
      PROVE  Among(p, e.S) = Sifting!Along(e, <<>>, p)
    BY Zenon DEF Among, Sifting!Along, SiftingOp, FoldLeft, Max, Sifting!Greatest,
                 MapThenFoldSet, Sifting!MapThenFoldSet
<1>3. Among(q, env.S) = Sifting!Along(env, <<>>, q)
    BY <1>2
<1>4. SiftedOf(env, 0, <<>>)
  <2>1. <<>> \in Seq({}) /\ DOMAIN <<>> = {}
    OBVIOUS
  <2> QED BY <2>1 DEF SiftedOf, IsSeq
<1>5. ASSUME NEW k, NEW l, NEW j \in DOMAIN q, NEW out, SiftedOf(env, k, out)
      PROVE  SiftedOf(env, l, SiftingOp(env, out, q[j]))
  <2>1. CASE q[j] \in env.S
    <3>1. /\ IsSeq(Append(out, q[j])) /\ DOMAIN Append(out, q[j]) = 1 .. (Len(out) + 1)
          /\ \A i \in DOMAIN out : Append(out, q[j])[i] = out[i]
          /\ Append(out, q[j])[Len(out) + 1] = q[j]
      BY <1>5, AppendIs DEF SiftedOf
    <3>2. Len(out) \in Nat /\ DOMAIN out = 1 .. Len(out)
      BY <1>5, SeqIs DEF SiftedOf
    <3>3. ASSUME NEW i \in DOMAIN Append(out, q[j])
          PROVE  Append(out, q[j])[i] \in env.S /\ \E m \in DOMAIN env.q : Append(out, q[j])[i] = env.q[m]
      <4>1. i = Len(out) + 1 \/ i \in DOMAIN out
        BY <3>1, <3>2
      <4> QED BY <1>1, <1>5, <2>1, <3>1, <4>1 DEF SiftedOf
    <3> QED BY <2>1, <3>1, <3>3 DEF SiftedOf, SiftingOp
  <2>2. CASE q[j] \notin env.S
    BY <1>5, <2>2 DEF SiftedOf, SiftingOp
  <2> QED BY <2>1, <2>2
<1>6. Len(q) \in Nat /\ DOMAIN q = 1 .. Len(q)
    BY SeqIs
<1>7. \A k \in 1 .. Len(q) : \A t :
         SiftedOf(env, k - 1, t) => SiftedOf(env, k, SiftingOp(env, t, q[k]))
    BY <1>5, <1>6
<1>8. SiftedOf(env, Len(q), Sifting!Along(env, <<>>, q))
    BY <1>4, <1>6, <1>7, Counting, Sifting!FoldLeftRule DEF Sifting!Inductive
<1> QED BY <1>1, <1>3, <1>8 DEF SiftedOf

LEMMA ParkCalm ==
    ASSUME NEW s, Shaped(s)
    PROVE  Calm(s, Park(s))
<1> DEFINE t == Park(s)
<1>1. /\ DOMAIN t = StateFields
      /\ \A f \in StateFields \ {"question", "parked"} : t[f] = s[f]
      /\ t.parked = Append(s.parked, s.question)
    BY DEF Park, Shaped, StateFields
<1>2. IsSeq(t.parked)
    BY <1>1, AppendIs DEF Shaped
<1> HIDE DEF t
<1>3. Calm(s, t)
    BY <1>1, <1>2 DEF Calm, Shaped, StateFields
<1> QED BY <1>3 DEF t

\* Another question, whatever it is.
LEMMA QuestionCalm ==
    ASSUME NEW s, Shaped(s), NEW q
    PROVE  Calm(s, [s EXCEPT !.question = q])
BY DEF Calm, Shaped, StateFields

LEMMA KeepCalm ==
    ASSUME NEW s, Shaped(s), NEW focus
    PROVE  Calm(s, KeepQuestion(s, focus))
BY ParkCalm, QuestionCalm, CalmWithin DEF KeepQuestion

LEMMA TakeCalm ==
    ASSUME NEW s, Shaped(s), NEW candidate
    PROVE  Calm(s, TakeQuestion(s, candidate))
<1>1. Calm(s, Park(s))
    BY ParkCalm
<1>2. Calm(Park(s), [Park(s) EXCEPT !.question = candidate])
    BY <1>1, QuestionCalm DEF Calm
<1> QED BY <1>1, <1>2, CalmWithin DEF TakeQuestion

LEMMA ResumeCalm ==
    ASSUME NEW s, Shaped(s), NEW ofFocus, NEW newest, NEW focus
    PROVE  Calm(s, ResumeQuestion(s, ofFocus, newest, focus))
<1> DEFINE kept == {i \in DOMAIN s.parked : i \notin ofFocus \/ i < newest}
           rest == Among([i \in DOMAIN s.parked |-> i], kept)
           P == [i \in DOMAIN rest |-> s.parked[rest[i]]]
           q == IF newest = 0 THEN NextBestQuestion(s, focus) ELSE s.parked[newest]
           t == [s EXCEPT !.parked = P, !.question = q]
<1>1. ResumeQuestion(s, ofFocus, newest, focus) = t
    BY DEF ResumeQuestion
<1>2. IsSeq([i \in DOMAIN s.parked |-> i])
    BY MapIsSeq DEF Shaped
<1>3. IsSeq(rest)
    BY <1>2, AmongIs
<1> HIDE DEF rest
<1>4. IsSeq(P)
    BY <1>3, MapIsSeq
<1> HIDE DEF P, q
<1>5. Calm(s, t)
    BY <1>4 DEF Calm, Shaped, StateFields
<1> QED BY <1>1, <1>5

LEMMA RefreshCalm ==
    ASSUME NEW s, Shaped(s)
    PROVE  Calm(s, RefreshPendingQuestion(s))
<1> DEFINE focus == ContextGoal(s)
           t == KeepQuestion(s, focus)
           u == TakeQuestion(t, NextBestQuestion(t, focus))
           v == AfterTaking(u, focus)
<1>1. Calm(s, t)
    BY KeepCalm
<1>2. Calm(t, u)
    BY <1>1, TakeCalm DEF Calm
<1>3. Calm(u, v)
  <2>1. Shaped(u)
    BY <1>2 DEF Calm
  <2> HIDE DEF u, focus
  <2> QED BY <2>1, ResumeCalm, CalmWithin DEF AfterTaking, RestoreQuestion
<1>4. RefreshPendingQuestion(s) = v
    BY DEF RefreshPendingQuestion, RefreshFor, AfterKeeping
<1> HIDE DEF t, u, v, focus
<1>5. Calm(s, u)
    BY <1>1, <1>2, CalmWithin
<1> QED BY <1>3, <1>4, <1>5, CalmWithin

-----------------------------------------------------------------------------
(* Gaps and the settling of a turn.                                        *)

LEMMA ParkStaleCalm ==
    ASSUME NEW s, Shaped(s), NEW g
    PROVE  Calm(s, ParkStale(s, g))
BY ParkCalm, CalmWithin DEF ParkStale

\* Some pending actions go, and one of a goal that exists may come.
LEMMA ActionsWithin ==
    ASSUME NEW s, Shaped(s), NEW A, \A a \in A : a.goal \in DOMAIN s.goals
    PROVE  LET t == [s EXCEPT !.actions = A] IN
           /\ Within(s, t) /\ t.actions = A
           /\ \A f \in StateFields \ {"actions"} : t[f] = s[f]
<1> DEFINE t == [s EXCEPT !.actions = A]
<1>1. t.actions = A /\ \A f \in StateFields \ {"actions"} : t[f] = s[f]
    BY DEF Shaped, StateFields
<1>2. DOMAIN t = StateFields
    BY DEF Shaped
<1> HIDE DEF t
<1>3. /\ t.goals = s.goals /\ t.facts = s.facts /\ t.seq = s.seq /\ t.handoff = s.handoff
      /\ t.parked = s.parked
    BY <1>1 DEF StateFields
<1>4. Shaped(t) /\ Steady(s, t)
    BY <1>1, <1>2, <1>3, SameSteady DEF Shaped
<1>5. Within(s, t)
    BY <1>3, <1>4 DEF Within, Codes
<1> QED BY <1>1, <1>5 DEF t

LEMMA AwaitIs ==
    ASSUME NEW s, Shaped(s), NEW g \in DOMAIN s.goals, NEW action
    PROVE  LET t == AwaitAction(s, g, action)
               u == SetGoal(s, g, "WAITING", Because("AWAITING", action))
           IN /\ Within(s, t)
              /\ \A f \in StateFields \ {"actions"} : t[f] = u[f]
              /\ \A a \in s.actions : a.goal # g => a \in t.actions
              /\ \E a \in t.actions : a.goal = g /\ a.action = action
<1> DEFINE u == SetGoal(s, g, "WAITING", Because("AWAITING", action))
           new == [action |-> action, goal |-> g, asked |-> s.seq]
           A == {a \in u.actions : a.goal # g \/ a.action = action}
                  \cup (IF Awaits(s, g, action) THEN {} ELSE {new})
           t == [u EXCEPT !.actions = A]
<1>1. /\ Within(s, u) /\ Shaped(u) /\ DOMAIN s.goals \subseteq DOMAIN u.goals
      /\ u.actions = s.actions
    BY SetGoalWithin, SetGoalIs DEF Within, Shaped, StateFields
<1>2. AwaitAction(s, g, action) = t
    BY <1>1 DEF AwaitAction, Shaped, StateFields
<1>3. new.goal = g /\ new.action = action
    OBVIOUS
<1> HIDE DEF u, new
<1>4. \A a \in A : a.goal \in DOMAIN u.goals
    BY <1>1, <1>3 DEF Shaped
<1>5. \A a \in s.actions : a.goal # g => a \in A
    BY <1>1
<1>6. \E a \in A : a.goal = g /\ a.action = action
    BY <1>1, <1>3 DEF Awaits
<1> HIDE DEF A
<1>7. Within(u, t) /\ t.actions = A /\ \A f \in StateFields \ {"actions"} : t[f] = u[f]
    BY <1>1, <1>4, ActionsWithin
<1> HIDE DEF t
<1> QED BY <1>1, <1>2, <1>5, <1>6, <1>7, WithinTrans DEF u

LEMMA SyncWithWithin ==
    ASSUME NEW s, Shaped(s), NEW g \in DOMAIN s.goals, NEW gap
    PROVE  Within(s, SyncWith(s, g, gap))
<1> DEFINE t == AwaitAction(s, g, Resolution[gap.code])
           u == SetGoal(s, g, "ACTIVE", NoReason)
           v == [u EXCEPT !.actions = {a \in u.actions : a.goal # g}]
<1>1. Within(s, ParkStale(t, g))
  <2>1. Within(s, t)
    BY AwaitIs
  <2>2. Within(t, ParkStale(t, g))
    <3>1. Shaped(t)
      BY <2>1 DEF Within
    <3> HIDE DEF t
    <3> QED BY <3>1, ParkStaleCalm, CalmWithin
  <2> HIDE DEF t
  <2> QED BY <2>1, <2>2, WithinTrans
<1>2. Within(s, v)
  <2>1. Within(s, u) /\ Shaped(u)
    BY SetGoalWithin DEF Within
  <2> HIDE DEF u
  <2>2. Within(u, v)
    BY <2>1, ActionsWithin DEF Shaped
  <2> QED BY <2>1, <2>2, WithinTrans
<1>3. SyncWith(s, g, gap) \in {ParkStale(t, g), s, v}
    BY <1>2 DEF SyncWith, Within, Shaped, StateFields
<1> HIDE DEF t, v
<1> QED BY <1>1, <1>2, <1>3, WithinSelf

LEMMA SyncWithin ==
    ASSUME NEW s, Shaped(s), NEW g \in DOMAIN s.goals
    PROVE  Within(s, SyncGoal(s, g))
BY SyncWithWithin, WithinSelf DEF SyncGoal

LEMMA SyncingIs ==
    ASSUME NEW env, NEW s
    PROVE  SyncAuthoritativeGaps(s) = Syncing!Along(env, s, [g \in DOMAIN s.goals |-> g])
BY Zenon DEF SyncAuthoritativeGaps, Syncing!Along, SyncingOp, FoldLeft, Max, Syncing!Greatest,
             MapThenFoldSet, Syncing!MapThenFoldSet

LEMMA GapsWithin ==
    ASSUME NEW s, Shaped(s)
    PROVE  Within(s, SyncAuthoritativeGaps(s))
<1> DEFINE env == [s |-> s]
           seq == [g \in DOMAIN s.goals |-> g]
<1>1. env.s = s
    OBVIOUS
<1> HIDE DEF env
<1>2. /\ Len(s.goals) \in Nat /\ DOMAIN s.goals = 1 .. Len(s.goals)
      /\ DOMAIN seq = 1 .. Len(s.goals)
      /\ \A k \in 1 .. Len(s.goals) : seq[k] \in DOMAIN s.goals
    BY GoalOrder
<1>3. SyncAuthoritativeGaps(s) = Syncing!Along(env, s, seq)
    BY SyncingIs
<1> HIDE DEF seq
<1>4. WithinOf(env, 0, s)
    BY <1>1, WithinSelf DEF WithinOf
<1>5. ASSUME NEW k, NEW l, NEW t, WithinOf(env, k, t), NEW g \in DOMAIN s.goals
      PROVE  WithinOf(env, l, SyncingOp(env, t, g))
  <2>1. Within(env.s, t) /\ Shaped(t) /\ g \in DOMAIN t.goals
    BY <1>1, <1>5 DEF WithinOf, Within
  <2>2. Within(t, SyncGoal(t, g))
    BY <2>1, SyncWithin
  <2> QED BY <2>1, <2>2, WithinTrans DEF WithinOf, SyncingOp
<1>6. \A k \in 1 .. Len(s.goals) : \A t :
         WithinOf(env, k - 1, t) => WithinOf(env, k, SyncingOp(env, t, seq[k]))
    BY <1>2, <1>5
<1>7. WithinOf(env, Len(s.goals), Syncing!Along(env, s, seq))
    BY <1>2, <1>4, <1>6, Counting, Syncing!FoldLeftRule DEF Syncing!Inductive
<1> QED BY <1>1, <1>3, <1>7 DEF WithinOf

LEMMA ReopenWithin ==
    ASSUME NEW s, Shaped(s), NEW g \in DOMAIN s.goals
    PROVE  Within(s, ReopenGoal(s, g))
<1> DEFINE p == s.goals[g].parent
           again == Because("DEPENDENCY_INVALIDATED", "none")
           aside == Because("SUBFLOW", s.goals[g].code)
           suspended == "SUSPENDED"
           t == SetGoal(s, g, "ACTIVE", again)
           u == SetGoal(t, p, suspended, aside)
<1>1. Within(s, t) /\ t.goals[g].status = "ACTIVE"
    BY SetGoalWithin, SetGoalIs
<1>2. Shaped(t) /\ g \in DOMAIN t.goals /\ t.goals[g].parent = p
      /\ (t.goals[g].returns <=> s.goals[g].returns) /\ p \in {0} \cup DOMAIN t.goals
    BY <1>1 DEF Within, Steady, Firm, Shaped
<1> HIDE DEF t
<1>3. ASSUME p # 0, s.goals[g].returns
      PROVE  Within(t, u)
  <2>1. Near(t, u) /\ OwingBut(t, u, p)
    <3>1. suspended \in OpenStatuses
      BY DEF OpenStatuses
    <3> HIDE DEF suspended, aside
    <3> QED BY <1>2, <3>1, SetGoalWithin
  <2>2. /\ g \in DOMAIN u.goals /\ u.goals[g].parent = p /\ u.goals[g].returns
        /\ u.goals[g].status \in OpenStatuses
    BY <1>1, <1>2, <1>3, SetGoalIs DEF GoalFields, OpenStatuses
  <2> HIDE DEF u, p
  <2>3. \A X : OwedBut(u, X \cup {p}) => OwedBut(u, X)
    BY <2>2 DEF OwedBut, GoalsWith
  <2>4. Owing(t, u)
    BY <2>1, <2>3 DEF Owing, OwingBut
  <2> QED BY <2>1, <2>4, NearIs
<1>4. ReopenGoal(s, g) \in {s, t} \/ (ReopenGoal(s, g) = u /\ p # 0 /\ s.goals[g].returns)
    BY DEF ReopenGoal, t
<1> HIDE DEF u, p
<1> QED BY <1>1, <1>3, <1>4, WithinSelf, WithinTrans

\* The fold SettleGoals begins with.
Reopened(s) == FoldLeft(ReopenGoal, s, [g \in DOMAIN s.goals |-> g])

LEMMA ReopeningIs ==
    ASSUME NEW env, NEW s
    PROVE  Reopened(s) = Reopening!Along(env, s, [g \in DOMAIN s.goals |-> g])
BY Zenon DEF Reopened, Reopening!Along, ReopeningOp, FoldLeft, Max, Reopening!Greatest,
             MapThenFoldSet, Reopening!MapThenFoldSet

LEMMA ReopenedWithin ==
    ASSUME NEW s, Shaped(s)
    PROVE  Within(s, Reopened(s))
<1> DEFINE env == [s |-> s]
           seq == [g \in DOMAIN s.goals |-> g]
<1>1. env.s = s
    OBVIOUS
<1> HIDE DEF env
<1>2. /\ Len(s.goals) \in Nat /\ DOMAIN seq = 1 .. Len(s.goals)
      /\ \A k \in 1 .. Len(s.goals) : seq[k] \in DOMAIN s.goals
    BY GoalOrder
<1>3. Reopened(s) = Reopening!Along(env, s, seq)
    BY ReopeningIs
<1> HIDE DEF seq
<1>4. WithinOf(env, 0, s)
    BY <1>1, WithinSelf DEF WithinOf
<1>5. ASSUME NEW k, NEW l, NEW t, WithinOf(env, k, t), NEW g \in DOMAIN s.goals
      PROVE  WithinOf(env, l, ReopeningOp(env, t, g))
  <2>1. Within(env.s, t) /\ Shaped(t) /\ g \in DOMAIN t.goals
    BY <1>1, <1>5 DEF WithinOf, Within
  <2> QED BY <2>1, ReopenWithin, WithinTrans DEF WithinOf, ReopeningOp
<1>6. \A k \in 1 .. Len(s.goals) : \A t :
         WithinOf(env, k - 1, t) => WithinOf(env, k, ReopeningOp(env, t, seq[k]))
    BY <1>2, <1>5
<1>7. WithinOf(env, Len(s.goals), Reopening!Along(env, s, seq))
    BY <1>2, <1>4, <1>6, Counting, Reopening!FoldLeftRule DEF Reopening!Inductive
<1> QED BY <1>1, <1>3, <1>7 DEF WithinOf

\* One round: the relations, the gaps, and whether anything moved.
LEMMA RoundIs ==
    ASSUME NEW env, NEW t, t.changed, NEW n
    PROVE  SettlingOp(env, t, n)
             = NextRound(SyncAuthoritativeGaps(EvaluateRelations(t)), t)
<1> DEFINE e == [t |-> t]
<1>1. e.t = t
    OBVIOUS
<1> HIDE DEF e
<1>2. ASSUME NEW x, x.t.changed
      PROVE  SettlingOp(env, x.t, n) = Phasing!Along(x, x.t, SettlingPhases)
    BY <1>2, Zenon DEF SettlingOp, Phasing!Along, PhasingOp, FoldLeft, Max, Phasing!Greatest,
                       MapThenFoldSet, Phasing!MapThenFoldSet
<1>3. SettlingOp(env, t, n) = Phasing!Along(e, t, SettlingPhases)
  <2>1. SettlingOp(env, e.t, n) = Phasing!Along(e, e.t, SettlingPhases)
    BY <1>1, <1>2
  <2> QED BY <1>1, <2>1
<1>4. Phasing!Along(e, t, <<"relations", "gaps", "compare">>)
        = PhasingOp(e, PhasingOp(e, PhasingOp(e, t, "relations"), "gaps"), "compare")
    BY Counting, Phasing!AlongOf3 DEF Phasing!Inductive
<1>5. \A u : /\ PhasingOp(e, u, "relations") = EvaluateRelations(u)
             /\ PhasingOp(e, u, "gaps") = SyncAuthoritativeGaps(u)
             /\ PhasingOp(e, u, "compare") = NextRound(u, e.t)
    BY DEF PhasingOp
<1> QED BY <1>1, <1>3, <1>4, <1>5 DEF SettlingPhases

LEMMA NextRoundWithin ==
    ASSUME NEW s, Shaped(s), NEW t
    PROVE  /\ Within(s, NextRound(s, t))
           /\ \A f \in StateFields \ {"changed"} : NextRound(s, t)[f] = s[f]
<1> DEFINE u == NextRound(s, t)
<1>1. DOMAIN u = StateFields /\ \A f \in StateFields \ {"changed"} : u[f] = s[f]
    BY DEF NextRound, Shaped, StateFields
<1> HIDE DEF u
<1>2. /\ u.goals = s.goals /\ u.facts = s.facts /\ u.seq = s.seq /\ u.handoff = s.handoff
      /\ u.parked = s.parked /\ u.actions = s.actions
    BY <1>1 DEF StateFields
<1>3. Shaped(u) /\ Steady(s, u)
    BY <1>1, <1>2, SameSteady DEF Shaped
<1>4. Within(s, u)
    BY <1>2, <1>3 DEF Within, Codes
<1> QED BY <1>1, <1>4 DEF u

LEMMA RoundWithin ==
    ASSUME NEW t, Shaped(t), NEW env, NEW n
    PROVE  Within(t, SettlingOp(env, t, n))
<1> DEFINE u == EvaluateRelations(t)
           v == SyncAuthoritativeGaps(u)
           w == NextRound(v, t)
<1>1. Within(t, u)
    BY RelationsWithin
<1>2. Within(u, v)
    BY <1>1, GapsWithin DEF Within
<1>3. Within(v, w)
    BY <1>2, NextRoundWithin DEF Within
<1>4. SettlingOp(env, t, n) \in {t, w}
  <2>1. CASE t.changed
    BY <2>1, RoundIs
  <2>2. CASE ~t.changed
    BY <2>2, Zenon DEF SettlingOp
  <2> QED BY <2>1, <2>2
<1> HIDE DEF u, v, w
<1> QED BY <1>1, <1>2, <1>3, <1>4, WithinSelf, WithinTrans

LEMMA SettlingIs ==
    ASSUME NEW env, NEW s
    PROVE  SettleGoals(s) =
             Stopped(Settling!Along(env, Changed(Reopened(s)), [n \in 1 .. Rounds |-> n]),
                     "GOALS_DIVERGE")
BY Zenon DEF SettleGoals, Reopened, Settling!Along, SettlingOp, FoldLeft, Max, Settling!Greatest,
             MapThenFoldSet, Settling!MapThenFoldSet

LEMMA SettleWithin ==
    ASSUME NEW s, Shaped(s)
    PROVE  Within(s, SettleGoals(s))
<1> DEFINE env == [s |-> s]
           t0 == Changed(Reopened(s))
           seq == [n \in 1 .. Rounds |-> n]
           u == Settling!Along(env, t0, seq)
<1>1. env.s = s
    OBVIOUS
<1> HIDE DEF env
<1>2. Rounds \in Nat
    BY DEF Rounds
<1>3. DOMAIN seq = 1 .. Rounds
    BY <1>2
<1>4. SettleGoals(s) = Stopped(u, "GOALS_DIVERGE")
    BY SettlingIs
<1> HIDE DEF seq
<1>5. Within(s, t0)
  <2>1. Within(s, Reopened(s))
    BY ReopenedWithin
  <2>2. Within(Reopened(s), t0)
    BY <2>1, ErrorWithin DEF Within
  <2> QED BY <2>1, <2>2, WithinTrans
<1> HIDE DEF t0
<1>6. WithinOf(env, 0, t0)
    BY <1>1, <1>5 DEF WithinOf
<1>7. ASSUME NEW k, NEW l, NEW x, NEW t, WithinOf(env, k, t)
      PROVE  WithinOf(env, l, SettlingOp(env, t, x))
  <2>1. Within(env.s, t) /\ Within(t, SettlingOp(env, t, x))
    BY <1>7, RoundWithin DEF WithinOf, Within
  <2> QED BY <2>1, WithinTrans DEF WithinOf
<1>8. \A k \in 1 .. Rounds : \A t :
         WithinOf(env, k - 1, t) => WithinOf(env, k, SettlingOp(env, t, seq[k]))
    BY <1>7
<1>9. WithinOf(env, Rounds, u)
    BY <1>2, <1>3, <1>6, <1>8, Counting, Settling!FoldLeftRule DEF Settling!Inductive
<1> HIDE DEF u
<1>10. Within(s, u)
    BY <1>1, <1>9 DEF WithinOf
<1>11. Within(u, Stopped(u, "GOALS_DIVERGE"))
    BY <1>10, ErrorWithin DEF Within
<1> QED BY <1>4, <1>10, <1>11, WithinTrans

-----------------------------------------------------------------------------
(* Events.                                                                 *)

\* t comes after s, with goals of the catalogue when the event names known ones
Moved(s, t, known) == Kept(s, t) /\ (known => Within(s, t))

LEMMA MovedTrans ==
    /\ \A s, t, known : Within(s, t) => Moved(s, t, known)
    /\ \A s, t, u, known : Moved(s, t, known) /\ Moved(t, u, known) => Moved(s, u, known)
    /\ \A s, t, known : Moved(s, t, known) => Shaped(t)
BY KeptTrans, WithinTrans DEF Moved, Kept

LEMMA NewestIs ==
    ASSUME NEW s, Shaped(s), NEW G, G \subseteq DOMAIN s.goals
    PROVE  /\ Newest(G) \in {0} \cup G
           /\ G # {} => Newest(G) \in G /\ Newest(G) # 0
<1>1. Len(s.goals) \in Nat /\ G \subseteq 1 .. Len(s.goals)
    BY SeqIs DEF Shaped
<1> QED BY <1>1, LargestIs DEF Newest

LEMMA ContextIs ==
    ASSUME NEW s, Shaped(s)
    PROVE  /\ ContextGoal(s) \in {0} \cup DOMAIN s.goals
           /\ ContextGoal(s) # 0 => s.goals[ContextGoal(s)].status \in {"ACTIVE", "WAITING"}
<1>1. \A S : GoalsWith(s, S) \subseteq DOMAIN s.goals
    BY DEF GoalsWith
<1>2. /\ Newest(GoalsWith(s, {"ACTIVE"})) \in {0} \cup GoalsWith(s, {"ACTIVE"})
      /\ Newest(GoalsWith(s, {"WAITING"})) \in {0} \cup GoalsWith(s, {"WAITING"})
    BY <1>1, NewestIs
<1> QED BY <1>2 DEF ContextGoal, FocusGoal, GoalsWith

\* The goal a fact is recorded for is one of the conversation, or none.
LEMMA OwnerIs ==
    ASSUME NEW s, Shaped(s), NEW code, NEW focus \in {0} \cup DOMAIN s.goals
    PROVE  OwnerGoalForFact(s, code, focus) \in {0} \cup DOMAIN s.goals
<1> DEFINE open == {g \in GoalsWith(s, OpenStatuses) :
                       /\ focus # 0 => s.goals[g].case = s.goals[focus].case
                       /\ Declares(s.goals[g].code, code)}
<1>1. OwnerGoalForFact(s, code, focus) \in {focus, Max(open)}
         /\ (open = {} => OwnerGoalForFact(s, code, focus) = focus)
    BY DEF OwnerGoalForFact
<1>2. open \subseteq DOMAIN s.goals
    BY DEF GoalsWith
<1>3. Len(s.goals) \in Nat /\ DOMAIN s.goals = 1 .. Len(s.goals)
    BY SeqIs DEF Shaped
<1> HIDE DEF open
<1>4. open # {} => Max(open) \in open
    BY <1>2, <1>3, LargestIs
<1> QED BY <1>1, <1>2, <1>4

LEMMA TellWithin ==
    ASSUME NEW s, Shaped(s), NEW g \in {0} \cup DOMAIN s.goals, NEW ins, IsSeq(ins)
    PROVE  Within(s, Tell(s, g, ins))
<1> DEFINE env == [s |-> s, g |-> g]
           told == Told(ins, "USER_EXPLICIT", "CONFIRMED")
           n == Len(ins)
<1>1. env.s = s /\ env.g = g
    OBVIOUS
<1> HIDE DEF env
<1>2. ASSUME NEW e, NEW t, NEW q
      PROVE  Tell(t, e.g, q) = Telling!Along(e, t, Told(q, "USER_EXPLICIT", "CONFIRMED"))
    BY Zenon DEF Tell, Telling!Along, TellingOp, FoldLeft, Max, Telling!Greatest,
                 MapThenFoldSet, Telling!MapThenFoldSet
<1>3. Tell(s, g, ins) = Telling!Along(env, s, told)
  <2>1. Tell(s, env.g, ins) = Telling!Along(env, s, told)
    BY <1>2
  <2> QED BY <1>1, <2>1
<1>4. n \in Nat /\ DOMAIN told = 1 .. n
    BY SeqIs DEF Told
<1> HIDE DEF told, n
<1>5. WithinOf(env, 0, s)
    BY <1>1, WithinSelf DEF WithinOf
<1>6. ASSUME NEW k, NEW l, NEW in, NEW t, WithinOf(env, k, t)
      PROVE  WithinOf(env, l, TellingOp(env, t, in))
  <2>1. Within(env.s, t) /\ Shaped(t) /\ env.g \in {0} \cup DOMAIN t.goals
    BY <1>1, <1>6 DEF WithinOf, Within
  <2> QED BY <2>1, SaidWithin, WithinTrans DEF WithinOf, TellingOp
<1>7. \A k \in 1 .. n : \A t :
         WithinOf(env, k - 1, t) => WithinOf(env, k, TellingOp(env, t, told[k]))
    BY <1>6
<1>8. WithinOf(env, n, Telling!Along(env, s, told))
    BY <1>4, <1>5, <1>7, Counting, Telling!FoldLeftRule DEF Telling!Inductive
<1> QED BY <1>1, <1>3, <1>8 DEF WithinOf

LEMMA RecordFactsWithin ==
    ASSUME NEW s, Shaped(s), NEW g \in {0} \cup DOMAIN s.goals, NEW ins, IsSeq(ins), NEW mode
    PROVE  Within(s, RecordFacts(s, g, ins, mode))
<1> DEFINE env == [s |-> s, g |-> g, mode |-> mode]
<1>1. env.s = s /\ env.g = g /\ env.mode = mode
    OBVIOUS
<1> HIDE DEF env
<1>2. ASSUME NEW e, NEW t, NEW q
      PROVE  RecordFacts(t, e.g, q, e.mode) = Recording!Along(e, t, q)
    BY Zenon DEF RecordFacts, Recording!Along, RecordingOp, FoldLeft, Max, Recording!Greatest,
                 MapThenFoldSet, Recording!MapThenFoldSet
<1>3. RecordFacts(s, g, ins, mode) = Recording!Along(env, s, ins)
  <2>1. RecordFacts(s, env.g, ins, env.mode) = Recording!Along(env, s, ins)
    BY <1>2
  <2> QED BY <1>1, <2>1
<1>4. Len(ins) \in Nat /\ DOMAIN ins = 1 .. Len(ins)
    BY SeqIs
<1>5. WithinOf(env, 0, s)
    BY <1>1, WithinSelf DEF WithinOf
<1>6. ASSUME NEW k, NEW l, NEW in, NEW t, WithinOf(env, k, t)
      PROVE  WithinOf(env, l, RecordingOp(env, t, in))
  <2>1. Within(env.s, t) /\ Shaped(t) /\ env.g \in {0} \cup DOMAIN t.goals
    BY <1>1, <1>6 DEF WithinOf, Within
  <2> DEFINE owner == OwnerGoalForFact(t, in.code, env.g)
  <2>2. owner \in {0} \cup DOMAIN t.goals
    BY <2>1, OwnerIs
  <2>3. RecordingOp(env, t, in) = RecordFact(t, owner, in, env.mode, {})
    BY DEF RecordingOp
  <2> HIDE DEF owner
  <2> QED BY <2>1, <2>2, <2>3, SaidWithin, WithinTrans DEF WithinOf
<1>7. \A k \in 1 .. Len(ins) : \A t :
         WithinOf(env, k - 1, t) => WithinOf(env, k, RecordingOp(env, t, ins[k]))
    BY <1>6
<1>8. WithinOf(env, Len(ins), Recording!Along(env, s, ins))
    BY <1>4, <1>5, <1>7, Counting, Recording!FoldLeftRule DEF Recording!Inductive
<1> QED BY <1>1, <1>3, <1>8 DEF WithinOf

LEMMA RecordSignalWithin ==
    ASSUME NEW s, Shaped(s), NEW owner \in {0} \cup DOMAIN s.goals, NEW target, NEW in
    PROVE  Within(s, RecordSignal(s, owner, target, in))
BY SaidWithin, ErrorWithin DEF RecordSignal

LEMMA SignalWithin ==
    ASSUME NEW s, Shaped(s), NEW sig, IsSeq(sig.facts)
    PROVE  Within(s, Signalled(s, sig))
<1> DEFINE env == [s |-> s, sig |-> sig]
           told == [i \in DOMAIN sig.facts |->
                      [Filled(sig.facts[i], "SYSTEM", "CONFIRMED") EXCEPT !.authoritative = TRUE]]
           n == Len(sig.facts)
<1>1. env.s = s /\ env.sig = sig
    OBVIOUS
<1> HIDE DEF env
<1>2. ASSUME NEW e, NEW t
      PROVE  Signalled(t, e.sig) =
               IF e.sig.target = 0 \/ e.sig.target \in GoalsWith(t, OpenStatuses)
               THEN Signalling!Along(e, t, [i \in DOMAIN e.sig.facts |->
                      [Filled(e.sig.facts[i], "SYSTEM", "CONFIRMED") EXCEPT !.authoritative = TRUE]])
               ELSE Fail(t, "CLOSED_GOAL")
    BY Zenon DEF Signalled, Signalling!Along, SignallingOp, FoldLeft, Max, Signalling!Greatest,
                 MapThenFoldSet, Signalling!MapThenFoldSet
<1>3. IF sig.target = 0 \/ sig.target \in GoalsWith(s, OpenStatuses)
      THEN Signalled(s, sig) = Signalling!Along(env, s, told)
      ELSE Signalled(s, sig) = Fail(s, "CLOSED_GOAL")
  <2>1. Signalled(s, env.sig) =
          IF env.sig.target = 0 \/ env.sig.target \in GoalsWith(s, OpenStatuses)
          THEN Signalling!Along(env, s, [i \in DOMAIN env.sig.facts |->
                 [Filled(env.sig.facts[i], "SYSTEM", "CONFIRMED") EXCEPT !.authoritative = TRUE]])
          ELSE Fail(s, "CLOSED_GOAL")
    BY <1>2
  <2> QED BY <1>1, <2>1
<1>4. n \in Nat /\ DOMAIN told = 1 .. n
    BY SeqIs
<1> HIDE DEF told, n
<1>5. WithinOf(env, 0, s)
    BY <1>1, WithinSelf DEF WithinOf
<1>6. ASSUME sig.target \in {0} \cup DOMAIN s.goals, NEW k, NEW l, NEW in, NEW t,
             WithinOf(env, k, t)
      PROVE  WithinOf(env, l, SignallingOp(env, t, in))
  <2> DEFINE target == env.sig.target
             owner == OwnerGoalForFact(t, in.code, target)
  <2>1. Within(env.s, t) /\ Shaped(t) /\ target \in {0} \cup DOMAIN t.goals
    BY <1>1, <1>6 DEF WithinOf, Within
  <2> HIDE DEF target
  <2>2. owner \in {0} \cup DOMAIN t.goals
    BY <2>1, OwnerIs
  <2>3. SignallingOp(env, t, in) = RecordSignal(t, owner, target, in)
    BY DEF SignallingOp, target
  <2> HIDE DEF owner
  <2>4. Within(t, SignallingOp(env, t, in))
    BY <2>1, <2>2, <2>3, RecordSignalWithin
  <2> QED BY <2>1, <2>4, WithinTrans DEF WithinOf
<1>7. sig.target \in {0} \cup DOMAIN s.goals =>
         \A k \in 1 .. n : \A t :
            WithinOf(env, k - 1, t) => WithinOf(env, k, SignallingOp(env, t, told[k]))
    BY <1>6
<1>8. sig.target \in {0} \cup DOMAIN s.goals => WithinOf(env, n, Signalling!Along(env, s, told))
    BY <1>4, <1>5, <1>7, Counting, Signalling!FoldLeftRule DEF Signalling!Inductive
<1>9. GoalsWith(s, OpenStatuses) \subseteq DOMAIN s.goals
    BY DEF GoalsWith
<1> QED BY <1>1, <1>3, <1>8, <1>9, ErrorWithin DEF WithinOf

LEMMA LeaveWithin ==
    ASSUME NEW s, Shaped(s), NEW g \in DOMAIN s.goals
    PROVE  Within(s, LeaveGoal(s, g))
<1> DEFINE p == s.goals[g].parent
           left == "ABANDONED"
           why == Because("USER_ABANDONED", "none")
           suspended == "SUSPENDED"
           blocked == Because("BLOCKED_BY_ABANDONED_SUBFLOW", "none")
           t == SetGoal(s, g, left, why)
           u == SetGoal(t, p, suspended, blocked)
<1>1. Near(s, t) /\ OwingBut(s, t, p)
  <2>1. left \notin OpenStatuses
    BY DEF OpenStatuses
  <2> HIDE DEF left, why
  <2> QED BY <2>1, SetGoalWithin
<1>2. /\ Shaped(t) /\ p \in {0} \cup DOMAIN t.goals
      /\ p \in DOMAIN t.goals /\ t.goals[p].status = "SUSPENDED" => s.goals[p].status = "SUSPENDED"
  <2>1. Shaped(t) /\ p \in {0} \cup DOMAIN t.goals
    BY <1>1 DEF Near, Shaped
  <2> QED BY <2>1, SetGoalIs
<1>3. CASE p # 0 /\ s.goals[p].status = "SUSPENDED"
  <2>1. Near(t, u) /\ OwingBut(t, u, p)
    <3>1. suspended \in OpenStatuses
      BY DEF OpenStatuses
    <3> HIDE DEF suspended, blocked, t
    <3> QED BY <1>2, <3>1, SetGoalWithin
  <2>2. u.goals[p].reason.why = "BLOCKED_BY_ABANDONED_SUBFLOW"
    <3>1. u.goals[p].reason = blocked
      <4> HIDE DEF t, blocked
      <4> QED BY <1>2, <1>3, SetGoalIs
    <3> QED BY <3>1 DEF Because
  <2>3. LeaveGoal(s, g) = u
    BY <1>3 DEF LeaveGoal
  <2> HIDE DEF t, u, p
  <2>4. \A X : OwedBut(u, (X \cup {p}) \cup {p}) => OwedBut(u, X)
    BY <2>2 DEF OwedBut
  <2>5. Near(s, u)
    BY <1>1, <2>1, NearIs
  <2>6. Owing(s, u)
    BY <1>1, <2>1, <2>4 DEF Owing, OwingBut
  <2> QED BY <2>3, <2>5, <2>6, NearIs
<1>4. CASE ~(p # 0 /\ s.goals[p].status = "SUSPENDED")
  <2>1. LeaveGoal(s, g) = t
    BY <1>4 DEF LeaveGoal
  <2>2. 0 \notin DOMAIN t.goals
    BY <1>2, SeqIs DEF Shaped
  <2> HIDE DEF t, p
  <2>3. \A X : OwedBut(t, X \cup {p}) => OwedBut(t, X)
    BY <1>2, <1>4, <2>2 DEF OwedBut, GoalsWith
  <2>4. Owing(s, t)
    BY <1>1, <2>3 DEF Owing, OwingBut
  <2> QED BY <1>1, <2>1, <2>4, NearIs
<1> QED BY <1>3, <1>4

LEMMA TopicWithin ==
    ASSUME NEW s, Shaped(s), NEW topic
    PROVE  Within(s, [s EXCEPT !.topic = topic])
<1> DEFINE t == [s EXCEPT !.topic = topic]
<1>1. DOMAIN t = StateFields /\ \A f \in StateFields \ {"topic"} : t[f] = s[f]
    BY DEF Shaped, StateFields
<1> HIDE DEF t
<1>2. /\ t.goals = s.goals /\ t.facts = s.facts /\ t.seq = s.seq /\ t.handoff = s.handoff
      /\ t.parked = s.parked /\ t.actions = s.actions
    BY <1>1 DEF StateFields
<1>3. Shaped(t) /\ Steady(s, t)
    BY <1>1, <1>2, SameSteady DEF Shaped
<1>4. Within(s, t)
    BY <1>2, <1>3 DEF Within, Codes
<1> QED BY <1>4 DEF t

LEMMA NewGoalMoved ==
    ASSUME NEW s, Shaped(s), NEW g \in {0} \cup DOMAIN s.goals, NEW e, IsSeq(e.facts)
    PROVE  Moved(s, OnNewGoal(s, g, e), e.goal \in DOMAIN GoalDef)
<1> DEFINE left == IF ~e.abandon \/ g = 0 THEN s ELSE LeaveGoal(s, g)
           opts == [NoOpts EXCEPT !.ref = e.ref]
           t == PushGoal(left, e.goal, opts)
           u == [t EXCEPT !.topic = GoalDef[e.goal].topic]
           new == Len(s.goals) + 1
           v == Tell(u, new, e.facts)
           known == e.goal \in DOMAIN GoalDef
<1>1. Within(s, left)
    BY LeaveWithin, WithinSelf
<1>2. opts.parent = 0 /\ ~opts.suspend
    BY DEF NoOpts
<1>3. OnNewGoal(s, g, e) = v
    BY DEF OnNewGoal
<1> HIDE DEF left, opts
<1>4. Moved(left, t, known) /\ DOMAIN t.goals = 1 .. (Len(left.goals) + 1)
    BY <1>1, <1>2, PushWithin DEF Moved, Within
<1> HIDE DEF t
<1>5. Within(t, u)
    BY <1>4, TopicWithin, MovedTrans
<1> HIDE DEF u
<1>6. Within(u, v)
  <2>1. /\ Len(s.goals) \in Nat /\ Len(left.goals) \in Nat
        /\ 1 .. Len(s.goals) \subseteq 1 .. Len(left.goals)
    BY <1>1, SeqIs DEF Within, Shaped
  <2>2. Len(s.goals) <= Len(left.goals)
    BY <2>1
  <2>3. new \in {0} \cup DOMAIN u.goals
    BY <1>4, <1>5, <2>1, <2>2 DEF Within
  <2> HIDE DEF new
  <2> QED BY <1>5, <2>3, TellWithin DEF Within
<1> HIDE DEF v, new, known
<1>7. Moved(s, left, known) /\ Moved(t, u, known) /\ Moved(u, v, known)
    BY <1>1, <1>5, <1>6, MovedTrans
<1>8. Moved(s, t, known)
    BY <1>4, <1>7, MovedTrans
<1>9. Moved(s, u, known)
    BY <1>7, <1>8, MovedTrans
<1> QED BY <1>3, <1>7, <1>9, MovedTrans DEF known

\* A goal becomes another demand, and may be open again.
LEMMA RecodedMoved ==
    ASSUME NEW s, Shaped(s), NEW g \in DOMAIN s.goals, NEW code, NEW status, NEW reason,
           status = "ACTIVE" \/ (status = s.goals[g].status /\ reason = s.goals[g].reason),
           NEW closed, NEW topic, NEW origin
    PROVE  Moved(s, [s EXCEPT !.origin = origin, !.topic = topic,
                              !.goals[g].code = code, !.goals[g].status = status,
                              !.goals[g].reason = reason, !.goals[g].closed = closed],
                 code \in DOMAIN GoalDef)
<1> DEFINE h1 == [s.goals[g] EXCEPT !.code = code]
           G1 == [s.goals EXCEPT ![g] = h1]
           h2 == [G1[g] EXCEPT !.status = status]
           G2 == [G1 EXCEPT ![g] = h2]
           h3 == [G2[g] EXCEPT !.reason = reason]
           G3 == [G2 EXCEPT ![g] = h3]
           h4 == [G3[g] EXCEPT !.closed = closed]
           G4 == [G3 EXCEPT ![g] = h4]
           t == [s EXCEPT !.origin = origin, !.topic = topic,
                          !.goals[g].code = code, !.goals[g].status = status,
                          !.goals[g].reason = reason, !.goals[g].closed = closed]
<1>1. /\ DOMAIN t = DOMAIN s
      /\ \A f \in {"seq", "facts", "parked", "handoff", "actions"} : t[f] = s[f]
      /\ t.goals = G4
    BY DEF Shaped, StateFields
<1>2. IsSeq(s.goals) /\ DOMAIN s.goals[g] = GoalFields
    BY DEF Shaped
<1>3. IsSeq(G1) /\ DOMAIN G1 = DOMAIN s.goals
    BY <1>2, ExceptIsSeq
<1>4. IsSeq(G2) /\ DOMAIN G2 = DOMAIN s.goals
  <2> HIDE DEF G1
  <2> QED BY <1>3, ExceptIsSeq
<1>5. IsSeq(G3) /\ DOMAIN G3 = DOMAIN s.goals
  <2> HIDE DEF G2
  <2> QED BY <1>4, ExceptIsSeq
<1>6. IsSeq(G4) /\ DOMAIN G4 = DOMAIN s.goals
  <2> HIDE DEF G3
  <2> QED BY <1>5, ExceptIsSeq
<1>7. \A o \in DOMAIN s.goals : o # g => G4[o] = s.goals[o]
    OBVIOUS
<1>8. /\ DOMAIN G4[g] = GoalFields /\ G4[g].code = code
      /\ G4[g].status = status /\ G4[g].reason = reason
      /\ G4[g].parent = s.goals[g].parent /\ G4[g].returns = s.goals[g].returns
      /\ G4[g].case = s.goals[g].case
  <2> DEFINE kept == {"parent", "returns", "case"}
  <2>1. G1[g] = h1 /\ G2[g] = h2 /\ G3[g] = h3 /\ G4[g] = h4
    OBVIOUS
  <2>2. /\ DOMAIN h1 = GoalFields /\ h1.code = code
        /\ \A f \in kept : h1[f] = s.goals[g][f]
    BY <1>2 DEF GoalFields
  <2> HIDE DEF h1
  <2>3. /\ DOMAIN h2 = GoalFields /\ h2.code = code /\ h2.status = status
        /\ \A f \in kept : h2[f] = h1[f]
    BY <2>1, <2>2 DEF GoalFields
  <2> HIDE DEF h2
  <2>4. /\ DOMAIN h3 = GoalFields /\ h3.code = code /\ h3.status = status /\ h3.reason = reason
        /\ \A f \in kept : h3[f] = h1[f]
    BY <2>1, <2>3 DEF GoalFields
  <2> HIDE DEF h3
  <2>5. /\ DOMAIN h4 = GoalFields /\ h4.code = code /\ h4.status = status /\ h4.reason = reason
        /\ \A f \in kept : h4[f] = h1[f]
    BY <2>1, <2>4 DEF GoalFields
  <2> HIDE DEF h4, G4
  <2> QED BY <2>1, <2>2, <2>5
<1> HIDE DEF t, G4
<1>9. \A o \in DOMAIN t.goals : /\ DOMAIN t.goals[o] = GoalFields
                                /\ t.goals[o].parent = s.goals[o].parent
                                /\ t.goals[o].returns = s.goals[o].returns
                                /\ t.goals[o].case = s.goals[o].case
                                /\ t.goals[o].parent \in {0} \cup DOMAIN t.goals
    BY <1>1, <1>6, <1>7, <1>8 DEF Shaped
<1>10. \A a \in t.actions : a.goal \in DOMAIN t.goals
    BY <1>1, <1>6 DEF Shaped
<1>11. Codes(t) \subseteq Codes(s) \cup {code}
    BY <1>1, <1>6, <1>7, <1>8 DEF Codes
<1>12. Owing(s, t)
  <2> SUFFICES ASSUME NEW X, OwedBut(s, X),
                      NEW h \in GoalsWith(t, {"SUSPENDED"}) \ X,
                      t.goals[h].reason.why # "BLOCKED_BY_ABANDONED_SUBFLOW"
               PROVE  \E o \in GoalsWith(t, OpenStatuses) :
                         t.goals[o].parent = h /\ t.goals[o].returns
    BY DEF Owing, OwedBut
  <2>1. h \in GoalsWith(s, {"SUSPENDED"}) \ X /\ s.goals[h].reason = t.goals[h].reason
    BY <1>1, <1>6, <1>7, <1>8 DEF GoalsWith
  <2>2. PICK o \in GoalsWith(s, OpenStatuses) : s.goals[o].parent = h /\ s.goals[o].returns
    BY <2>1 DEF OwedBut
  <2>3. o \in DOMAIN t.goals /\ t.goals[o].parent = h /\ t.goals[o].returns
    BY <1>1, <1>6, <1>9, <2>2 DEF GoalsWith
  <2>4. o \in GoalsWith(t, OpenStatuses)
    BY <1>1, <1>6, <1>7, <1>8, <2>2, <2>3 DEF GoalsWith, OpenStatuses
  <2> QED BY <2>3, <2>4
<1>13. Moved(s, t, code \in DOMAIN GoalDef)
  <2>1. \A o \in DOMAIN s.goals : /\ t.goals[o].parent = s.goals[o].parent
                                  /\ t.goals[o].returns = s.goals[o].returns
                                  /\ t.goals[o].case = s.goals[o].case
    BY <1>1, <1>6, <1>9
  <2> QED BY <1>1, <1>6, <1>9, <1>10, <1>11, <1>12, <2>1, GoalsKept, NearIs DEF Moved
<1> QED BY <1>13 DEF t

LEMMA ReclassifiedMoved ==
    ASSUME NEW s, Shaped(s), NEW g \in {0} \cup DOMAIN s.goals, NEW e
    PROVE  Moved(s, OnReclassification(s, g, e), e.goal \in DOMAIN GoalDef)
<1> DEFINE old == {o \in DOMAIN s.goals : /\ s.goals[o].status # "ABANDONED"
                                          /\ s.goals[o].overlay = 0}
           target == IF g # 0 THEN g ELSE Newest(old)
           before == IF s.topic # "none" THEN s.topic ELSE GoalDef[s.goals[target].code].topic
           reopens == s.goals[target].status \in {"RESOLVED", "WAITING"}
           origin == IF s.origin = "none" THEN before ELSE s.origin
           topic == GoalDef[e.goal].topic
           status == IF reopens THEN "ACTIVE" ELSE s.goals[target].status
           reason == IF reopens THEN NoReason ELSE s.goals[target].reason
           closed == IF reopens THEN 0 ELSE s.goals[target].closed
           t == [s EXCEPT !.origin = IF @ = "none" THEN before ELSE @,
                      !.topic = GoalDef[e.goal].topic,
                      !.goals[target].code = e.goal,
                      !.goals[target].status = IF reopens THEN "ACTIVE" ELSE @,
                      !.goals[target].reason = IF reopens THEN NoReason ELSE @,
                      !.goals[target].closed = IF reopens THEN 0 ELSE @]
           u == [s EXCEPT !.origin = origin, !.topic = topic,
                          !.goals[target].code = e.goal, !.goals[target].status = status,
                          !.goals[target].reason = reason, !.goals[target].closed = closed]
<1>1. OnReclassification(s, g, e) = IF target = 0 THEN Fail(s, "NO_GOAL") ELSE t
    BY DEF OnReclassification
<1>2. target \in {0} \cup DOMAIN s.goals
  <2>1. Newest(old) \in {0} \cup DOMAIN s.goals
    BY NewestIs
  <2> HIDE DEF old
  <2> QED BY <2>1
<1>3. Moved(s, Fail(s, "NO_GOAL"), e.goal \in DOMAIN GoalDef)
    BY ErrorWithin, MovedTrans
<1>4. ASSUME target # 0
      PROVE  t = u
  <2>1. target \in DOMAIN s.goals
    BY <1>2, <1>4
  <2>2. DOMAIN s.goals[target] = GoalFields /\ DOMAIN s = StateFields
    BY <2>1 DEF Shaped
  <2> HIDE DEF target, before, reopens
  <2> QED BY <2>1, <2>2 DEF StateFields, GoalFields
<1>5. status = "ACTIVE" \/ (status = s.goals[target].status /\ reason = s.goals[target].reason)
    OBVIOUS
<1> HIDE DEF target, origin, topic, status, reason, closed
<1>6. target # 0 => Moved(s, u, e.goal \in DOMAIN GoalDef)
    BY <1>2, <1>5, RecodedMoved
<1> HIDE DEF t, u
<1> QED BY <1>1, <1>3, <1>4, <1>6

LEMMA ComplaintGoalWithin ==
    ASSUME NEW s, Shaped(s), NEW base \in DOMAIN s.goals, NEW known
    PROVE  /\ Within(s, ComplaintGoal(s, base, known))
           /\ known = 0 => Len(s.goals) + 1 \in DOMAIN ComplaintGoal(s, base, known).goals
<1> DEFINE opts == [NoOpts EXCEPT !.parent = base, !.overlay = base,
                                  !.case = s.goals[base].case]
           t == PushGoal(s, Complaint, opts)
           u == SetGoal(s, known, "ACTIVE", NoReason)
<1>1. opts.parent = base /\ ~opts.suspend
    BY DEF NoOpts
<1>2. /\ ComplaintGoal(s, base, known) \in {t, u, s}
      /\ known = 0 => ComplaintGoal(s, base, known) = t
    BY DEF ComplaintGoal
<1> HIDE DEF opts
<1>3. Complaint \in DOMAIN GoalDef
    BY CatalogAssumption DEF CatalogIsShaped
<1>4. Within(s, t) /\ DOMAIN t.goals = 1 .. (Len(s.goals) + 1)
    BY <1>1, <1>3, PushWithin
<1>5. Within(s, u)
    BY SetGoalWithin
<1>6. Len(s.goals) + 1 \in DOMAIN t.goals
    BY <1>4, SeqIs DEF Shaped
<1> HIDE DEF t, u
<1> QED BY <1>2, <1>4, <1>5, <1>6, WithinSelf

LEMMA ComplainWithin ==
    ASSUME NEW s, Shaped(s), NEW base \in DOMAIN s.goals, NEW e, IsSeq(e.facts)
    PROVE  Within(s, ComplainAbout(s, base, e))
<1>1. ASSUME NEW known \in {0} \cup DOMAIN s.goals
      PROVE  Within(s, ComplainAgain(s, base, known, e))
  <2> DEFINE t == ComplaintGoal(s, base, known)
             g == IF known = 0 THEN Len(s.goals) + 1 ELSE known
  <2>1. Within(s, t) /\ (known = 0 => Len(s.goals) + 1 \in DOMAIN t.goals)
    BY ComplaintGoalWithin
  <2>2. g \in {0} \cup DOMAIN t.goals
    BY <1>1, <2>1 DEF Within
  <2>3. ComplainAgain(s, base, known, e) = Tell(t, g, e.facts)
    BY DEF ComplainAgain
  <2> HIDE DEF t, g
  <2>4. Within(t, Tell(t, g, e.facts))
    BY <2>1, <2>2, TellWithin DEF Within
  <2> QED BY <2>1, <2>3, <2>4, WithinTrans
<1> DEFINE complaints == {o \in DOMAIN s.goals : /\ s.goals[o].code = Complaint
                                                 /\ s.goals[o].overlay = base
                                                 /\ s.goals[o].status # "ABANDONED"}
<1>2. Newest(complaints) \in {0} \cup complaints /\ complaints \subseteq DOMAIN s.goals
  <2>1. complaints \subseteq DOMAIN s.goals
    OBVIOUS
  <2> HIDE DEF complaints
  <2> QED BY <2>1, NewestIs
<1>3. ComplainAbout(s, base, e) = ComplainAgain(s, base, Newest(complaints), e)
    BY DEF ComplainAbout
<1> HIDE DEF complaints
<1> QED BY <1>1, <1>2, <1>3

LEMMA ComplaintMoved ==
    ASSUME NEW s, Shaped(s), NEW g \in {0} \cup DOMAIN s.goals, NEW e,
           IsSeq(e.facts), IsSeq(e.baseFacts)
    PROVE  Moved(s, OnComplaint(s, g, e), e.base \in DOMAIN GoalDef \cup {"none"})
<1> DEFINE opens == g = 0 /\ e.base # "none"
           base == IF opens THEN Len(s.goals) + 1 ELSE g
           opts == [NoOpts EXCEPT !.ref = e.ref]
           t == IF opens THEN PushGoal(s, e.base, opts) ELSE s
           u == Tell(t, base, e.baseFacts)
           v == ComplainAbout(u, base, e)
           known == e.base \in DOMAIN GoalDef \cup {"none"}
<1>1. OnComplaint(s, g, e) = IF base = 0 THEN Fail(s, "NO_BASE") ELSE v
    BY DEF OnComplaint
<1>2. opts.parent = 0 /\ ~opts.suspend
    BY DEF NoOpts
<1> HIDE DEF opts
<1>3. Moved(s, t, known) /\ (base # 0 => base \in DOMAIN t.goals)
  <2>1. CASE opens
    <3>1. /\ Kept(s, t) /\ (e.base \in DOMAIN GoalDef => Within(s, t))
          /\ DOMAIN t.goals = 1 .. (Len(s.goals) + 1)
      BY <1>2, <2>1, PushWithin
    <3>2. Len(s.goals) \in Nat
      BY SeqIs DEF Shaped
    <3>3. known => e.base \in DOMAIN GoalDef
      BY <2>1
    <3> HIDE DEF t
    <3> QED BY <2>1, <3>1, <3>2, <3>3 DEF Moved
  <2>2. CASE ~opens
    BY <2>2, WithinSelf, MovedTrans
  <2> QED BY <2>1, <2>2
<1> HIDE DEF t, base
<1>4. base # 0 => Within(t, u)
    BY <1>3, TellWithin, MovedTrans
<1>5. base # 0 => Within(u, v)
  <2>1. base # 0 => Shaped(u) /\ DOMAIN t.goals \subseteq DOMAIN u.goals
    BY <1>4 DEF Within
  <2> HIDE DEF u
  <2> QED BY <1>3, <2>1, ComplainWithin
<1> HIDE DEF u, v, known
<1>6. base # 0 => Moved(s, v, known)
  <2>1. base # 0 => Moved(s, u, known)
    BY <1>3, <1>4, MovedTrans
  <2> QED BY <2>1, <1>5, MovedTrans
<1>7. Moved(s, Fail(s, "NO_BASE"), known)
    BY ErrorWithin, MovedTrans
<1> QED BY <1>1, <1>6, <1>7 DEF known

LEMMA ParallelMoved ==
    ASSUME NEW s, Shaped(s), NEW g \in {0} \cup DOMAIN s.goals, NEW e, IsSeq(e.facts)
    PROVE  Moved(s, OnParallelQuestion(s, g, e), e.goal \in DOMAIN GoalDef)
<1> DEFINE t == IF s.question = NoQuestion THEN s ELSE Park(s)
           opts == [NoOpts EXCEPT !.parent = g, !.case = IF g = 0 THEN 0 ELSE s.goals[g].case]
           u == PushGoal(t, e.goal, opts)
           new == Len(s.goals) + 1
           v == Tell(u, new, e.facts)
           known == e.goal \in DOMAIN GoalDef
<1>1. OnParallelQuestion(s, g, e) = v
    BY DEF OnParallelQuestion
<1>2. opts.parent = g /\ ~opts.suspend
    BY DEF NoOpts
<1>3. Within(s, t)
    BY ParkCalm, CalmWithin, WithinSelf
<1> HIDE DEF opts, t
<1>4. Moved(t, u, known) /\ DOMAIN u.goals = 1 .. (Len(t.goals) + 1)
    BY <1>2, <1>3, PushWithin DEF Moved, Within
<1>5. Within(u, v)
  <2>1. Shaped(u)
    BY <1>4, MovedTrans
  <2>2. /\ Len(s.goals) \in Nat /\ Len(t.goals) \in Nat
        /\ 1 .. Len(s.goals) \subseteq 1 .. Len(t.goals)
    BY <1>3, SeqIs DEF Within, Shaped
  <2> HIDE DEF u
  <2>3. Len(s.goals) <= Len(t.goals)
    BY <2>2
  <2>4. new \in {0} \cup DOMAIN u.goals
    BY <1>4, <2>2, <2>3
  <2> HIDE DEF new
  <2> QED BY <2>1, <2>4, TellWithin
<1> HIDE DEF u, v, new, known
<1>6. Moved(s, t, known) /\ Moved(u, v, known)
    BY <1>3, <1>5, MovedTrans
<1>7. Moved(s, u, known)
    BY <1>4, <1>6, MovedTrans
<1> QED BY <1>1, <1>6, <1>7, MovedTrans DEF known

LEMMA FactsEventWithin ==
    ASSUME NEW s, Shaped(s), NEW g \in {0} \cup DOMAIN s.goals, NEW e, IsSeq(e.facts)
    PROVE  Within(s, OnFacts(s, g, e))
<1>1. \A source, confidence : IsSeq(Told(e.facts, source, confidence))
    BY MapIsSeq DEF Told
<1> QED BY <1>1, RecordFactsWithin DEF OnFacts

\* An event carries lists of facts.
EventShaped(e) == IsSeq(e.facts) /\ (e.kind = "COMPLAINT" => IsSeq(e.baseFacts))

LEMMA OnSettlingMoved ==
    ASSUME NEW s, Shaped(s), NEW g \in {0} \cup DOMAIN s.goals, NEW e, EventShaped(e)
    PROVE  Moved(s, OnSettling(s, g, e), EventKnown(e))
<1>1. CASE e.kind = "NEW_GOAL"
  <2>1. Moved(s, OnNewGoal(s, g, e), e.goal \in DOMAIN GoalDef)
    BY NewGoalMoved DEF EventShaped
  <2> QED BY <1>1, <2>1 DEF OnSettling, EventKnown, Moved
<1>2. CASE e.kind = "RECLASSIFICATION"
  <2>1. Moved(s, OnReclassification(s, g, e), e.goal \in DOMAIN GoalDef)
    BY ReclassifiedMoved
  <2> QED BY <1>2, <2>1 DEF OnSettling, EventKnown, Moved
<1>3. CASE e.kind = "COMPLAINT"
  <2>1. Moved(s, OnComplaint(s, g, e), e.base \in DOMAIN GoalDef \cup {"none"})
    BY <1>3, ComplaintMoved DEF EventShaped
  <2> QED BY <1>3, <2>1 DEF OnSettling, EventKnown, Moved
<1>4. CASE e.kind = "PARALLEL_QUESTION"
  <2>1. Moved(s, OnParallelQuestion(s, g, e), e.goal \in DOMAIN GoalDef)
    BY ParallelMoved DEF EventShaped
  <2> QED BY <1>4, <2>1 DEF OnSettling, EventKnown, Moved
<1>5. CASE e.kind \notin {"NEW_GOAL", "RECLASSIFICATION", "COMPLAINT", "PARALLEL_QUESTION"}
  <2>1. Within(s, OnFacts(s, g, e))
    BY FactsEventWithin DEF EventShaped
  <2>2. OnSettling(s, g, e) = OnFacts(s, g, e)
    BY <1>5 DEF OnSettling
  <2> QED BY <2>1, <2>2, MovedTrans
<1> QED BY <1>1, <1>2, <1>3, <1>4, <1>5

\* An event that settles: whatever it says, the person asked for stays as it is.
LEMMA HandleMoved ==
    ASSUME NEW s, Shaped(s), NEW e, EventShaped(e), e.kind \notin {"SOCIAL", "HUMAN_REQUEST"}
    PROVE  Moved(s, Handle(s, e), EventKnown(e))
<1>1. CASE e.kind = "SIGNAL"
  <2>1. Within(s, Signalled(s, e))
    BY SignalWithin DEF EventShaped
  <2> QED BY <1>1, <2>1, MovedTrans DEF Handle
<1>2. CASE e.kind # "SIGNAL"
  <2>1. Moved(s, OnSettling(s, ContextGoal(s), e), EventKnown(e))
    BY ContextIs, OnSettlingMoved
  <2>2. Handle(s, e) = OnSettling(s, ContextGoal(s), e)
    BY <1>2 DEF Handle
  <2> QED BY <2>1, <2>2
<1> QED BY <1>1, <1>2

Numbered(s) == [s EXCEPT !.seq = @ + 1]

LEMMA NumberedIs ==
    ASSUME NEW s, Shaped(s)
    PROVE  /\ Shaped(Numbered(s)) /\ Numbered(s).seq = s.seq + 1
           /\ \A f \in StateFields \ {"seq"} : Numbered(s)[f] = s[f]
           /\ Codes(Numbered(s)) = Codes(s)
BY DEF Numbered, Shaped, StateFields, Codes

LEMMA SteppingIs ==
    ASSUME NEW env, NEW s
    PROVE  ApplyEvent(s, env.e) = Stepping!Along(env, Numbered(s), Phases(env.e))
BY Zenon DEF ApplyEvent, Numbered, Stepping!Along, SteppingOp, FoldLeft, Max, Stepping!Greatest,
             MapThenFoldSet, Stepping!MapThenFoldSet

\* An event, phase by phase; an error stops it.
LEMMA ApplyEventIs ==
    ASSUME NEW s, NEW e
    PROVE  LET n == Numbered(s)
               h == IF n.error = "none" THEN Handle(n, e) ELSE n
               t == IF h.error = "none" THEN SettleGoals(h) ELSE h
               quiet == e.kind = "HUMAN_REQUEST" \/ (e.kind = "SOCIAL" /\ e.closing)
           IN ApplyEvent(s, e) =
                CASE quiet -> h
                  [] ~quiet /\ e.kind = "SOCIAL" ->
                        IF n.error = "none" THEN RefreshPendingQuestion(n) ELSE n
                  [] ~quiet /\ e.kind # "SOCIAL" ->
                        IF t.error = "none" THEN RefreshPendingQuestion(t) ELSE t
<1> DEFINE env == [e |-> e]
           n == Numbered(s)
           h == IF n.error = "none" THEN Handle(n, e) ELSE n
           t == IF h.error = "none" THEN SettleGoals(h) ELSE h
           quiet == e.kind = "HUMAN_REQUEST" \/ (e.kind = "SOCIAL" /\ e.closing)
<1>1. env.e = e
    OBVIOUS
<1> HIDE DEF env
<1>2. ApplyEvent(s, e) = Stepping!Along(env, n, Phases(e))
  <2>1. ApplyEvent(s, env.e) = Stepping!Along(env, Numbered(s), Phases(env.e))
    BY SteppingIs
  <2> QED BY <1>1, <2>1
<1>3. \A u : /\ SteppingOp(env, u, "handle") = IF u.error = "none" THEN Handle(u, e) ELSE u
             /\ SteppingOp(env, u, "settle") = IF u.error = "none" THEN SettleGoals(u) ELSE u
             /\ SteppingOp(env, u, "ask") =
                   IF u.error = "none" THEN RefreshPendingQuestion(u) ELSE u
    BY <1>1 DEF SteppingOp
<1> HIDE DEF n
<1>4. CASE quiet
  <2>1. Phases(e) = <<"handle">>
    BY <1>4 DEF Phases
  <2>2. Stepping!Along(env, n, <<"handle">>) = SteppingOp(env, n, "handle")
    BY Counting, Stepping!AlongOf1 DEF Stepping!Inductive
  <2>3. ApplyEvent(s, e) = h
    BY <1>2, <1>3, <2>1, <2>2
  <2> HIDE DEF h
  <2> QED BY <1>4, <2>3 DEF n, h
<1>5. CASE ~quiet /\ e.kind = "SOCIAL"
  <2>1. Phases(e) = <<"ask">>
    BY <1>5 DEF Phases
  <2>2. Stepping!Along(env, n, <<"ask">>) = SteppingOp(env, n, "ask")
    BY Counting, Stepping!AlongOf1 DEF Stepping!Inductive
  <2>3. ApplyEvent(s, e) = IF n.error = "none" THEN RefreshPendingQuestion(n) ELSE n
    BY <1>2, <1>3, <2>1, <2>2
  <2> QED BY <1>5, <2>3 DEF n
<1>6. CASE ~quiet /\ e.kind # "SOCIAL"
  <2>1. Phases(e) = <<"handle", "settle", "ask">>
    BY <1>6 DEF Phases
  <2>2. Stepping!Along(env, n, <<"handle", "settle", "ask">>)
          = SteppingOp(env, SteppingOp(env, SteppingOp(env, n, "handle"), "settle"), "ask")
    BY Counting, Stepping!AlongOf3 DEF Stepping!Inductive
  <2>3. h = SteppingOp(env, n, "handle") /\ t = SteppingOp(env, h, "settle")
    BY <1>3
  <2> HIDE DEF h, t
  <2>4. ApplyEvent(s, e) = IF t.error = "none" THEN RefreshPendingQuestion(t) ELSE t
    BY <1>2, <1>3, <2>1, <2>2, <2>3
  <2> QED BY <1>6, <2>4 DEF n, h, t
<1> QED BY <1>4, <1>5, <1>6

\* What an event that settles keeps.
LEMMA ApplyEventMoved ==
    ASSUME NEW s, Shaped(s), NEW e, EventShaped(e), e.kind \notin {"SOCIAL", "HUMAN_REQUEST"}
    PROVE  Moved(Numbered(s), ApplyEvent(s, e), EventKnown(e))
<1> DEFINE n == Numbered(s)
           h == IF n.error = "none" THEN Handle(n, e) ELSE n
           t == IF h.error = "none" THEN SettleGoals(h) ELSE h
           u == IF t.error = "none" THEN RefreshPendingQuestion(t) ELSE t
           known == EventKnown(e)
<1>1. ApplyEvent(s, e) = u
  <2> HIDE DEF n, h, t
  <2> QED BY ApplyEventIs DEF n, h, t
<1>2. Shaped(n)
    BY NumberedIs
<1> HIDE DEF n
<1>3. Moved(n, h, known)
    BY <1>2, HandleMoved, WithinSelf, MovedTrans
<1> HIDE DEF h
<1>4. Within(h, t)
    BY <1>3, SettleWithin, WithinSelf, MovedTrans
<1>5. Shaped(t)
    BY <1>4 DEF Within
<1> HIDE DEF t
<1>6. Within(t, u)
    BY <1>5, RefreshCalm, CalmWithin, WithinSelf
<1> HIDE DEF u, known
<1>7. Moved(h, t, known) /\ Moved(t, u, known)
    BY <1>4, <1>6, MovedTrans
<1>8. Moved(n, t, known)
    BY <1>3, <1>7, MovedTrans
<1> QED BY <1>1, <1>7, <1>8, MovedTrans DEF n, known

\* A social event and a request for a person touch neither goals nor facts nor
\* pending actions; the request leaves the state in which it was made.
LEMMA ApplyEventQuiet ==
    ASSUME NEW s, Shaped(s), s.error = "none", NEW e, e.kind \in {"SOCIAL", "HUMAN_REQUEST"}
    PROVE  LET t == ApplyEvent(s, e) IN
           /\ Shaped(t) /\ t.seq = s.seq + 1 /\ t.error = "none"
           /\ \A f \in {"goals", "facts", "actions"} : t[f] = s[f]
           /\ e.kind = "SOCIAL" => t.handoff = s.handoff
           /\ e.kind = "HUMAN_REQUEST" => /\ t.handoff.at = s.seq + 1
                                          /\ t.question = NoQuestion
<1> DEFINE n == Numbered(s)
<1>1. /\ Shaped(n) /\ n.seq = s.seq + 1 /\ n.error = "none" /\ n.handoff = s.handoff
      /\ \A f \in {"goals", "facts", "actions"} : n[f] = s[f]
    BY NumberedIs DEF StateFields
<1>2. CASE e.kind = "HUMAN_REQUEST"
  <2> DEFINE t == [n EXCEPT !.question = NoQuestion, !.handoff = BuildHandoff(n)]
  <2>1. ApplyEvent(s, e) = t
    BY <1>1, <1>2, ApplyEventIs DEF Handle
  <2>2. BuildHandoff(n).at = n.seq
    BY DEF BuildHandoff, NoHandoff
  <2> HIDE DEF n
  <2>3. /\ Shaped(t) /\ t.seq = n.seq /\ t.error = n.error /\ t.handoff = BuildHandoff(n)
        /\ t.question = NoQuestion
        /\ \A f \in {"goals", "facts", "actions"} : t[f] = n[f]
    BY <1>1 DEF Shaped, StateFields
  <2> HIDE DEF t
  <2> QED BY <1>1, <1>2, <2>1, <2>2, <2>3
<1>3. CASE e.kind = "SOCIAL" /\ e.closing
  <2> DEFINE t == [n EXCEPT !.question = NoQuestion]
  <2>1. ApplyEvent(s, e) = t
    BY <1>1, <1>3, ApplyEventIs DEF Handle
  <2> HIDE DEF n
  <2>2. Calm(n, t)
    BY <1>1, QuestionCalm
  <2> HIDE DEF t
  <2> QED BY <1>1, <1>3, <2>1, <2>2 DEF Calm, StateFields
<1>4. CASE e.kind = "SOCIAL" /\ ~e.closing
  <2> DEFINE t == RefreshPendingQuestion(n)
  <2>1. ApplyEvent(s, e) = t
    BY <1>1, <1>4, ApplyEventIs
  <2> HIDE DEF n
  <2>2. Calm(n, t)
    BY <1>1, RefreshCalm
  <2> HIDE DEF t
  <2> QED BY <1>1, <1>4, <2>1, <2>2 DEF Calm, StateFields
<1> QED BY <1>2, <1>3, <1>4

-----------------------------------------------------------------------------
(* The plan of a turn.                                                     *)

\* An interpretation has the fields of one, and carries lists.
Heeded(i) == DOMAIN i = InterpretationFields /\ IsSeq(i.facts) /\ IsSeq(i.secondary)
\* the goals it names are goals
GoalsKnown(i) ==
    /\ i.goal \in DOMAIN GoalDef \cup {"none"} /\ DefaultBase \in DOMAIN GoalDef
    /\ \A k \in DOMAIN i.secondary : i.secondary[k].goal \in DOMAIN GoalDef
\* the reducer turns are given is the one of this module
Reduces == \A s, e : React(s, e) = ApplyEvent(s, e)

LEMMA ConcatIs ==
    ASSUME NEW p, IsSeq(p), NEW q, IsSeq(q), NEW S,
           \A k \in DOMAIN p : p[k] \in S, \A k \in DOMAIN q : q[k] \in S
    PROVE  IsSeq(p \o q) /\ \A k \in DOMAIN (p \o q) : (p \o q)[k] \in S
<1>1. p \in Seq(S) /\ q \in Seq(S)
  <2>1. PICK T, U : p \in Seq(T) /\ q \in Seq(U)
    BY DEF IsSeq
  <2> QED BY <2>1
<1>2. p \o q \in Seq(S)
    BY <1>1
<1> QED BY <1>2 DEF IsSeq

LEMMA OneIs ==
    ASSUME NEW x
    PROVE  /\ IsSeq(<<x>>) /\ DOMAIN <<x>> = {1} /\ <<x>>[1] = x
           /\ IsSeq(<<>>) /\ DOMAIN <<>> = {}
<1>1. <<x>> \in Seq({x}) /\ <<>> \in Seq({x})
    OBVIOUS
<1>2. IsSeq(<<x>>) /\ IsSeq(<<>>)
    BY <1>1 DEF IsSeq
<1>3. DOMAIN <<x>> = 1 .. 1 /\ <<x>>[1] = x /\ DOMAIN <<>> = 1 .. 0
    OBVIOUS
<1>4. 1 .. 1 = {1} /\ 1 .. 0 = {}
    OBVIOUS
<1> QED BY <1>2, <1>3, <1>4

LEMMA EventIs ==
    ASSUME NEW kind, NEW facts, NEW goal, NEW ref, NEW base, NEW baseFacts, NEW closing
    PROVE  /\ LET e == EventOf(kind, facts) IN
              e.kind = kind /\ e.facts = facts /\ e.baseFacts = <<>> /\ e.goal = "none"
           /\ LET e == [EventOf(kind, facts) EXCEPT !.goal = goal] IN
              e.kind = kind /\ e.facts = facts /\ e.goal = goal
           /\ LET e == [EventOf(kind, facts) EXCEPT !.goal = goal, !.ref = ref] IN
              e.kind = kind /\ e.facts = facts /\ e.goal = goal
           /\ LET e == [[EventOf(kind, facts) EXCEPT !.goal = goal, !.ref = ref]
                          EXCEPT !.base = base, !.baseFacts = baseFacts] IN
              e.kind = kind /\ e.facts = facts /\ e.base = base /\ e.baseFacts = baseFacts
           /\ LET e == [EventOf(kind, facts) EXCEPT !.closing = closing] IN
              e.kind = kind /\ e.facts = facts
BY DEF EventOf

LEMMA EventsAre ==
    ASSUME NEW s, NEW i, Heeded(i)
    PROVE  LET E == ToConversationEvents(s, i) IN
           /\ IsSeq(E) /\ \A k \in DOMAIN E : EventShaped(E[k])
           /\ GoalsKnown(i) /\ ~Clarifies(i) => \A k \in DOMAIN E : EventKnown(E[k])
           /\ i.event \notin {"SOCIAL", "HUMAN_REQUEST"} =>
                 \A k \in DOMAIN E : E[k].kind \notin {"SOCIAL", "HUMAN_REQUEST"}
           /\ i.event \in {"SOCIAL", "HUMAN_REQUEST"} =>
                 E = <<[EventOf(i.event, i.facts) EXCEPT !.closing = i.closing]>>
<1> DEFINE E == ToConversationEvents(s, i)
           Good(e) == /\ EventShaped(e)
                      /\ GoalsKnown(i) /\ ~Clarifies(i) => EventKnown(e)
                      /\ i.event \notin {"SOCIAL", "HUMAN_REQUEST"} =>
                            e.kind \notin {"SOCIAL", "HUMAN_REQUEST"}
           All(q) == IsSeq(q) /\ \A k \in DOMAIN q : Good(q[k])
<1>1. IsSeq(i.facts) /\ IsSeq(i.secondary) /\ IsSeq(<<>>)
    BY OneIs DEF Heeded
<1>2. i.event \in {"SOCIAL", "HUMAN_REQUEST"} =>
         E = <<[EventOf(i.event, i.facts) EXCEPT !.closing = i.closing]>>
    BY DEF ToConversationEvents
<1>3. All(E)
  <2>1. CASE i.event = "NEW_GOAL"
    <3> DEFINE opening == [EventOf("NEW_GOAL", <<>>) EXCEPT !.goal = i.goal, !.ref = CaseRef(s, i)]
               told == IF i.facts = <<>> THEN <<>> ELSE <<EventOf("COMPLEMENT", i.facts)>>
               beside == [k \in DOMAIN i.secondary |->
                            [EventOf("PARALLEL_QUESTION", <<>>) EXCEPT !.goal = i.secondary[k].goal]]
    <3>1. E = <<opening>> \o told \o beside
      BY <2>1 DEF ToConversationEvents
    <3>2. Good(opening)
      <4>1. opening.kind = "NEW_GOAL" /\ opening.facts = <<>> /\ opening.goal = i.goal
        BY EventIs
      <4>2. ~Clarifies(i) => i.goal # "none"
        BY <2>1 DEF Clarifies
      <4> HIDE DEF opening
      <4> QED BY <1>1, <2>1, <4>1, <4>2 DEF EventShaped, EventKnown, GoalsKnown
    <3>3. Good(EventOf("COMPLEMENT", i.facts))
      <4> DEFINE e == EventOf("COMPLEMENT", i.facts)
      <4>1. e.kind = "COMPLEMENT" /\ e.facts = i.facts
        BY EventIs
      <4> HIDE DEF e
      <4>2. Good(e)
        BY <1>1, <4>1 DEF EventShaped, EventKnown
      <4> QED BY <4>2 DEF e
    <3>4. ASSUME NEW k \in DOMAIN i.secondary
          PROVE  Good(beside[k])
      <4> DEFINE e == [EventOf("PARALLEL_QUESTION", <<>>) EXCEPT !.goal = i.secondary[k].goal]
      <4>1. e.kind = "PARALLEL_QUESTION" /\ e.facts = <<>> /\ e.goal = i.secondary[k].goal
        BY EventIs
      <4>2. beside[k] = e
        OBVIOUS
      <4> HIDE DEF e, beside
      <4>3. Good(e)
        BY <1>1, <4>1 DEF EventShaped, EventKnown, GoalsKnown
      <4> HIDE DEF Good
      <4> QED BY <4>2, <4>3
    <3> HIDE DEF Good
    <3>5. All(<<opening>>)
      <4> HIDE DEF opening
      <4> QED BY <3>2, OneIs
    <3>6. All(told)
      BY <3>3, OneIs
    <3>7. All(beside)
      <4>1. IsSeq(beside)
        BY <1>1, MapIsSeq
      <4>2. DOMAIN beside = DOMAIN i.secondary
        OBVIOUS
      <4> HIDE DEF beside
      <4> QED BY <3>4, <4>1, <4>2
    <3>8. ASSUME NEW p, NEW q, All(p), All(q)
          PROVE  All(p \o q)
      <4> DEFINE S == {p[k] : k \in DOMAIN p} \cup {q[k] : k \in DOMAIN q}
      <4>1. IsSeq(p) /\ IsSeq(q) /\ \A e \in S : Good(e)
        BY <3>8
      <4>2. (\A k \in DOMAIN p : p[k] \in S) /\ (\A k \in DOMAIN q : q[k] \in S)
        OBVIOUS
      <4> HIDE DEF S
      <4>3. IsSeq(p \o q) /\ \A k \in DOMAIN (p \o q) : (p \o q)[k] \in S
        BY <4>1, <4>2, ConcatIs
      <4> QED BY <4>1, <4>3
    <3> HIDE DEF All, opening, told, beside, E
    <3>9. All(<<opening>> \o told)
      BY <3>5, <3>6, <3>8
    <3>10. All((<<opening>> \o told) \o beside)
      BY <3>7, <3>8, <3>9
    <3> QED BY <3>1, <3>10
  <2>2. CASE i.event \in {"PARALLEL_QUESTION", "RECLASSIFICATION"}
    <3> DEFINE e == [EventOf(i.event, i.facts) EXCEPT !.goal = i.goal]
    <3>1. E = <<e>>
      BY <2>2 DEF ToConversationEvents
    <3>2. e.kind = i.event /\ e.facts = i.facts /\ e.goal = i.goal
      BY EventIs
    <3>3. ~Clarifies(i) => i.goal # "none"
      BY <2>2 DEF Clarifies
    <3> HIDE DEF e
    <3>4. Good(e)
      BY <1>1, <2>2, <3>2, <3>3 DEF EventShaped, EventKnown, GoalsKnown
    <3> HIDE DEF Good
    <3> QED BY <3>1, <3>4, OneIs
  <2>3. CASE i.event = "COMPLAINT"
    <3> DEFINE ofComplaint == {f \in ToSet(i.facts) : f.code \in ToSet(GoalDef[Complaint].required)}
               ofBase == ToSet(i.facts) \ ofComplaint
               facts == Among(i.facts, ofComplaint)
               base == IF i.goal = "none" THEN DefaultBase ELSE i.goal
               baseFacts == Among(i.facts, ofBase)
               e == [[EventOf("COMPLAINT", facts) EXCEPT !.goal = i.goal, !.ref = CaseRef(s, i)]
                          EXCEPT !.base = base, !.baseFacts = baseFacts]
    <3>1. E = <<e>>
      BY <2>3 DEF ToConversationEvents
    <3>2. e.kind = "COMPLAINT" /\ e.facts = facts /\ e.base = base /\ e.baseFacts = baseFacts
      BY EventIs
    <3>3. IsSeq(facts) /\ IsSeq(baseFacts)
      BY <1>1, AmongIs
    <3> HIDE DEF e, facts, baseFacts
    <3>4. Good(e)
      BY <1>1, <2>3, <3>2, <3>3 DEF EventShaped, EventKnown, GoalsKnown
    <3> HIDE DEF Good
    <3> QED BY <3>1, <3>4, OneIs
  <2>4. CASE i.event \notin {"NEW_GOAL", "PARALLEL_QUESTION", "RECLASSIFICATION", "COMPLAINT"}
    <3> DEFINE e == [EventOf(i.event, i.facts) EXCEPT !.closing = i.closing]
    <3>1. E = <<e>>
      BY <2>4 DEF ToConversationEvents
    <3>2. e.kind = i.event /\ e.facts = i.facts
      BY EventIs
    <3> HIDE DEF e
    <3>3. Good(e)
      BY <1>1, <2>4, <3>2 DEF EventShaped, EventKnown
    <3> HIDE DEF Good
    <3> QED BY <3>1, <3>3, OneIs
  <2> QED BY <2>1, <2>2, <2>3, <2>4
<1> HIDE DEF E
<1>4. IsSeq(E) /\ \A k \in DOMAIN E : Good(E[k])
    BY <1>3
<1> QED BY <1>2, <1>4 DEF E

LEMMA PlanningIs ==
    ASSUME NEW env, NEW s, NEW events
    PROVE  ApplyAll(s, events) = Planning!Along(env, s, events)
BY Zenon DEF ApplyAll, Planning!Along, PlanningOp, FoldLeft, Max, Planning!Greatest,
             MapThenFoldSet, Planning!MapThenFoldSet

LEMMA ApplyOne ==
    ASSUME NEW s, s.error = "none", NEW e
    PROVE  ApplyAll(s, <<e>>) = React(s, e)
<1> DEFINE env == [s |-> s]
<1>1. ApplyAll(s, <<e>>) = Planning!Along(env, s, <<e>>)
    BY PlanningIs
<1> HIDE DEF env
<1>2. Planning!Along(env, s, <<e>>) = PlanningOp(env, s, e)
    BY Counting, Planning!AlongOf1 DEF Planning!Inductive
<1> QED BY <1>1, <1>2 DEF PlanningOp

\* Events that settle, one after the other.
LEMMA ApplyAllAdvanced ==
    ASSUME Reduces, NEW s, Shaped(s), NEW E, IsSeq(E),
           \A k \in DOMAIN E : EventShaped(E[k]) /\ E[k].kind \notin {"SOCIAL", "HUMAN_REQUEST"}
    PROVE  Advanced(s, ApplyAll(s, E), \A k \in DOMAIN E : EventKnown(E[k]))
<1> DEFINE env == [s |-> s, q |-> E]
<1>1. env.s = s /\ env.q = E
    OBVIOUS
<1> HIDE DEF env
<1>2. ApplyAll(s, E) = Planning!Along(env, s, E)
    BY PlanningIs
<1>3. Len(E) \in Nat /\ DOMAIN E = 1 .. Len(E)
    BY SeqIs
<1>4. AdvancedOf(env, 0, s)
    BY <1>1, OnwardIs DEF AdvancedOf, Advanced
<1>5. ASSUME NEW k \in DOMAIN E, NEW t, AdvancedOf(env, k - 1, t)
      PROVE  AdvancedOf(env, k, PlanningOp(env, t, E[k]))
  <2> DEFINE u == ApplyEvent(t, E[k])
             all == \A j \in DOMAIN env.q : EventKnown(env.q[j])
  <2>1. Advanced(s, t, all) /\ Shaped(t)
    BY <1>1, <1>5 DEF AdvancedOf, Advanced
  <2>2. Moved(Numbered(t), u, EventKnown(E[k]))
    BY <2>1, ApplyEventMoved
  <2>3. /\ Numbered(t).seq = t.seq + 1 /\ Numbered(t).handoff = t.handoff
        /\ Codes(Numbered(t)) = Codes(t)
    BY <2>1, NumberedIs DEF StateFields
  <2>4. all => EventKnown(E[k])
    BY <1>1
  <2> HIDE DEF u, all
  <2>5. Advanced(s, u, all)
    <3>1. Numbered(t).goals = t.goals /\ Numbered(t).facts = t.facts
      BY <2>1, NumberedIs DEF StateFields
    <3>2. Onward(t, Numbered(t)) /\ Onward(Numbered(t), u)
      BY <2>2, <3>1, OnwardIs DEF Moved
    <3>3. Onward(s, u)
      BY <2>1, <3>2, OnwardIs DEF Advanced
    <3> QED BY <2>1, <2>2, <2>3, <2>4, <3>3 DEF Advanced, Moved, Kept, Within
  <2>6. PlanningOp(env, t, E[k]) \in {t, u}
    BY DEF PlanningOp, Reduces, u
  <2> QED BY <1>1, <2>1, <2>5, <2>6 DEF AdvancedOf, all
<1>6. \A k \in 1 .. Len(E) : \A t :
         AdvancedOf(env, k - 1, t) => AdvancedOf(env, k, PlanningOp(env, t, E[k]))
    BY <1>3, <1>5
<1>7. AdvancedOf(env, Len(E), Planning!Along(env, s, E))
    BY <1>3, <1>4, <1>6, Counting, Planning!FoldLeftRule DEF Planning!Inductive
<1> QED BY <1>1, <1>2, <1>7 DEF AdvancedOf

\* What the guard and the matrix leave of an interpretation.
LEMMA GuardIs ==
    ASSUME NEW i, Heeded(i)
    PROVE  LET g == GuardInterpretation(i) IN
           Heeded(g) /\ \A f \in InterpretationFields \ {"facts", "clarify"} : g[f] = i[f]
<1> DEFINE kept == Among(i.facts, {f \in ToSet(i.facts) : Acceptable(f)})
           g == GuardInterpretation(i)
<1>1. IsSeq(kept)
    BY AmongIs DEF Heeded
<1>2. g = [i EXCEPT !.facts = kept, !.clarify = @ \/ (i.facts # <<>> /\ kept = <<>>)]
    BY DEF GuardInterpretation
<1> HIDE DEF kept, g
<1>3. /\ DOMAIN g = DOMAIN i /\ g.facts = kept
      /\ \A f \in InterpretationFields \ {"facts", "clarify"} : g[f] = i[f]
    BY <1>2 DEF Heeded, InterpretationFields
<1>4. IsSeq(g.facts) /\ IsSeq(g.secondary)
    BY <1>1, <1>3 DEF Heeded, InterpretationFields
<1> QED BY <1>3, <1>4 DEF Heeded, g

LEMMA ClarifyIs ==
    ASSUME NEW i, Heeded(i), NEW b
    PROVE  LET a == [i EXCEPT !.clarify = b] IN
           Heeded(a) /\ \A f \in InterpretationFields \ {"clarify"} : a[f] = i[f]
BY DEF Heeded, InterpretationFields

LEMMA PlannedIs ==
    ASSUME Reduces, NEW s, Shaped(s), s.error = "none", s.seq \in Nat, NEW i, Heeded(i)
    PROVE  LET t == Planned(s, i).state IN
           /\ Shaped(t) /\ t.error = "none" /\ t.seq \in Nat /\ Onward(s, t)
           /\ GoalsKnown(i) => Codes(t) \subseteq Codes(s) \cup DOMAIN GoalDef
           /\ i.event # "HUMAN_REQUEST" => t.handoff = s.handoff
           /\ i.event \in {"none", "SOCIAL", "HUMAN_REQUEST"} =>
                 t.goals = s.goals /\ t.facts = s.facts
           /\ i.event = "HUMAN_REQUEST" /\ ~(i.explained \/ i.restart \/ i.failed \/ i.status) =>
                 t.handoff # NoHandoff
<1> DEFINE g == GuardInterpretation(i)
           a == [g EXCEPT !.clarify = ~ArbitrateConfidence(g)]
           E == ToConversationEvents(s, a)
           social == EventOf("SOCIAL", <<>>)
           next == IF i.status THEN React(s, social) ELSE ApplyAll(s, E)
           quiet(t) == t.goals = s.goals /\ t.facts = s.facts
           Fine(t) == /\ Shaped(t) /\ t.seq \in Nat /\ Onward(s, t)
                      /\ GoalsKnown(i) /\ (i.status \/ ~Clarifies(a)) => Codes(t) \subseteq Codes(s) \cup DOMAIN GoalDef
                      /\ i.event # "HUMAN_REQUEST" => t.handoff = s.handoff
                      /\ i.event \in {"SOCIAL", "HUMAN_REQUEST"} => quiet(t)
<1>1. Heeded(a) /\ a.event = i.event /\ a.goal = i.goal /\ a.secondary = i.secondary
  <2>1. Heeded(g) /\ \A f \in InterpretationFields \ {"facts", "clarify"} : g[f] = i[f]
    BY GuardIs
  <2> HIDE DEF g
  <2>2. Heeded(a) /\ \A f \in InterpretationFields \ {"clarify"} : a[f] = g[f]
    BY <2>1, ClarifyIs
  <2> HIDE DEF a
  <2> QED BY <2>1, <2>2 DEF InterpretationFields
<1>2. GoalsKnown(i) <=> GoalsKnown(a)
    BY <1>1 DEF GoalsKnown
<1> HIDE DEF a
<1>3. /\ IsSeq(E) /\ \A k \in DOMAIN E : EventShaped(E[k])
      /\ GoalsKnown(a) /\ ~Clarifies(a) => \A k \in DOMAIN E : EventKnown(E[k])
      /\ a.event \notin {"SOCIAL", "HUMAN_REQUEST"} =>
            \A k \in DOMAIN E : E[k].kind \notin {"SOCIAL", "HUMAN_REQUEST"}
      /\ a.event \in {"SOCIAL", "HUMAN_REQUEST"} =>
            E = <<[EventOf(a.event, a.facts) EXCEPT !.closing = a.closing]>>
    BY <1>1, EventsAre
<1> HIDE DEF E
<1>4. ASSUME NEW e, e.kind \in {"SOCIAL", "HUMAN_REQUEST"}
      PROVE  LET t == React(s, e) IN
             /\ Shaped(t) /\ t.seq \in Nat /\ t.goals = s.goals /\ t.facts = s.facts
             /\ t.error = "none"
             /\ e.kind = "SOCIAL" => t.handoff = s.handoff
             /\ e.kind = "HUMAN_REQUEST" => t.handoff # NoHandoff
  <2> DEFINE t == ApplyEvent(s, e)
  <2>1. /\ Shaped(t) /\ t.seq = s.seq + 1 /\ t.error = "none"
        /\ \A f \in {"goals", "facts", "actions"} : t[f] = s[f]
        /\ e.kind = "SOCIAL" => t.handoff = s.handoff
        /\ e.kind = "HUMAN_REQUEST" => /\ t.handoff.at = s.seq + 1
                                       /\ t.question = NoQuestion
    BY <1>4, ApplyEventQuiet
  <2>2. React(s, e) = t
    BY DEF Reduces
  <2>3. NoHandoff.at = 0
    BY DEF NoHandoff
  <2> HIDE DEF t
  <2> QED BY <2>1, <2>2, <2>3
<1>5. ASSUME i.status
      PROVE  Fine(next) /\ quiet(next)
  <2>1. social.kind = "SOCIAL"
    BY EventIs
  <2> HIDE DEF social
  <2>2. Shaped(next) /\ next.seq \in Nat /\ quiet(next) /\ next.handoff = s.handoff
    BY <1>4, <1>5, <2>1
  <2> HIDE DEF next
  <2> QED BY <2>2, OnwardIs DEF Codes
<1>6. ASSUME ~i.status, i.event \in {"SOCIAL", "HUMAN_REQUEST"}
      PROVE  Fine(next) /\ (i.event = "HUMAN_REQUEST" => next.error = "none" /\ next.handoff # NoHandoff)
  <2> DEFINE e == [EventOf(a.event, a.facts) EXCEPT !.closing = a.closing]
  <2>1. e.kind = i.event
    BY <1>1, EventIs
  <2>2. E = <<e>>
    BY <1>1, <1>3, <1>6
  <2> HIDE DEF e
  <2>3. next = React(s, e)
    BY <1>6, <2>2, ApplyOne
  <2> HIDE DEF next
  <2>4. /\ Shaped(next) /\ next.seq \in Nat /\ quiet(next) /\ next.error = "none"
        /\ i.event = "SOCIAL" => next.handoff = s.handoff
        /\ i.event = "HUMAN_REQUEST" => next.handoff # NoHandoff
    BY <1>4, <1>6, <2>1, <2>3
  <2> QED BY <1>6, <2>4, OnwardIs DEF Codes
<1>7. ASSUME ~i.status, i.event \notin {"SOCIAL", "HUMAN_REQUEST"}
      PROVE  Fine(next)
  <2>1. Advanced(s, next, \A k \in DOMAIN E : EventKnown(E[k]))
    BY <1>1, <1>3, <1>7, ApplyAllAdvanced
  <2> HIDE DEF next
  <2> QED BY <1>2, <1>3, <1>7, <2>1 DEF Advanced
<1>8. \/ Planned(s, i).state = s
      \/ Planned(s, i).state = next /\ next.error = "none" /\ (~i.status => ~Clarifies(a))
    BY DEF Planned, a, E, next
<1>9. ASSUME i.event = "HUMAN_REQUEST", ~(i.explained \/ i.restart \/ i.failed \/ i.status)
      PROVE  Planned(s, i).state = IF next.error = "none" THEN next ELSE s
  <2>1. ~Clarifies(a)
    BY <1>1, <1>9 DEF Clarifies
  <2> QED BY <1>9, <2>1 DEF Planned, a, E, next
<1>10. i.event = "none" => Clarifies(a)
    BY <1>1 DEF Clarifies
<1> DEFINE t == Planned(s, i).state
<1> HIDE DEF next, t
<1>11. t = s \/ (t = next /\ next.error = "none" /\ (~i.status => ~Clarifies(a)))
    BY <1>8 DEF t
<1>12. ASSUME i.event = "HUMAN_REQUEST", ~(i.explained \/ i.restart \/ i.failed \/ i.status)
       PROVE  t.handoff # NoHandoff
    BY <1>6, <1>9, <1>12 DEF t
<1>13. Fine(next)
    BY <1>5, <1>6, <1>7
<1>14. CASE t = s
    BY <1>12, <1>14, OnwardIs DEF t
<1>15. CASE t = next /\ next.error = "none" /\ (~i.status => ~Clarifies(a))
  <2>1. i.event = "none" => quiet(next)
    BY <1>5, <1>10, <1>15
  <2> QED BY <1>12, <1>13, <1>15, <2>1 DEF t
<1> QED BY <1>11, <1>14, <1>15

-----------------------------------------------------------------------------
(* What a goal misses. *)

\* the fold of MissingFacts
AddingOp(env, out, i) ==
    LET def == GoalDef[env.s.goals[env.g].code]
        codes == def.required \o def.completion
        late == i > Len(def.required)
    IN IF (late /\ out # <<>>) \/ ~IsRelevant(env.s, codes[i], env.g) THEN out
       ELSE out \o GapAt(env.s, env.g, codes[i], late, ActiveFact(env.s, codes[i], env.g))
RankedOf(env, done, out) == IsSeq(out) /\ \A k \in DOMAIN out : out[k].rank \in Nat
Adding == INSTANCE FoldRules WITH Op <- AddingOp, P <- RankedOf

Listed(s, g) == GoalDef[s.goals[g].code].required \o GoalDef[s.goals[g].code].completion
InOrder(q) == [i \in 1 .. Len(q) |-> i]

LEMMA MissingIs ==
    ASSUME NEW e
    PROVE  MissingFacts(e.s, e.g) = Adding!Along(e, <<>>, InOrder(Listed(e.s, e.g)))
BY Zenon DEF MissingFacts, Listed, InOrder, Adding!Along, AddingOp, FoldLeft, Max, Adding!Greatest,
             MapThenFoldSet, Adding!MapThenFoldSet

\* What a goal lists are facts of the catalogue.
LEMMA ListedIs ==
    ASSUME NEW s, NEW g, s.goals[g].code \in DOMAIN GoalDef
    PROVE  LET q == Listed(s, g) IN
           /\ Len(q) \in Nat /\ DOMAIN q = 1 .. Len(q) /\ DOMAIN InOrder(q) = 1 .. Len(q)
           /\ \A i \in 1 .. Len(q) : /\ InOrder(q)[i] = i /\ q[i] \in DOMAIN FactDef
                                     /\ FactDef[q[i]].rank \in Nat
<1> DEFINE q == Listed(s, g)
           def == GoalDef[s.goals[g].code]
<1>1. def.required \in Seq(DOMAIN FactDef) /\ def.completion \in Seq(DOMAIN FactDef)
    BY CatalogAssumption DEF CatalogAssumption, CatalogIsShaped
<1>2. q \in Seq(DOMAIN FactDef)
    BY <1>1 DEF Listed
<1>3. \A f \in DOMAIN FactDef : FactDef[f].rank \in Nat
    BY CatalogAssumption DEF CatalogAssumption, CatalogIsShaped
<1> HIDE DEF q
<1>4. Len(q) \in Nat /\ DOMAIN q = 1 .. Len(q) /\ \A i \in 1 .. Len(q) : q[i] \in DOMAIN FactDef
    BY <1>2
<1> QED BY <1>3, <1>4 DEF q, InOrder

LEMMA GapIs ==
    ASSUME NEW s, NEW g, NEW code, FactDef[code].rank \in Nat, NEW late, NEW i
    PROVE  LET q == GapAt(s, g, code, late, i) IN
           IsSeq(q) /\ \A k \in DOMAIN q : q[k].rank \in Nat
<1> DEFINE q == GapAt(s, g, code, late, i)
<1>1. \/ q = <<>>
      \/ \E rank \in Nat : \E a, b :
            q = <<[code |-> code, rank |-> rank, conflicting |-> a, authoritative |-> b]>>
  <2>1. BlockingRank \in Nat
    BY DEF BlockingRank
  <2> QED BY <2>1 DEF GapAt
<1>2. \A r : IsSeq(<<r>>) /\ DOMAIN <<r>> = {1} /\ <<r>>[1] = r
    BY OneIs
<1> HIDE DEF q
<1>3. q = <<>> => IsSeq(q) /\ \A k \in DOMAIN q : q[k].rank \in Nat
    BY OneIs
<1>4. ASSUME NEW rank \in Nat, NEW a, NEW b,
             q = <<[code |-> code, rank |-> rank, conflicting |-> a, authoritative |-> b]>>
      PROVE  IsSeq(q) /\ \A k \in DOMAIN q : q[k].rank \in Nat
  <2> DEFINE r == [code |-> code, rank |-> rank, conflicting |-> a, authoritative |-> b]
  <2>1. r.rank \in Nat
    OBVIOUS
  <2> HIDE DEF r
  <2>2. q = <<r>>
    BY <1>4 DEF r
  <2> QED BY <1>2, <2>1, <2>2
<1> QED BY <1>1, <1>3, <1>4 DEF q

\* What a goal misses is a list, in the order of its ranks.
LEMMA MissingRanked ==
    ASSUME NEW s, NEW g, s.goals[g].code \in DOMAIN GoalDef
    PROVE  LET m == MissingFacts(s, g) IN IsSeq(m) /\ \A k \in DOMAIN m : m[k].rank \in Nat
<1> DEFINE env == [s |-> s, g |-> g]
           q == Listed(s, g)
           seq == InOrder(q)
<1>1. env.s = s /\ env.g = g
    OBVIOUS
<1> HIDE DEF env
<1>2. MissingFacts(s, g) = Adding!Along(env, <<>>, seq)
  <2>1. MissingFacts(env.s, env.g) = Adding!Along(env, <<>>, InOrder(Listed(env.s, env.g)))
    BY MissingIs
  <2> QED BY <1>1, <2>1
<1>3. /\ Len(q) \in Nat /\ DOMAIN seq = 1 .. Len(q)
      /\ \A i \in 1 .. Len(q) : seq[i] = i /\ FactDef[q[i]].rank \in Nat
    BY ListedIs
<1>4. RankedOf(env, 0, <<>>)
    BY OneIs DEF RankedOf
<1> HIDE DEF seq
<1>5. ASSUME NEW k, NEW l, NEW i \in 1 .. Len(q), NEW out, RankedOf(env, k, out)
      PROVE  RankedOf(env, l, AddingOp(env, out, i))
  <2> DEFINE late == i > Len(GoalDef[s.goals[g].code].required)
             gap == GapAt(s, g, q[i], late, ActiveFact(s, q[i], g))
             both == out \o gap
             S == {out[j] : j \in DOMAIN out} \cup {gap[j] : j \in DOMAIN gap}
  <2>1. AddingOp(env, out, i) \in {out, both}
    BY <1>1, Zenon DEF AddingOp, Listed
  <2>2. IsSeq(gap) /\ \A j \in DOMAIN gap : gap[j].rank \in Nat
    BY <1>3, GapIs
  <2>3. IsSeq(out) /\ \A j \in DOMAIN out : out[j].rank \in Nat
    BY <1>5 DEF RankedOf
  <2> HIDE DEF gap
  <2>4. /\ \A x \in S : x.rank \in Nat
        /\ (\A j \in DOMAIN out : out[j] \in S) /\ (\A j \in DOMAIN gap : gap[j] \in S)
    BY <2>2, <2>3
  <2> HIDE DEF S
  <2>5. IsSeq(both) /\ \A j \in DOMAIN both : both[j] \in S
    BY <2>2, <2>3, <2>4, ConcatIs
  <2> HIDE DEF both
  <2> QED BY <2>1, <2>3, <2>4, <2>5 DEF RankedOf
<1> HIDE DEF q
<1>6. \A k \in 1 .. Len(q) : \A t :
         RankedOf(env, k - 1, t) => RankedOf(env, k, AddingOp(env, t, seq[k]))
    BY <1>3, <1>5
<1>7. RankedOf(env, Len(q), Adding!Along(env, <<>>, seq))
    BY <1>3, <1>4, <1>6, Counting, Adding!FoldLeftRule DEF Adding!Inductive
<1> QED BY <1>2, <1>7 DEF RankedOf

\* It is the same in two states that tell the same facts of the same goal.
LEMMA MissingAgrees ==
    ASSUME NEW s, NEW t, NEW g, t.facts = s.facts,
           t.goals[g].code = s.goals[g].code, t.goals[g].case = s.goals[g].case
    PROVE  MissingFacts(t, g) = MissingFacts(s, g)
<1> DEFINE e1 == [s |-> s, g |-> g]
           e2 == [s |-> t, g |-> g]
           q == Listed(s, g)
           seq == InOrder(q)
<1>1. e1.s = s /\ e1.g = g /\ e2.s = t /\ e2.g = g
    OBVIOUS
<1> HIDE DEF e1, e2
<1>2. MissingFacts(s, g) = Adding!Along(e1, <<>>, seq)
  <2>1. MissingFacts(e1.s, e1.g) = Adding!Along(e1, <<>>, InOrder(Listed(e1.s, e1.g)))
    BY MissingIs
  <2> QED BY <1>1, <2>1
<1>3. MissingFacts(t, g) = Adding!Along(e2, <<>>, seq)
  <2>1. MissingFacts(e2.s, e2.g) = Adding!Along(e2, <<>>, InOrder(Listed(e2.s, e2.g)))
    BY MissingIs
  <2>2. Listed(t, g) = q
    BY DEF Listed
  <2> QED BY <1>1, <2>1, <2>2
<1>4. \A c : ScopeOwner(t, c, g) = ScopeOwner(s, c, g)
    BY DEF ScopeOwner
<1>5. \A c : ActiveFact(t, c, g) = ActiveFact(s, c, g)
    BY <1>4 DEF ActiveFact, ActiveFacts
<1>6. \A C : ConditionsHold(t, C, g) = ConditionsHold(s, C, g)
    BY <1>5 DEF ConditionsHold, ConfirmedIn
<1>7. \A c, late, i : GapAt(t, g, c, late, i) = GapAt(s, g, c, late, i)
    BY <1>6 DEF GapAt
<1>8. \A c : IsRelevant(t, c, g) = IsRelevant(s, c, g)
    BY <1>6 DEF IsRelevant
<1>9. ASSUME NEW out, NEW i
      PROVE  AddingOp(e1, out, i) = AddingOp(e2, out, i)
  <2> DEFINE c == q[i]
             late == i > Len(GoalDef[s.goals[g].code].required)
  <2>1. AddingOp(e1, out, i) = IF (late /\ out # <<>>) \/ ~IsRelevant(s, c, g) THEN out
                               ELSE out \o GapAt(s, g, c, late, ActiveFact(s, c, g))
    BY <1>1, Zenon DEF AddingOp, Listed
  <2>2. AddingOp(e2, out, i) = IF (late /\ out # <<>>) \/ ~IsRelevant(t, c, g) THEN out
                               ELSE out \o GapAt(t, g, c, late, ActiveFact(t, c, g))
    BY <1>1, Zenon DEF AddingOp, Listed
  <2> HIDE DEF c, late
  <2> QED BY <1>5, <1>7, <1>8, <2>1, <2>2
<1> HIDE DEF q, seq
<1>10. Adding!Along(e1, <<>>, seq) = Adding!Along(e2, <<>>, seq)
    BY <1>9, Adding!FoldLeftAgrees
<1> QED BY <1>2, <1>3, <1>10

\* The gap looked at first is one of those looked at.
LEMMA BestIs ==
    ASSUME NEW m, IsSeq(m), \A k \in DOMAIN m : m[k].rank \in Nat,
           NEW D, D \subseteq DOMAIN m, D # {}
    PROVE  \E i \in D : Best(m, D) = m[i]
<1> DEFINE conflicts == {i \in D : m[i].conflicting}
           first == {i \in D : \A j \in D : m[i].rank <= m[j].rank}
           S == IF conflicts # {} THEN conflicts ELSE first
<1>1. D \subseteq Nat
    BY SeqIs
<1>2. first # {}
  <2> DEFINE R == {m[i].rank : i \in D}
  <2>1. R \subseteq Nat /\ R # {}
    OBVIOUS
  <2>2. Min(R) \in R /\ \A y \in R : Min(R) <= y
    <3> HIDE DEF R
    <3> QED BY <2>1, SmallestIs
  <2>3. PICK i \in D : m[i].rank = Min(R)
    BY <2>2
  <2>4. \A j \in D : m[j].rank \in R
    OBVIOUS
  <2> HIDE DEF R
  <2> QED BY <2>2, <2>3, <2>4
<1>3. S \subseteq D /\ S # {}
    BY <1>2
<1>4. Best(m, D) = m[Min(S)]
    BY DEF Best
<1> HIDE DEF S
<1>5. Min(S) \in S
    BY <1>1, <1>3, SmallestIs
<1> QED BY <1>3, <1>4, <1>5

\* The initial state has the shape.
LEMMA InitShaped == Shaped(InitState) /\ InitState.error = "none" /\ InitState.seq \in Nat
<1>1. /\ DOMAIN InitState = StateFields /\ InitState.goals = <<>> /\ InitState.facts = <<>>
      /\ InitState.parked = <<>> /\ InitState.actions = {}
      /\ InitState.error = "none" /\ InitState.seq = 0
    BY DEF InitState, StateFields
<1>2. IsSeq(<<>>) /\ DOMAIN <<>> = {}
    BY OneIs
<1> QED BY <1>1, <1>2 DEF Shaped
=============================================================================
