--------------------------- MODULE Dialogue_proofs ---------------------------
(***************************************************************************)
(* The conversation between its citizen and its operators, for every       *)
(* catalogue of the shape ConversationEngine assumes: a question put to    *)
(* the citizen can be settled by an answer, a goal that waits can be       *)
(* helped, and what the team has to look at has a service request.  The    *)
(* three hold together, and of every state of the reducer a step passes    *)
(* through: what a turn, a signal and a return to the bot have in common   *)
(* is that they end in the phase that settles, then in the one that asks.  *)
(***************************************************************************)
EXTENDS Dialogue, MotorV2, ConversationEngine_proofs
LOCAL INSTANCE SequencesExt

\* what a goal waits for is something it misses, that an operator can decide
Helped(s, g) ==
    s.goals[g].status = "WAITING" =>
        \E a \in s.actions : /\ a.goal = g
                             /\ \E k \in DOMAIN MissingFacts(s, g) :
                                   Resolution[MissingFacts(s, g)[k].code] = a.action
Settled(s) == \A g \in DOMAIN s.goals : Helped(s, g)
Asked(s) == s.question # NoQuestion => QuestionStillValid(s, s.question)
Sound(s) == Settled(s) /\ Asked(s)
Known(s) == Shaped(s) /\ Codes(s) \subseteq DOMAIN GoalDef

\* the goals synchronised so far can be helped
HelpedOf(env, done, t) ==
    Known(t) /\ DOMAIN t.goals = DOMAIN env.s.goals /\ \A g \in 1 .. done : Helped(t, g)
Helping == INSTANCE FoldRules WITH Op <- SyncingOp, P <- HelpedOf

\* a round that changed something is followed by another one
RestingOf(env, done, t) == Known(t) /\ (t.changed \/ Settled(t))
Resting == INSTANCE FoldRules WITH Op <- SettlingOp, P <- RestingOf

\* an event that fails is not the last word
SoundOf(env, done, t) == Known(t) /\ (t.error = "none" => Sound(t))
Sounding == INSTANCE FoldRules WITH Op <- PlanningOp, P <- SoundOf

\* the goals visited so far have the request they are due
Listing(rs) == IsSeq(rs) /\ \A i \in DOMAIN rs : "goal" \in DOMAIN rs[i]
VisitingOp(env, out, g) ==
    CASE ~Ready(env.s, g) -> out
      [] Ready(env.s, g) /\ RequestOf(out, g) = {} ->
            Append(out, Refreshed(env.s, CreateSolicitacao(env.s, g)))
      [] OTHER -> [i \in DOMAIN out |-> IF out[i].goal = g THEN Refreshed(env.s, out[i])
                                        ELSE out[i]]
DueOf(env, done, out) ==
    Listing(out) /\ \A g \in 1 .. done : Ready(env.s, g) => RequestOf(out, g) # {}
Visiting == INSTANCE FoldRules WITH Op <- VisitingOp, P <- DueOf

-----------------------------------------------------------------------------
(* The question.                                                           *)

LEMMA KnownWithin ==
    ASSUME NEW s, Known(s), NEW t, Within(s, t)
    PROVE  Known(t)
BY DEF Known, Within

LEMMA ValidIs ==
    ASSUME NEW s, NEW q
    PROVE  QuestionStillValid(s, q) <=>
             /\ s.goals[q.goal].status \in {"ACTIVE", "WAITING"}
             /\ \E k \in DOMAIN MissingFacts(s, q.goal) :
                   /\ MissingFacts(s, q.goal)[k].code = q.fact
                   /\ Askable(MissingFacts(s, q.goal)[k])
BY DEF QuestionStillValid, ToSet

\* What is missing and what may be asked depend on the goals and the facts alone.
LEMMA ValidAgrees ==
    ASSUME NEW s, NEW t, t.goals = s.goals, t.facts = s.facts
    PROVE  /\ \A g : MissingFacts(t, g) = MissingFacts(s, g)
           /\ \A q : QuestionStillValid(t, q) <=> QuestionStillValid(s, q)
<1>1. \A g : MissingFacts(t, g) = MissingFacts(s, g)
    BY MissingAgrees
<1> QED BY <1>1, ValidIs

LEMMA AskedCalm ==
    ASSUME NEW s, NEW t, Calm(s, t)
    PROVE  /\ \A q : QuestionStillValid(t, q) <=> QuestionStillValid(s, q)
           /\ Shaped(t) /\ t.goals = s.goals /\ t.facts = s.facts /\ t.actions = s.actions
           /\ t.error = s.error
BY ValidAgrees DEF Calm, StateFields

\* The next question is one an answer settles.
LEMMA NextIsValid ==
    ASSUME NEW s, Known(s), NEW g \in {0} \cup DOMAIN s.goals,
           g # 0 => s.goals[g].status \in {"ACTIVE", "WAITING"},
           NextBestQuestion(s, g) # NoQuestion
    PROVE  QuestionStillValid(s, NextBestQuestion(s, g))
<1> DEFINE m == MissingFacts(s, g)
           D == {i \in DOMAIN m : Askable(m[i])}
           q == NextBestQuestion(s, g)
<1>1. g # 0 /\ g \in DOMAIN s.goals
    BY DEF NextBestQuestion
<1>2. s.goals[g].code \in DOMAIN GoalDef
    BY <1>1 DEF Known, Codes
<1>3. IsSeq(m) /\ \A k \in DOMAIN m : m[k].rank \in Nat
    BY <1>2, MissingRanked
<1>4. q = QuestionAmong(s, g, m, D)
    BY <1>1 DEF NextBestQuestion, BestQuestion
<1> HIDE DEF m
<1>5. D # {}
    BY <1>4 DEF QuestionAmong
<1>6. PICK i \in D : Best(m, D) = m[i]
    BY <1>3, <1>5, BestIs
<1>7. q.fact = m[i].code /\ q.goal = g
    BY <1>4, <1>5, <1>6 DEF QuestionAmong
<1> HIDE DEF q
<1>8. i \in DOMAIN m /\ Askable(m[i])
    OBVIOUS
<1>9. QuestionStillValid(s, q)
    BY <1>1, <1>7, <1>8, ValidIs DEF m
<1> QED BY <1>9 DEF q

LEMMA ParkAsks ==
    ASSUME NEW s, Shaped(s)
    PROVE  Park(s).question = NoQuestion
BY DEF Park, Shaped, StateFields

LEMMA SetAsks ==
    ASSUME NEW s, Shaped(s), NEW q
    PROVE  [s EXCEPT !.question = q].question = q
BY DEF Shaped, StateFields

LEMMA KeepAsks ==
    ASSUME NEW s, Shaped(s), NEW focus
    PROVE  Asked(KeepQuestion(s, focus))
<1> DEFINE n == [s EXCEPT !.question = NoQuestion]
<1>1. n.question = NoQuestion /\ Park(s).question = NoQuestion
    BY ParkAsks, SetAsks
<1> HIDE DEF n
<1>2. \/ KeepQuestion(s, focus) = s /\ Asked(s)
      \/ KeepQuestion(s, focus) \in {n, Park(s)}
    BY DEF KeepQuestion, n, Asked
<1> QED BY <1>1, <1>2 DEF Asked

LEMMA TakeAsks ==
    ASSUME NEW s, Shaped(s), Asked(s), NEW c, c # NoQuestion => QuestionStillValid(s, c)
    PROVE  Asked(TakeQuestion(s, c))
<1> DEFINE t == [Park(s) EXCEPT !.question = c]
<1>1. Calm(s, Park(s)) /\ Shaped(Park(s))
    BY ParkCalm DEF Calm
<1>2. Calm(Park(s), t) /\ t.question = c
    BY <1>1, QuestionCalm, SetAsks
<1>3. Calm(s, t)
    BY <1>1, <1>2, CalmWithin
<1> HIDE DEF t
<1>4. TakeQuestion(s, c) = s \/ (TakeQuestion(s, c) = t /\ c # NoQuestion)
    BY DEF TakeQuestion, t
<1>5. c # NoQuestion => Asked(t)
    BY <1>2, <1>3, AskedCalm DEF Asked
<1> QED BY <1>4, <1>5

LEMMA ResumeAsks ==
    ASSUME NEW s, Known(s), Asked(s), NEW g \in {0} \cup DOMAIN s.goals,
           g # 0 => s.goals[g].status \in {"ACTIVE", "WAITING"}
    PROVE  Asked(AfterTaking(s, g))
<1> DEFINE ofFocus == {i \in DOMAIN s.parked : s.parked[i].goal = g}
           V == {i \in ofFocus : QuestionStillValid(s, s.parked[i])}
           newest == Newest(V)
           q == IF newest = 0 THEN NextBestQuestion(s, g) ELSE s.parked[newest]
           t == ResumeQuestion(s, ofFocus, newest, g)
<1>1. AfterTaking(s, g) = IF s.question # NoQuestion THEN s ELSE t
    BY DEF AfterTaking, RestoreQuestion
<1>2. newest \in {0} \cup V
  <2>1. Len(s.parked) \in Nat /\ V \subseteq 1 .. Len(s.parked)
    BY SeqIs DEF Known, Shaped
  <2> HIDE DEF V
  <2> QED BY <2>1, LargestIs DEF Newest
<1>3. q # NoQuestion => QuestionStillValid(s, q)
  <2>1. CASE newest = 0
    BY <2>1, NextIsValid
  <2>2. CASE newest # 0
    BY <1>2, <2>2
  <2> QED BY <2>1, <2>2
<1>4. Calm(s, t)
    BY ResumeCalm DEF Known
<1>5. t.question = q
    BY DEF ResumeQuestion, Known, Shaped, StateFields
<1> HIDE DEF q, t
<1>6. Asked(t)
    BY <1>3, <1>4, <1>5, AskedCalm DEF Asked
<1> HIDE DEF newest, ofFocus
<1> QED BY <1>1, <1>6 DEF Asked

\* The phase that asks leaves a question an answer settles, or none.
LEMMA RefreshAsks ==
    ASSUME NEW s, Known(s)
    PROVE  Asked(RefreshPendingQuestion(s))
<1> DEFINE focus == ContextGoal(s)
           t == KeepQuestion(s, focus)
           c == NextBestQuestion(t, focus)
           u == TakeQuestion(t, c)
<1>1. Shaped(s) /\ focus \in {0} \cup DOMAIN s.goals
      /\ (focus # 0 => s.goals[focus].status \in {"ACTIVE", "WAITING"})
    BY ContextIs DEF Known
<1>2. RefreshPendingQuestion(s) = AfterTaking(u, focus)
    BY DEF RefreshPendingQuestion, RefreshFor, AfterKeeping
<1> HIDE DEF focus
<1>3. Calm(s, t) /\ Asked(t)
    BY <1>1, KeepCalm, KeepAsks
<1> HIDE DEF t
<1>4. Known(t) /\ t.goals = s.goals
    BY <1>1, <1>3, CalmWithin, KnownWithin, AskedCalm
<1>5. c # NoQuestion => QuestionStillValid(t, c)
    BY <1>1, <1>4, NextIsValid
<1> HIDE DEF c
<1>6. Calm(t, u) /\ Asked(u)
    BY <1>3, <1>4, <1>5, TakeCalm, TakeAsks DEF Known
<1> HIDE DEF u
<1>7. Known(u) /\ u.goals = s.goals
    BY <1>4, <1>6, CalmWithin, KnownWithin, AskedCalm DEF Known
<1> QED BY <1>1, <1>2, <1>6, <1>7, ResumeAsks

-----------------------------------------------------------------------------
(* The goals that wait.                                                    *)

\* A goal nothing changed for can be helped as before.
LEMMA HelpedAgrees ==
    ASSUME NEW s, NEW t, NEW g, t.facts = s.facts, t.goals[g] = s.goals[g],
           \A a \in s.actions : a.goal = g => a \in t.actions, Helped(s, g)
    PROVE  Helped(t, g)
<1>1. MissingFacts(t, g) = MissingFacts(s, g)
    BY MissingAgrees
<1> QED BY <1>1 DEF Helped

LEMMA SettledCalm ==
    ASSUME NEW s, NEW t, t.facts = s.facts, t.goals = s.goals, t.actions = s.actions
    PROVE  Settled(t) <=> Settled(s)
BY HelpedAgrees DEF Settled

LEMMA ParkStaleIs ==
    ASSUME NEW s, Shaped(s), NEW g
    PROVE  LET t == ParkStale(s, g) IN
           /\ t.goals = s.goals /\ t.facts = s.facts /\ t.actions = s.actions
BY ParkStaleCalm, AskedCalm

\* The gap looked at first is one the goal misses.
LEMMA FirstGapIs ==
    ASSUME NEW s, Known(s), NEW g \in DOMAIN s.goals
    PROVE  LET gap == FirstGap(MissingFacts(s, g)) IN
           gap.authoritative => \E k \in DOMAIN MissingFacts(s, g) : gap = MissingFacts(s, g)[k]
<1> DEFINE m == MissingFacts(s, g)
<1>1. IsSeq(m) /\ \A k \in DOMAIN m : m[k].rank \in Nat
    BY MissingRanked DEF Known, Codes
<1> HIDE DEF m
<1>2. m # <<>> => DOMAIN m # {}
    BY <1>1, SeqIs
<1>3. m # <<>> => \E k \in DOMAIN m : Best(m, DOMAIN m) = m[k]
    BY <1>1, <1>2, BestIs
<1>4. m = <<>> => ~FirstGap(m).authoritative
    BY DEF FirstGap, NoGap
<1>5. m # <<>> => FirstGap(m) = Best(m, DOMAIN m)
    BY DEF FirstGap
<1>6. FirstGap(m).authoritative => \E k \in DOMAIN m : FirstGap(m) = m[k]
    BY <1>3, <1>4, <1>5
<1> QED BY <1>6 DEF m

\* Once synchronised, a goal that waits can be helped; the others are as they were.
LEMMA SyncHelps ==
    ASSUME NEW s, Known(s), NEW g \in DOMAIN s.goals
    PROVE  LET t == SyncGoal(s, g) IN
           /\ Helped(t, g) /\ t.facts = s.facts /\ DOMAIN t.goals = DOMAIN s.goals
           /\ \A o \in DOMAIN s.goals \ {g} :
                 /\ t.goals[o] = s.goals[o]
                 /\ \A a \in s.actions : a.goal = o => a \in t.actions
<1> DEFINE Good(t) ==
              /\ Helped(t, g) /\ t.facts = s.facts /\ DOMAIN t.goals = DOMAIN s.goals
              /\ \A o \in DOMAIN s.goals \ {g} :
                    /\ t.goals[o] = s.goals[o]
                    /\ \A a \in s.actions : a.goal = o => a \in t.actions
           gap == FirstGap(MissingFacts(s, g))
           owed == gap.authoritative /\ Resolution[gap.code] # "none"
           w == AwaitAction(s, g, Resolution[gap.code])
           p == ParkStale(w, g)
           u == SetGoal(s, g, "ACTIVE", NoReason)
           v == [u EXCEPT !.actions = {a \in @ : a.goal # g}]
<1>0. Shaped(s)
    BY DEF Known
<1>1. ASSUME owed
      PROVE  Good(p)
  <2> DEFINE action == Resolution[gap.code]
             x == SetGoal(s, g, "WAITING", Because("AWAITING", action))
  <2>1. PICK k \in DOMAIN MissingFacts(s, g) : gap = MissingFacts(s, g)[k]
    BY <1>1, FirstGapIs
  <2>2. /\ Within(s, w)
        /\ \A f \in StateFields \ {"actions"} : w[f] = x[f]
        /\ \A a \in s.actions : a.goal # g => a \in w.actions
        /\ \E a \in w.actions : a.goal = g /\ a.action = action
    BY <1>0, AwaitIs
  <2>3. /\ x.facts = s.facts /\ DOMAIN x.goals = DOMAIN s.goals
        /\ \A o \in DOMAIN s.goals : o # g => x.goals[o] = s.goals[o]
        /\ x.goals[g].code = s.goals[g].code /\ x.goals[g].case = s.goals[g].case
    BY <1>0, SetGoalIs DEF Shaped, StateFields, GoalFields
  <2> HIDE DEF w, x, gap
  <2>4. w.facts = x.facts /\ w.goals = x.goals
    BY <2>2 DEF StateFields
  <2>5. p.goals = w.goals /\ p.facts = w.facts /\ p.actions = w.actions
    BY <2>2, ParkStaleIs DEF Within
  <2> HIDE DEF p
  <2>6. MissingFacts(p, g) = MissingFacts(s, g)
    BY <2>3, <2>4, <2>5, MissingAgrees
  <2>7. Helped(p, g)
    BY <2>1, <2>2, <2>5, <2>6 DEF Helped
  <2> QED BY <2>2, <2>3, <2>4, <2>5, <2>7
<1>2. Good(v)
  <2>1. /\ DOMAIN u = DOMAIN s /\ u.facts = s.facts /\ u.actions = s.actions
        /\ DOMAIN u.goals = DOMAIN s.goals /\ u.goals[g].status = "ACTIVE"
        /\ \A o \in DOMAIN s.goals : o # g => u.goals[o] = s.goals[o]
    BY <1>0, SetGoalIs DEF Shaped, StateFields
  <2> HIDE DEF u
  <2>2. v.facts = u.facts /\ v.goals = u.goals /\ v.actions = {a \in s.actions : a.goal # g}
    BY <1>0, <2>1 DEF Shaped, StateFields
  <2> HIDE DEF v
  <2> QED BY <2>1, <2>2 DEF Helped
<1>3. s.goals[g].status # "WAITING" => Good(s)
    BY DEF Helped
<1>4. CASE s.goals[g].status \notin {"ACTIVE", "WAITING"}
  <2>1. SyncGoal(s, g) = s
    BY <1>4 DEF SyncGoal
  <2> QED BY <1>3, <1>4, <2>1
<1>5. CASE s.goals[g].status \in {"ACTIVE", "WAITING"}
  <2>1. SyncGoal(s, g) = SyncWith(s, g, gap)
    BY <1>5 DEF SyncGoal
  <2>2. SyncWith(s, g, gap) = IF owed THEN p ELSE IF s.goals[g].status # "WAITING" THEN s ELSE v
    BY Zenon DEF SyncWith
  <2> HIDE DEF Good, owed, p, v, gap
  <2>3. Good(SyncGoal(s, g))
    BY <1>1, <1>2, <1>3, <2>1, <2>2
  <2> QED BY <2>3 DEF Good
<1> QED BY <1>4, <1>5

LEMMA GapsSettle ==
    ASSUME NEW s, Known(s)
    PROVE  Known(SyncAuthoritativeGaps(s)) /\ Settled(SyncAuthoritativeGaps(s))
<1> DEFINE env == [s |-> s]
           seq == [g \in DOMAIN s.goals |-> g]
           n == Len(s.goals)
           t == SyncAuthoritativeGaps(s)
<1>1. env.s = s
    OBVIOUS
<1> HIDE DEF env
<1>2. /\ n \in Nat /\ DOMAIN s.goals = 1 .. n /\ DOMAIN seq = 1 .. n
      /\ \A k \in 1 .. n : seq[k] = k
    BY GoalOrder DEF Known
<1>3. t = Helping!Along(env, s, seq)
  <2>1. \A e : Syncing!Along(e, s, seq) = Helping!Along(e, s, seq)
    BY Zenon DEF Syncing!Along, Helping!Along, Syncing!Greatest, Helping!Greatest,
                 Syncing!MapThenFoldSet, Helping!MapThenFoldSet
  <2> QED BY <2>1, SyncingIs
<1> HIDE DEF seq, n, t
<1>4. HelpedOf(env, 0, s)
    BY <1>1 DEF HelpedOf
<1>5. ASSUME NEW k \in 1 .. n, NEW u, HelpedOf(env, k - 1, u)
      PROVE  HelpedOf(env, k, SyncingOp(env, u, k))
  <2> DEFINE v == SyncGoal(u, k)
  <2>1. Known(u) /\ DOMAIN u.goals = 1 .. n /\ \A g \in 1 .. (k - 1) : Helped(u, g)
    BY <1>1, <1>2, <1>5 DEF HelpedOf
  <2>2. Known(v)
    BY <2>1, SyncWithin, KnownWithin DEF Known
  <2>3. /\ Helped(v, k) /\ v.facts = u.facts /\ DOMAIN v.goals = DOMAIN u.goals
        /\ \A o \in DOMAIN u.goals \ {k} :
              /\ v.goals[o] = u.goals[o]
              /\ \A a \in u.actions : a.goal = o => a \in v.actions
    BY <2>1, SyncHelps
  <2> HIDE DEF v
  <2>4. \A g \in 1 .. (k - 1) : g \in DOMAIN u.goals \ {k}
    BY <1>2, <2>1
  <2>5. \A g \in 1 .. (k - 1) : Helped(v, g)
    BY <2>1, <2>3, <2>4, HelpedAgrees
  <2>6. \A g \in 1 .. k : Helped(v, g)
    BY <1>2, <2>3, <2>5
  <2> QED BY <1>1, <1>2, <2>1, <2>2, <2>3, <2>6 DEF HelpedOf, SyncingOp, v
<1>6. \A k \in 1 .. n : \A u :
         HelpedOf(env, k - 1, u) => HelpedOf(env, k, SyncingOp(env, u, seq[k]))
    BY <1>2, <1>5
<1>7. HelpedOf(env, n, t)
    BY <1>2, <1>3, <1>4, <1>6, Counting, Helping!FoldLeftRule DEF Helping!Inductive
<1> QED BY <1>1, <1>2, <1>7 DEF HelpedOf, Settled, t

LEMMA StoppedIs ==
    ASSUME NEW s, Shaped(s), NEW why, why # "none", Stopped(s, why).error = "none"
    PROVE  Stopped(s, why) = s /\ ~s.changed
BY DEF Stopped, Fail, Shaped, StateFields

\* Settled at the end of every round, and the last round is one that changed nothing.
LEMMA SettleSettles ==
    ASSUME NEW s, Known(s)
    PROVE  Known(SettleGoals(s)) /\ (SettleGoals(s).error = "none" => Settled(SettleGoals(s)))
<1> DEFINE env == [s |-> s]
           t0 == Changed(Reopened(s))
           seq == [n \in 1 .. Rounds |-> n]
           u == Resting!Along(env, t0, seq)
<1>1. Rounds \in Nat /\ DOMAIN seq = 1 .. Rounds
    BY DEF Rounds
<1>2. SettleGoals(s) = Stopped(u, "GOALS_DIVERGE")
  <2>1. \A e, t, q : Settling!Along(e, t, q) = Resting!Along(e, t, q)
    BY Zenon DEF Settling!Along, Resting!Along, Settling!Greatest, Resting!Greatest,
                 Settling!MapThenFoldSet, Resting!MapThenFoldSet
  <2> QED BY <2>1, SettlingIs
<1> HIDE DEF seq, env
<1>3. Known(t0) /\ t0.changed
  <2> DEFINE r == Reopened(s)
  <2>1. Known(r)
    BY ReopenedWithin, KnownWithin DEF Known
  <2> HIDE DEF r
  <2>2. Known(Changed(r))
    BY <2>1, ErrorWithin, KnownWithin DEF Known
  <2>3. Changed(r).changed
    BY <2>1 DEF Changed, Known, Shaped, StateFields
  <2> QED BY <2>2, <2>3 DEF r
<1> HIDE DEF t0
<1>4. RestingOf(env, 0, t0)
    BY <1>3 DEF RestingOf
<1>5. ASSUME NEW k, NEW l, NEW x, NEW t, RestingOf(env, k, t)
      PROVE  RestingOf(env, l, SettlingOp(env, t, x))
  <2>1. CASE ~t.changed
    <3>1. SettlingOp(env, t, x) = t
      BY <2>1, Zenon DEF SettlingOp
    <3> QED BY <1>5, <3>1 DEF RestingOf
  <2>2. CASE t.changed
    <3> DEFINE v == SyncAuthoritativeGaps(EvaluateRelations(t))
               w == NextRound(v, t)
    <3>1. SettlingOp(env, t, x) = w
      BY <2>2, RoundIs
    <3>2. Known(EvaluateRelations(t))
      BY <1>5, RelationsWithin, KnownWithin DEF RestingOf, Known
    <3>3. Known(v) /\ Settled(v)
      BY <3>2, GapsSettle
    <3> HIDE DEF v
    <3>4. Known(w)
      BY <3>3, NextRoundWithin, KnownWithin DEF Known
    <3>5. w.goals = v.goals /\ w.facts = v.facts /\ w.actions = v.actions
      BY <3>3, NextRoundWithin DEF Known, StateFields
    <3> HIDE DEF w
    <3>6. Settled(w)
      BY <3>3, <3>5, SettledCalm
    <3> QED BY <3>1, <3>4, <3>6 DEF RestingOf
  <2> QED BY <2>1, <2>2
<1>6. \A k \in 1 .. Rounds : \A t :
         RestingOf(env, k - 1, t) => RestingOf(env, k, SettlingOp(env, t, seq[k]))
    BY <1>5
<1>7. RestingOf(env, Rounds, u)
    BY <1>1, <1>4, <1>6, Counting, Resting!FoldLeftRule DEF Resting!Inductive
<1> HIDE DEF u
<1>8. Known(u) /\ (u.changed \/ Settled(u))
    BY <1>7 DEF RestingOf
<1>9. Known(Stopped(u, "GOALS_DIVERGE"))
    BY <1>8, ErrorWithin, KnownWithin DEF Known
<1> QED BY <1>2, <1>8, <1>9, StoppedIs DEF Known

-----------------------------------------------------------------------------
(* The events.                                                             *)

\* An event that settles leaves a sound state, or fails.
LEMMA EventSounds ==
    ASSUME NEW s, Known(s), NEW e, EventShaped(e), EventKnown(e),
           e.kind \notin {"SOCIAL", "HUMAN_REQUEST"}
    PROVE  LET t == ApplyEvent(s, e) IN Known(t) /\ (t.error = "none" => Sound(t))
<1> DEFINE n == Numbered(s)
           h == IF n.error = "none" THEN Handle(n, e) ELSE n
           t == IF h.error = "none" THEN SettleGoals(h) ELSE h
           r == IF t.error = "none" THEN RefreshPendingQuestion(t) ELSE t
<1>1. ApplyEvent(s, e) = r
    BY ApplyEventIs, Zenon
<1>2. Known(n)
    BY NumberedIs DEF Known
<1> HIDE DEF n
<1>3. Known(h)
  <2>1. Moved(n, Handle(n, e), EventKnown(e))
    BY <1>2, HandleMoved DEF Known
  <2> QED BY <1>2, <2>1, KnownWithin DEF Moved
<1> HIDE DEF h
<1>4. Known(t) /\ (t.error = "none" => Settled(t))
    BY <1>3, SettleSettles
<1> HIDE DEF t
<1>5. ASSUME t.error = "none"
      PROVE  Known(r) /\ Sound(r)
  <2> DEFINE q == RefreshPendingQuestion(t)
  <2>1. Calm(t, q) /\ Asked(q)
    BY <1>4, RefreshCalm, RefreshAsks DEF Known
  <2>2. r = q
    BY <1>5
  <2> HIDE DEF q, r
  <2>3. Known(q)
    BY <1>4, <2>1, CalmWithin, KnownWithin DEF Known
  <2>4. q.goals = t.goals /\ q.facts = t.facts /\ q.actions = t.actions
    BY <2>1, AskedCalm
  <2>5. Settled(q)
    BY <1>4, <1>5, <2>4, SettledCalm
  <2> QED BY <2>1, <2>2, <2>3, <2>5 DEF Sound
<1>6. CASE t.error # "none"
    BY <1>1, <1>4, <1>6
<1> QED BY <1>1, <1>5, <1>6

\* One that only asks, or asks for a person, leaves the goals as they were.
LEMMA QuietSounds ==
    ASSUME NEW s, Known(s), Settled(s), s.error = "none", NEW e,
           e.kind \in {"SOCIAL", "HUMAN_REQUEST"}
    PROVE  LET t == ApplyEvent(s, e) IN Known(t) /\ t.error = "none" /\ Sound(t)
<1> DEFINE t == ApplyEvent(s, e)
           n == Numbered(s)
           quiet == e.kind = "HUMAN_REQUEST" \/ (e.kind = "SOCIAL" /\ e.closing)
<1>1. /\ Shaped(t) /\ t.error = "none"
      /\ t.goals = s.goals /\ t.facts = s.facts /\ t.actions = s.actions
      /\ e.kind = "HUMAN_REQUEST" => t.question = NoQuestion
    BY ApplyEventQuiet DEF Known
<1>2. /\ Known(n) /\ n.error = "none"
    BY NumberedIs DEF Known, StateFields
<1>3. t = IF quiet THEN Handle(n, e) ELSE RefreshPendingQuestion(n)
    BY <1>2, ApplyEventIs, Zenon
<1> HIDE DEF n, t
<1>4. Known(t) /\ Settled(t)
  <2>1. Codes(t) = Codes(s)
    BY <1>1 DEF Codes
  <2> QED BY <1>1, <2>1, SettledCalm DEF Known
<1>5. Asked(t)
  <2>1. CASE e.kind = "HUMAN_REQUEST"
    BY <1>1, <2>1 DEF Asked
  <2>2. CASE e.kind = "SOCIAL" /\ e.closing
    <3>1. Handle(n, e) = [n EXCEPT !.question = NoQuestion]
      BY <2>2 DEF Handle
    <3>2. t.question = NoQuestion
      BY <1>2, <1>3, <2>2, <3>1, SetAsks DEF Known
    <3> QED BY <3>2 DEF Asked
  <2>3. CASE e.kind = "SOCIAL" /\ ~e.closing
    BY <1>2, <1>3, <2>3, RefreshAsks
  <2> QED BY <2>1, <2>2, <2>3
<1> QED BY <1>1, <1>4, <1>5 DEF Sound, t

LEMMA AllSound ==
    ASSUME Reduces, NEW s, Known(s), Sound(s), NEW E, IsSeq(E),
           \A k \in DOMAIN E : /\ EventShaped(E[k]) /\ EventKnown(E[k])
                               /\ E[k].kind \notin {"SOCIAL", "HUMAN_REQUEST"}
    PROVE  ApplyAll(s, E).error = "none" => Sound(ApplyAll(s, E))
<1> DEFINE env == [s |-> s]
           t == ApplyAll(s, E)
<1>1. t = Sounding!Along(env, s, E)
  <2>1. \A e : Planning!Along(e, s, E) = Sounding!Along(e, s, E)
    BY Zenon DEF Planning!Along, Sounding!Along, Planning!Greatest, Sounding!Greatest,
                 Planning!MapThenFoldSet, Sounding!MapThenFoldSet
  <2> QED BY <2>1, PlanningIs
<1> HIDE DEF env, t
<1>2. Len(E) \in Nat /\ DOMAIN E = 1 .. Len(E)
    BY SeqIs
<1>3. SoundOf(env, 0, s)
    BY DEF SoundOf
<1>4. ASSUME NEW k \in DOMAIN E, NEW l, NEW u, SoundOf(env, l, u)
      PROVE  SoundOf(env, k, PlanningOp(env, u, E[k]))
  <2>1. LET v == ApplyEvent(u, E[k]) IN Known(v) /\ (v.error = "none" => Sound(v))
    BY <1>4, EventSounds DEF SoundOf
  <2>2. PlanningOp(env, u, E[k]) \in {u, ApplyEvent(u, E[k])}
    BY DEF PlanningOp, Reduces
  <2> QED BY <1>4, <2>1, <2>2 DEF SoundOf
<1>5. \A k \in 1 .. Len(E) : \A u :
         SoundOf(env, k - 1, u) => SoundOf(env, k, PlanningOp(env, u, E[k]))
    BY <1>2, <1>4
<1>6. SoundOf(env, Len(E), t)
    BY <1>1, <1>2, <1>3, <1>5, Counting, Sounding!FoldLeftRule DEF Sounding!Inductive
<1> QED BY <1>6 DEF SoundOf, t

\* A message leaves the conversation sound, whatever is understood of it.
LEMMA PlannedSounds ==
    ASSUME Reduces, NEW s, Known(s), Sound(s), s.error = "none", s.seq \in Nat,
           NEW i, Heeded(i), GoalsKnown(i)
    PROVE  LET t == Planned(s, i).state IN
           Known(t) /\ t.error = "none" /\ t.seq \in Nat /\ Sound(t)
<1> DEFINE g == GuardInterpretation(i)
           a == [g EXCEPT !.clarify = ~ArbitrateConfidence(g)]
           E == ToConversationEvents(s, a)
           social == EventOf("SOCIAL", <<>>)
           next == IF i.status THEN React(s, social) ELSE ApplyAll(s, E)
           t == Planned(s, i).state
<1>1. Heeded(a) /\ a.event = i.event /\ a.goal = i.goal /\ a.secondary = i.secondary
  <2>1. Heeded(g) /\ \A f \in InterpretationFields \ {"facts", "clarify"} : g[f] = i[f]
    BY GuardIs
  <2> HIDE DEF g
  <2>2. Heeded(a) /\ \A f \in InterpretationFields \ {"clarify"} : a[f] = g[f]
    BY <2>1, ClarifyIs
  <2> HIDE DEF a
  <2> QED BY <2>1, <2>2 DEF InterpretationFields
<1>2. \/ t = s
      \/ t = next /\ next.error = "none" /\ (~i.status => ~Clarifies(a))
    BY DEF Planned
<1>3. Known(t) /\ t.error = "none" /\ t.seq \in Nat
  <2>1. /\ Shaped(t) /\ t.error = "none" /\ t.seq \in Nat
        /\ Codes(t) \subseteq Codes(s) \cup DOMAIN GoalDef
    BY PlannedIs DEF Known
  <2> HIDE DEF t
  <2> QED BY <2>1 DEF Known
<1> HIDE DEF t, a
<1>4. /\ IsSeq(E) /\ \A k \in DOMAIN E : EventShaped(E[k])
      /\ GoalsKnown(a) /\ ~Clarifies(a) => \A k \in DOMAIN E : EventKnown(E[k])
      /\ a.event \notin {"SOCIAL", "HUMAN_REQUEST"} =>
            \A k \in DOMAIN E : E[k].kind \notin {"SOCIAL", "HUMAN_REQUEST"}
      /\ a.event \in {"SOCIAL", "HUMAN_REQUEST"} =>
            E = <<[EventOf(a.event, a.facts) EXCEPT !.closing = a.closing]>>
    BY <1>1, EventsAre
<1>5. ASSUME NEW e, e.kind \in {"SOCIAL", "HUMAN_REQUEST"}
      PROVE  Sound(React(s, e))
    BY <1>5, QuietSounds DEF Reduces, Sound
<1>6. GoalsKnown(a)
    BY <1>1 DEF GoalsKnown
<1> HIDE DEF E, social
<1>7. ASSUME t = next, next.error = "none", ~i.status => ~Clarifies(a)
      PROVE  Sound(next)
  <2>1. CASE i.status
    <3>1. social.kind = "SOCIAL"
      BY EventIs DEF social
    <3> QED BY <1>5, <2>1, <3>1
  <2>2. CASE ~i.status /\ i.event \in {"SOCIAL", "HUMAN_REQUEST"}
    <3> DEFINE e == [EventOf(a.event, a.facts) EXCEPT !.closing = a.closing]
    <3>1. e.kind = i.event
      BY <1>1, EventIs
    <3>2. E = <<e>>
      BY <1>1, <1>4, <2>2
    <3> HIDE DEF e
    <3>3. next = React(s, e)
      BY <2>2, <3>2, ApplyOne
    <3> QED BY <1>5, <2>2, <3>1, <3>3
  <2>3. CASE ~i.status /\ i.event \notin {"SOCIAL", "HUMAN_REQUEST"}
    <3>1. \A k \in DOMAIN E : /\ EventShaped(E[k]) /\ EventKnown(E[k])
                              /\ E[k].kind \notin {"SOCIAL", "HUMAN_REQUEST"}
      BY <1>1, <1>4, <1>6, <1>7, <2>3
    <3>2. next = ApplyAll(s, E)
      BY <2>3
    <3> HIDE DEF next
    <3> QED BY <1>4, <1>7, <3>1, <3>2, AllSound
  <2> QED BY <2>1, <2>2, <2>3
<1> HIDE DEF next
<1>8. Sound(t)
    BY <1>2, <1>7
<1> QED BY <1>3, <1>8 DEF t

-----------------------------------------------------------------------------
(* The service requests.                                                   *)

LEMMA VisitingIs ==
    ASSUME NEW env, NEW rs
    PROVE  WithOperationalRequests(env.s, rs)
             = Visiting!Along(env, rs, [g \in DOMAIN env.s.goals |-> g])
BY Zenon DEF WithOperationalRequests, Visiting!Along, VisitingOp, FoldLeft, Max,
             Visiting!Greatest, MapThenFoldSet, Visiting!MapThenFoldSet

LEMMA RefreshedIs ==
    ASSUME NEW s, NEW r, "goal" \in DOMAIN r
    PROVE  Refreshed(s, r).goal = r.goal /\ "goal" \in DOMAIN Refreshed(s, r)
BY DEF Refreshed

LEMMA CreatedIs ==
    ASSUME NEW s, NEW g
    PROVE  CreateSolicitacao(s, g).goal = g /\ "goal" \in DOMAIN CreateSolicitacao(s, g)
BY DEF CreateSolicitacao

\* A visit leaves the goal it is about with its request, and takes none away.
LEMMA VisitIs ==
    ASSUME NEW env, NEW rs, Listing(rs), NEW g
    PROVE  LET out == VisitingOp(env, rs, g) IN
           /\ Listing(out)
           /\ \A o : RequestOf(rs, o) # {} => RequestOf(out, o) # {}
           /\ Ready(env.s, g) => RequestOf(out, g) # {}
<1> DEFINE out == VisitingOp(env, rs, g)
           new == Refreshed(env.s, CreateSolicitacao(env.s, g))
           more == Append(rs, new)
           again == [i \in DOMAIN rs |-> IF rs[i].goal = g THEN Refreshed(env.s, rs[i])
                                         ELSE rs[i]]
<1>1. \/ ~Ready(env.s, g) /\ out = rs
      \/ Ready(env.s, g) /\ RequestOf(rs, g) = {} /\ out = more
      \/ Ready(env.s, g) /\ RequestOf(rs, g) # {} /\ out = again
    BY DEF VisitingOp
<1>2. /\ Listing(more) /\ RequestOf(more, g) # {}
      /\ \A o : RequestOf(rs, o) # {} => RequestOf(more, o) # {}
  <2>1. new.goal = g /\ "goal" \in DOMAIN new
    BY RefreshedIs, CreatedIs
  <2>2. Len(rs) \in Nat /\ DOMAIN rs = 1 .. Len(rs)
    BY SeqIs DEF Listing
  <2> HIDE DEF new
  <2>3. /\ IsSeq(more) /\ DOMAIN more = 1 .. (Len(rs) + 1)
        /\ (\A i \in DOMAIN rs : more[i] = rs[i]) /\ more[Len(rs) + 1] = new
    BY AppendIs DEF Listing
  <2> HIDE DEF more
  <2>4. \A i \in DOMAIN more : i \in DOMAIN rs \/ i = Len(rs) + 1
    BY <2>2, <2>3
  <2>5. Len(rs) + 1 \in DOMAIN more /\ DOMAIN rs \subseteq DOMAIN more
    BY <2>2, <2>3
  <2> QED BY <2>1, <2>3, <2>4, <2>5 DEF Listing, RequestOf
<1>3. /\ Listing(again)
      /\ \A o : RequestOf(again, o) = RequestOf(rs, o)
  <2>1. IsSeq(again) /\ DOMAIN again = DOMAIN rs
    BY MapIsSeq DEF Listing
  <2>2. \A i \in DOMAIN rs : again[i].goal = rs[i].goal /\ "goal" \in DOMAIN again[i]
    BY RefreshedIs DEF Listing
  <2> HIDE DEF again
  <2> QED BY <2>1, <2>2 DEF Listing, RequestOf
<1> HIDE DEF out, more, again
<1>4. /\ Listing(out)
      /\ \A o : RequestOf(rs, o) # {} => RequestOf(out, o) # {}
      /\ Ready(env.s, g) => RequestOf(out, g) # {}
    BY <1>1, <1>2, <1>3
<1> QED BY <1>4 DEF out

LEMMA RequestsMade ==
    ASSUME NEW s, Shaped(s), NEW rs, Listing(rs)
    PROVE  LET out == WithOperationalRequests(s, rs) IN
           Listing(out) /\ \A g \in DOMAIN s.goals : Ready(s, g) => RequestOf(out, g) # {}
<1> DEFINE env == [s |-> s]
           seq == [g \in DOMAIN s.goals |-> g]
           n == Len(s.goals)
           out == WithOperationalRequests(s, rs)
<1>1. env.s = s
    OBVIOUS
<1> HIDE DEF env
<1>2. out = Visiting!Along(env, rs, seq)
  <2>1. WithOperationalRequests(env.s, rs)
          = Visiting!Along(env, rs, [g \in DOMAIN env.s.goals |-> g])
    BY VisitingIs
  <2> QED BY <1>1, <2>1
<1>3. /\ n \in Nat /\ DOMAIN s.goals = 1 .. n /\ DOMAIN seq = 1 .. n
      /\ \A k \in 1 .. n : seq[k] = k
    BY GoalOrder
<1> HIDE DEF seq, n, out
<1>4. DueOf(env, 0, rs)
    BY DEF DueOf
<1>5. ASSUME NEW k \in 1 .. n, NEW u, DueOf(env, k - 1, u)
      PROVE  DueOf(env, k, VisitingOp(env, u, k))
  <2> DEFINE v == VisitingOp(env, u, k)
  <2>1. /\ Listing(v)
        /\ \A o : RequestOf(u, o) # {} => RequestOf(v, o) # {}
        /\ Ready(env.s, k) => RequestOf(v, k) # {}
    BY <1>5, VisitIs DEF DueOf
  <2>2. \A g \in 1 .. k : g \in 1 .. (k - 1) \/ g = k
    BY <1>3
  <2> HIDE DEF v
  <2>3. \A g \in 1 .. k : Ready(env.s, g) => RequestOf(v, g) # {}
    BY <1>5, <2>1, <2>2 DEF DueOf
  <2> QED BY <2>1, <2>3 DEF DueOf, v
<1>6. \A k \in 1 .. n : \A u : DueOf(env, k - 1, u) => DueOf(env, k, VisitingOp(env, u, seq[k]))
    BY <1>3, <1>5
<1>7. DueOf(env, n, out)
    BY <1>2, <1>3, <1>4, <1>6, Counting, Visiting!FoldLeftRule DEF Visiting!Inductive
<1> QED BY <1>1, <1>3, <1>7 DEF DueOf, out

-----------------------------------------------------------------------------
(* The conversation.                                                       *)

Ongoing(s) == Known(s) /\ s.error = "none" /\ s.seq \in Nat /\ Sound(s)
DialogueIInv == Ongoing(conv) /\ Listing(requests) /\ TeamHasRequest

LEMMA InterpretationIs ==
    ASSUME NEW i \in Interpretations
    PROVE  Heeded(i) /\ GoalsKnown(i)
BY DialogueAssumption DEF DialogueAssumption, Heeded, GoalsKnown, IsSeq

\* Whoever acts, the requests are refreshed from the state the step leads to.
LEMMA Served ==
    ASSUME NEW next, Ongoing(next), conv' = next, Listing(requests),
           requests' = WithOperationalRequests(next, requests),
           mode' = "bot" => next.handoff = NoHandoff
    PROVE  DialogueIInv'
<1>1. /\ Listing(requests')
      /\ \A g \in DOMAIN next.goals : Ready(next, g) => RequestOf(requests', g) # {}
    BY RequestsMade DEF Ongoing, Known
<1>2. ASSUME NEW a \in next.actions,
             next.goals[a.goal].status # "ABANDONED",
             ~GoalDef[next.goals[a.goal].code].informational
      PROVE  RequestOf(requests', a.goal) # {}
  <2>1. a.goal \in DOMAIN next.goals /\ a \in PendingOf(next, a.goal)
    BY DEF Ongoing, Known, Shaped, PendingOf
  <2>2. Ready(next, a.goal)
    BY <1>2, <2>1 DEF Ready
  <2> QED BY <1>1, <2>1, <2>2
<1>3. TeamHasRequest'
    BY <1>2 DEF TeamHasRequest
<1> QED BY <1>1, <1>3 DEF DialogueIInv

LEMMA PanelIs ==
    ASSUME NEW s
    PROVE  /\ PanelMode(s) = "bot" => s.handoff = NoHandoff
           /\ ModeAfter(s) = "bot" => s.handoff = NoHandoff
BY DEF PanelMode, ModeAfter

\* What only takes a number leaves the rest as it was.
LEMMA NumberedOngoing ==
    ASSUME NEW s, Ongoing(s)
    PROVE  Ongoing(Numbered(s)) /\ Numbered(s).handoff = s.handoff
<1> DEFINE n == Numbered(s)
<1>1. /\ Known(n) /\ n.seq = s.seq + 1
      /\ \A f \in StateFields \ {"seq"} : n[f] = s[f]
    BY NumberedIs DEF Ongoing, Known
<1> HIDE DEF n
<1>2. /\ n.goals = s.goals /\ n.facts = s.facts /\ n.actions = s.actions
      /\ n.question = s.question /\ n.error = s.error /\ n.handoff = s.handoff
    BY <1>1 DEF StateFields
<1>3. Sound(n)
    BY <1>2, SettledCalm, ValidAgrees DEF Ongoing, Sound, Asked
<1> QED BY <1>1, <1>2, <1>3 DEF Ongoing, n

LEMMA SignalIs ==
    ASSUME NEW g, NEW code, NEW value, NEW source
    PROVE  LET e == Signal(g, code, value, source) IN
           /\ EventShaped(e) /\ EventKnown(e) /\ e.kind \notin {"SOCIAL", "HUMAN_REQUEST"}
<1> DEFINE f == [code |-> code, value |-> value, source |-> source,
                 confidence |-> "CONFIRMED", authoritative |-> TRUE]
           e == Signal(g, code, value, source)
<1>1. IsSeq(<<f>>)
    BY OneIs
<1> HIDE DEF f
<1>2. e.kind = "SIGNAL" /\ e.facts = <<f>>
    BY DEF Signal, f
<1> HIDE DEF e
<1>3. EventShaped(e) /\ EventKnown(e) /\ e.kind \notin {"SOCIAL", "HUMAN_REQUEST"}
    BY <1>1, <1>2 DEF EventShaped, EventKnown
<1> QED BY <1>3 DEF e

\* A signal that does not fail leaves the conversation sound.
LEMMA SignalOngoing ==
    ASSUME Reduces, NEW s, Ongoing(s), NEW g, NEW code, NEW value, NEW source,
           React(s, Signal(g, code, value, source)).error = "none"
    PROVE  Ongoing(React(s, Signal(g, code, value, source)))
<1> DEFINE e == Signal(g, code, value, source)
           t == ApplyEvent(s, e)
<1>1. EventShaped(e) /\ EventKnown(e) /\ e.kind \notin {"SOCIAL", "HUMAN_REQUEST"}
    BY SignalIs
<1> HIDE DEF e
<1>2. React(s, e) = t /\ t.error = "none"
    BY DEF Reduces, e
<1>3. Known(t) /\ Sound(t)
    BY <1>1, <1>2, EventSounds DEF Ongoing
<1>4. Moved(Numbered(s), t, EventKnown(e))
    BY <1>1, ApplyEventMoved DEF Ongoing, Known
<1>5. Numbered(s).seq \in Nat
    BY NumberedOngoing DEF Ongoing
<1> HIDE DEF t
<1>6. t.seq \in Nat
    BY <1>4, <1>5 DEF Moved, Kept
<1> QED BY <1>2, <1>3, <1>6 DEF Ongoing, e

LEMMA SpeakingIs ==
    ASSUME Reduces, NEW s, Ongoing(s)
    PROVE  LET u == [s EXCEPT !.handoff = NoHandoff]
               t == React(u, EventOf("SOCIAL", <<>>))
           IN Ongoing(t) /\ t.handoff = NoHandoff
<1> DEFINE u == [s EXCEPT !.handoff = NoHandoff]
           e == EventOf("SOCIAL", <<>>)
           t == ApplyEvent(u, e)
<1>1. /\ u.handoff = NoHandoff /\ DOMAIN u = StateFields
      /\ \A f \in StateFields \ {"handoff"} : u[f] = s[f]
    BY DEF Ongoing, Known, Shaped, StateFields
<1>2. e.kind = "SOCIAL"
    BY EventIs
<1> HIDE DEF u, e
<1>3. /\ u.goals = s.goals /\ u.facts = s.facts /\ u.actions = s.actions /\ u.parked = s.parked
      /\ u.error = "none" /\ u.seq \in Nat
    BY <1>1 DEF Ongoing, StateFields
<1>4. Known(u) /\ Settled(u)
    BY <1>1, <1>3, SettledCalm DEF Ongoing, Known, Shaped, Codes, Sound
<1>5. Known(t) /\ t.error = "none" /\ Sound(t)
    BY <1>2, <1>3, <1>4, QuietSounds
<1>6. t.seq = u.seq + 1 /\ t.handoff = u.handoff
    BY <1>2, <1>3, <1>4, ApplyEventQuiet DEF Known
<1>7. React(u, e) = t
    BY DEF Reduces
<1> HIDE DEF t
<1>8. Ongoing(t) /\ t.handoff = NoHandoff
    BY <1>1, <1>3, <1>5, <1>6 DEF Ongoing
<1> QED BY <1>7, <1>8 DEF u, e

LEMMA DialogueStep ==
    ASSUME Reduces, DialogueIInv, [Next]_vars
    PROVE  DialogueIInv'
<1>0. Ongoing(conv) /\ Listing(requests)
    BY DEF DialogueIInv
<1>1. ASSUME NEW file \in BOOLEAN, NEW i \in Interpretations, Message(i, file)
      PROVE  DialogueIInv'
  <2> DEFINE next == Planned(conv, i).state
  <2>1. /\ conv' = next /\ requests' = WithOperationalRequests(next, requests)
        /\ mode' = PanelMode(next)
    BY <1>1 DEF Message, Turn
  <2>2. Known(next) /\ next.error = "none" /\ next.seq \in Nat /\ Sound(next)
    BY <1>0, InterpretationIs, PlannedSounds DEF Ongoing
  <2> HIDE DEF next
  <2> QED BY <1>0, <2>1, <2>2, PanelIs, Served DEF Ongoing
<1>2. ASSUME NEW file, MessageToPerson(file)
      PROVE  DialogueIInv'
    BY <1>2 DEF MessageToPerson, DialogueIInv, TeamHasRequest
<1>3. CASE Information
  <2>1. /\ conv' = Numbered(conv)
        /\ requests' = WithOperationalRequests(Numbered(conv), requests)
        /\ mode' = PanelMode(Numbered(conv))
    BY <1>3 DEF Information, Turn, Numbered
  <2> QED BY <1>0, <2>1, NumberedOngoing, PanelIs, Served
<1>4. ASSUME NEW a \in conv.actions, NEW d \in Decisions, ResolveAction(a, d)
      PROVE  DialogueIInv'
  <2> DEFINE next == React(conv, Signal(a.goal, d.fact, d.value, "SYSTEM"))
  <2>1. /\ next.error = "none" /\ conv' = next
        /\ requests' = WithOperationalRequests(next, requests) /\ mode' = ModeAfter(next)
    BY <1>4 DEF ResolveAction, Commanded
  <2>2. Ongoing(next)
    BY <1>0, <2>1, SignalOngoing
  <2> HIDE DEF next
  <2> QED BY <1>0, <2>1, <2>2, PanelIs, Served
<1>5. ASSUME NEW d \in DOMAIN docs, NEW verdict, ReviewDocument(d, verdict)
      PROVE  DialogueIInv'
  <2>1. /\ conv' = Numbered(conv)
        /\ requests' = WithOperationalRequests(Numbered(conv), requests)
        /\ mode' = ModeAfter(Numbered(conv))
    BY <1>5 DEF ReviewDocument, Commanded, Numbered
  <2> QED BY <1>0, <2>1, NumberedOngoing, PanelIs, Served
<1>6. ASSUME NEW d \in DOMAIN docs, NEW g \in DOMAIN conv.goals, NEW code,
             ClassifyDocument(d, g, code)
      PROVE  DialogueIInv'
  <2> DEFINE next == React(Numbered(conv), Signal(g, code, FileName[d], "DOCUMENT"))
  <2>1. /\ next.error = "none" /\ conv' = next
        /\ requests' = WithOperationalRequests(next, requests) /\ mode' = ModeAfter(next)
    BY <1>6 DEF ClassifyDocument, Commanded, Numbered
  <2>2. Ongoing(next)
    BY <1>0, <2>1, NumberedOngoing, SignalOngoing
  <2> HIDE DEF next
  <2> QED BY <1>0, <2>1, <2>2, PanelIs, Served
<1>7. CASE Resume
  <2> DEFINE next == React([conv EXCEPT !.handoff = NoHandoff], EventOf("SOCIAL", <<>>))
  <2>1. conv' = next /\ requests' = WithOperationalRequests(next, requests)
    BY <1>7 DEF Resume, Commanded
  <2>2. Ongoing(next) /\ next.handoff = NoHandoff
    BY <1>0, SpeakingIs
  <2> HIDE DEF next
  <2> QED BY <1>0, <2>1, <2>2, Served
<1>8. CASE TakeOver
    BY <1>8 DEF TakeOver, DialogueIInv, TeamHasRequest
<1>9. CASE UNCHANGED vars
    BY <1>9 DEF vars, DialogueIInv, TeamHasRequest
<1> QED BY <1>1, <1>2, <1>3, <1>4, <1>5, <1>6, <1>7, <1>8, <1>9 DEF Next

LEMMA DialogueInitially == Init => DialogueIInv
<1> SUFFICES ASSUME Init PROVE DialogueIInv
    OBVIOUS
<1>1. Shaped(conv) /\ conv.error = "none" /\ conv.seq \in Nat
    BY InitShaped DEF Init
<1>2. /\ conv.goals = <<>> /\ conv.question = NoQuestion /\ conv.actions = {}
      /\ conv.handoff = NoHandoff /\ requests = <<>>
    BY DEF Init, InitState
<1>3. IsSeq(<<>>) /\ DOMAIN <<>> = {}
    BY OneIs
<1>4. Ongoing(conv)
    BY <1>1, <1>2, <1>3 DEF Ongoing, Known, Codes, Sound, Settled, Asked
<1> QED BY <1>2, <1>3, <1>4 DEF DialogueIInv, Listing, TeamHasRequest

LEMMA DialogueInvariant ==
    ASSUME Reduces
    PROVE  Spec => []DialogueIInv
<1>1. Init => DialogueIInv
    BY DialogueInitially
<1>2. DialogueIInv /\ [Next]_vars => DialogueIInv'
    BY DialogueStep
<1> QED BY <1>1, <1>2, PTL DEF Spec

\* A goal that waits can be helped (syncAuthoritativeGaps): an operator has a decision
\* to take for it, for every catalogue and whatever is understood of the messages.
THEOREM WaitingIsHelped ==
    ASSUME Reduces
    PROVE  Spec => []NoDeadEnd
<1>1. DialogueIInv => NoDeadEnd
  <2> SUFFICES ASSUME Ongoing(conv), NEW g \in GoalsWith(conv, {"WAITING"})
               PROVE  \E a \in PendingOf(conv, g) : ActionFacts(conv, a) # {}
    BY DEF DialogueIInv, NoDeadEnd
  <2>1. g \in DOMAIN conv.goals /\ conv.goals[g].status = "WAITING"
    BY DEF GoalsWith
  <2>2. PICK a \in conv.actions, k \in DOMAIN MissingFacts(conv, g) :
           a.goal = g /\ Resolution[MissingFacts(conv, g)[k].code] = a.action
    BY <2>1 DEF Ongoing, Sound, Settled, Helped
  <2>3. MissingFacts(conv, g)[k].code \in ActionFacts(conv, a)
    BY <2>1, <2>2 DEF ActionFacts, OpenStatuses, ToSet
  <2> QED BY <2>2, <2>3 DEF PendingOf
<1> QED BY <1>1, DialogueInvariant, PTL

\* The question put to the citizen is one an answer settles (refreshPendingQuestion),
\* whoever acts on the conversation while it stands.
THEOREM QuestionsAreAnswerable ==
    ASSUME Reduces
    PROVE  Spec => []QuestionIsAnswerable
<1>1. DialogueIInv => QuestionIsAnswerable
    BY DEF DialogueIInv, Ongoing, Sound, Asked, QuestionIsAnswerable
<1> QED BY <1>1, DialogueInvariant, PTL

\* What the team is asked to do is on its list (withOperationalRequests), and a
\* conversation the bot answers is one no person was asked for.
THEOREM TeamHasItsRequests ==
    ASSUME Reduces
    PROVE  Spec => []TeamHasRequest
<1>1. DialogueIInv => TeamHasRequest
    BY DEF DialogueIInv
<1> QED BY <1>1, DialogueInvariant, PTL

-----------------------------------------------------------------------------
(* What was said, what was concluded from it and what was left aside.      *)

LEMMA QuietOnward ==
    ASSUME NEW s, Shaped(s)
    PROVE  Onward(s, Numbered(s)) /\ Onward(s, [s EXCEPT !.handoff = NoHandoff])
<1> DEFINE n == Numbered(s)
           u == [s EXCEPT !.handoff = NoHandoff]
<1>1. n.goals = s.goals /\ n.facts = s.facts
    BY NumberedIs DEF StateFields
<1>2. u.goals = s.goals /\ u.facts = s.facts
    BY DEF Shaped, StateFields
<1> HIDE DEF n, u
<1>3. Onward(s, n) /\ Onward(s, u)
    BY <1>1, <1>2, OnwardIs
<1> QED BY <1>3 DEF n, u

LEMMA SignalOnward ==
    ASSUME Reduces, NEW s, Ongoing(s), NEW g, NEW code, NEW value, NEW source
    PROVE  Onward(s, React(s, Signal(g, code, value, source)))
<1> DEFINE e == Signal(g, code, value, source)
           t == ApplyEvent(s, e)
<1>1. EventShaped(e) /\ EventKnown(e) /\ e.kind \notin {"SOCIAL", "HUMAN_REQUEST"}
    BY SignalIs
<1> HIDE DEF e
<1>2. Kept(Numbered(s), t)
    BY <1>1, ApplyEventMoved DEF Ongoing, Known, Moved
<1>3. React(s, e) = t
    BY DEF Reduces
<1> HIDE DEF t
<1>4. Onward(s, t)
    BY <1>2, QuietOnward, OnwardIs DEF Ongoing, Known
<1> QED BY <1>3, <1>4 DEF e

LEMMA SpeakingOnward ==
    ASSUME Reduces, NEW s, Ongoing(s)
    PROVE  Onward(s, React([s EXCEPT !.handoff = NoHandoff], EventOf("SOCIAL", <<>>)))
<1> DEFINE u == [s EXCEPT !.handoff = NoHandoff]
           e == EventOf("SOCIAL", <<>>)
           t == ApplyEvent(u, e)
<1>1. DOMAIN u = StateFields /\ \A f \in StateFields \ {"handoff"} : u[f] = s[f]
    BY DEF Ongoing, Known, Shaped, StateFields
<1>2. Onward(s, u)
    BY QuietOnward DEF Ongoing, Known
<1>3. e.kind = "SOCIAL"
    BY EventIs
<1> HIDE DEF u, e
<1>4. Shaped(u) /\ u.error = "none"
    BY <1>1 DEF Ongoing, Known, Shaped, StateFields
<1>5. t.goals = u.goals /\ t.facts = u.facts
    BY <1>3, <1>4, ApplyEventQuiet
<1>6. React(u, e) = t
    BY DEF Reduces
<1> HIDE DEF t
<1>7. Onward(s, t)
    BY <1>2, <1>5, OnwardIs
<1> QED BY <1>6, <1>7 DEF u, e

\* Whoever acts on the conversation, its goals and its facts go on from what they were.
LEMMA DialogueOnward ==
    ASSUME Reduces, DialogueIInv, [Next]_vars
    PROVE  Onward(conv, conv')
<1>0. Ongoing(conv) /\ Shaped(conv)
    BY DEF DialogueIInv, Ongoing, Known
<1>1. ASSUME NEW file \in BOOLEAN, NEW i \in Interpretations, Message(i, file)
      PROVE  Onward(conv, conv')
  <2>1. conv' = Planned(conv, i).state
    BY <1>1 DEF Message, Turn
  <2>2. Heeded(i)
    BY InterpretationIs
  <2> QED BY <1>0, <2>1, <2>2, PlannedIs DEF Ongoing
<1>2. ASSUME conv' = Numbered(conv)
      PROVE  Onward(conv, conv')
    BY <1>0, <1>2, QuietOnward
<1>3. ASSUME conv' = conv
      PROVE  Onward(conv, conv')
    BY <1>3, OnwardIs
<1>4. ASSUME NEW a \in conv.actions, NEW d \in Decisions, ResolveAction(a, d)
      PROVE  Onward(conv, conv')
  <2>1. conv' = React(conv, Signal(a.goal, d.fact, d.value, "SYSTEM"))
    BY <1>4 DEF ResolveAction, Commanded
  <2> QED BY <1>0, <2>1, SignalOnward
<1>5. ASSUME NEW d \in DOMAIN docs, NEW g \in DOMAIN conv.goals, NEW code,
             ClassifyDocument(d, g, code)
      PROVE  Onward(conv, conv')
  <2> DEFINE n == Numbered(conv)
  <2>1. conv' = React(n, Signal(g, code, FileName[d], "DOCUMENT"))
    BY <1>5 DEF ClassifyDocument, Commanded, Numbered
  <2>2. Ongoing(n) /\ Onward(conv, n)
    BY <1>0, NumberedOngoing, QuietOnward
  <2> HIDE DEF n
  <2>3. Onward(n, conv')
    BY <2>1, <2>2, SignalOnward
  <2> QED BY <2>2, <2>3, OnwardIs
<1>6. CASE Resume
  <2>1. conv' = React([conv EXCEPT !.handoff = NoHandoff], EventOf("SOCIAL", <<>>))
    BY <1>6 DEF Resume, Commanded
  <2> QED BY <1>0, <2>1, SpeakingOnward
<1>7. \/ \E file \in BOOLEAN : \E i \in Interpretations : Message(i, file)
      \/ conv' = Numbered(conv)
      \/ conv' = conv
      \/ \E a \in conv.actions, d \in Decisions : ResolveAction(a, d)
      \/ \E d \in DOMAIN docs, g \in DOMAIN conv.goals, code \in Identities :
            ClassifyDocument(d, g, code)
      \/ Resume
  <2>1. Information => conv' = Numbered(conv)
    BY DEF Information, Turn, Numbered
  <2>2. \A d, verdict : ReviewDocument(d, verdict) => conv' = Numbered(conv)
    BY DEF ReviewDocument, Commanded, Numbered
  <2>3. \A file : MessageToPerson(file) => conv' = conv
    BY DEF MessageToPerson
  <2>4. TakeOver \/ UNCHANGED vars => conv' = conv
    BY DEF TakeOver, vars
  <2> QED BY <2>1, <2>2, <2>3, <2>4 DEF Next
<1> QED BY <1>1, <1>2, <1>3, <1>4, <1>5, <1>6, <1>7

LEMMA FirstHasNone ==
    ASSUME Init
    PROVE  DOMAIN conv.goals = {} /\ DOMAIN conv.facts = {}
<1>1. conv.goals = <<>> /\ conv.facts = <<>>
    BY DEF Init, InitState
<1> QED BY <1>1, OneIs

\* Every conclusion in force was drawn from facts still in force (invalidateDependents),
\* for every catalogue whose rules conclude from what is below what they conclude: a
\* correction takes with it all that was concluded from it, at any depth.
THEOREM ConclusionsStandOnGrounds ==
    ASSUME Reduces, Stratified
    PROVE  Spec => []ConclusionsHaveGrounds
<1> DEFINE GroundsIInv == DialogueIInv /\ Grounded(conv)
<1>1. Init => GroundsIInv
  <2>1. Init => Grounded(conv)
    BY FirstHasNone DEF Grounded, InForce
  <2> QED BY <2>1, DialogueInitially
<1>2. GroundsIInv /\ [Next]_vars => GroundsIInv'
  <2> SUFFICES ASSUME GroundsIInv, [Next]_vars
               PROVE  DialogueIInv' /\ Grounded(conv')
    OBVIOUS
  <2>1. Onward(conv, conv')
    BY DialogueOnward
  <2>2. Grounded(conv')
    BY <2>1 DEF Onward, Steady, Firm
  <2> QED BY <2>2, DialogueStep
<1>3. GroundsIInv => ConclusionsHaveGrounds
    BY DEF ConclusionsHaveGrounds, Grounded, InForce, Active, Of
<1> HIDE DEF GroundsIInv
<1> QED BY <1>1, <1>2, <1>3, PTL DEF Spec

\* A goal left aside is owed something (resumeParent, applyEffects): a subflow still
\* open returns to it, or the citizen abandoned the one it needed, for every catalogue
\* whose relations suspend a goal only for a subflow that returns to it.
THEOREM NoGoalIsForgotten ==
    ASSUME Reduces, SubflowsReturn
    PROVE  Spec => []SuspensionIsOwed
<1> DEFINE OwedIInv == DialogueIInv /\ OwedBut(conv, {})
<1>1. Init => OwedIInv
  <2>1. Init => OwedBut(conv, {})
    BY FirstHasNone DEF OwedBut, GoalsWith
  <2> QED BY <2>1, DialogueInitially
<1>2. OwedIInv /\ [Next]_vars => OwedIInv'
  <2> SUFFICES ASSUME OwedIInv, [Next]_vars
               PROVE  DialogueIInv' /\ OwedBut(conv', {})
    OBVIOUS
  <2>1. Onward(conv, conv')
    BY DialogueOnward
  <2>2. OwedBut(conv', {})
    BY <2>1 DEF Onward, Steady, Owing
  <2> QED BY <2>2, DialogueStep
<1>3. OwedIInv => SuspensionIsOwed
    BY DEF SuspensionIsOwed, OwedBut
<1> HIDE DEF OwedIInv
<1> QED BY <1>1, <1>2, <1>3, PTL DEF Spec

\* What was recorded stays (recordFact, supersede, invalidateDependents): whoever acts,
\* a fact keeps its words, and one that no longer counts is never touched again.
THEOREM RecordedFactsStay ==
    ASSUME Reduces
    PROVE  Spec => RecordStays
<1>1. DialogueIInv /\ [Next]_vars => Recorded
    BY DialogueOnward DEF Onward, Steady, Firm, Stand, InForce, Of, Recorded
<1> QED BY <1>1, DialogueInvariant, PTL DEF Spec, RecordStays

\* The history of a conversation (recordFact, invalidateDependents): what was recorded
\* stays, and within a case whatever was established for a fact falls in the step that
\* corrects, replaces or contradicts it, for every catalogue in layers.
THEOREM RecordedFactsStand ==
    ASSUME Reduces, Stratified
    PROVE  Spec => FactsOnRecord
<1> DEFINE StandIInv == DialogueIInv /\ Grounded(conv) /\ Housed(conv)
           DependentsFell ==
               \A i, k \in Active : RestsOn(i, k) /\ CaseOf(conv, k) # 0 /\ Shaken(k)
                                    => conv'.facts[i].status # "ACTIVE"
<1>1. Init => StandIInv
  <2>1. Init => Grounded(conv) /\ Housed(conv)
    BY FirstHasNone DEF Grounded, Housed, InForce
  <2> QED BY <2>1, DialogueInitially
<1>2. StandIInv /\ [Next]_vars => StandIInv'
  <2> SUFFICES ASSUME StandIInv, [Next]_vars
               PROVE  DialogueIInv' /\ Grounded(conv') /\ Housed(conv')
    OBVIOUS
  <2>1. Onward(conv, conv')
    BY DialogueOnward
  <2>2. Grounded(conv') /\ Housed(conv')
    BY <2>1 DEF Onward, Steady, Firm
  <2> QED BY <2>2, DialogueStep
<1>3. StandIInv /\ [Next]_vars => Recorded /\ DependentsFell
  <2> SUFFICES ASSUME StandIInv, [Next]_vars
               PROVE  Recorded /\ DependentsFell
    OBVIOUS
  <2>1. Onward(conv, conv')
    BY DialogueOnward
  <2>2. Recorded
    BY <2>1 DEF Onward, Steady, Firm, Stand, InForce, Of, Recorded
  <2>3. Falling(conv, conv') /\ DOMAIN conv.facts \subseteq DOMAIN conv'.facts
    BY <2>1 DEF Onward, Steady, Firm
  <2>4. ASSUME NEW i \in Active, NEW k \in Active,
               RestsOn(i, k), CaseOf(conv, k) # 0, Shaken(k)
        PROVE  conv'.facts[i].status # "ACTIVE"
    <3>1. i \in InForce(conv) /\ k \in InForce(conv)
      BY DEF Active, InForce, Of
    <3>2. Based(conv, i, k)
      BY <2>4 DEF RestsOn, Based, Of
    <3>3. Disturbed(conv, conv', k)
      BY <2>4 DEF Shaken, Disturbed, Of
    <3>4. i \notin InForce(conv') /\ i \in DOMAIN conv'.facts
      BY <2>3, <3>1, <3>2, <3>3 DEF Falling, InForce
    <3> QED BY <3>4 DEF InForce
  <2> QED BY <2>2, <2>4
<1> HIDE DEF StandIInv
<1> QED BY <1>1, <1>2, <1>3, PTL DEF Spec, FactsOnRecord

-----------------------------------------------------------------------------
(***************************************************************************)
(* What a provider can do to a citizen, for every text, every answer of    *)
(* the provider, every proposal and every catalogue: the interpretation    *)
(* that reaches the planner is followed from the lexical interpreter       *)
(* through what an understanding may do to it, and the planner by the      *)
(* lemmas of ConversationEngine_proofs.                                    *)
(***************************************************************************)

\* the operators the modules are given are those of the code
Wired ==
    /\ Reduces
    /\ \A t, c : Lexical(t, c) = Interpret(t, c)
    /\ \A s, i : Plan(s, i) = Planned(s, i)
    /\ \A u, t, c : Interpreter(u, t, c) = OfficialInterpretation(u, t, c)

-----------------------------------------------------------------------------
(* The lexical interpreter.                                                *)

LEMMA HeardTexts ==
    /\ \A t \in Texts : IsSeq(t.facts)
    /\ \A p \in Proposals \ {NoProposal} : /\ DOMAIN p.heard = DOMAIN Unheard
                                           /\ IsSeq(p.heard.facts) /\ IsSeq(p.heard.secondary)
BY MotorAssumption DEF MotorAssumption, IsSeq

LEMMA UnheardIs ==
    /\ DOMAIN Unheard = InterpretationFields
    /\ Unheard.secondary = <<>> /\ Unheard.failed = FALSE
BY DEF Unheard, InterpretationFields

LEMMA StatedIs ==
    ASSUME NEW t \in Texts, NEW c
    PROVE  IsSeq(StatedFacts(t, c))
<1> DEFINE stated == Among(t.facts, {f \in ToSet(t.facts) : Counts(f, t, c)})
           told == [k \in DOMAIN stated |-> Candidate(stated[k], t)]
<1>1. IsSeq(stated)
    BY AmongIs, HeardTexts
<1>2. StatedFacts(t, c) = told
    BY DEF StatedFacts
<1> HIDE DEF stated
<1>3. IsSeq(told)
    BY <1>1, MapIsSeq
<1> QED BY <1>2, <1>3

\* What the lexicon finds is an interpretation, and a request for a person is
\* one the text makes.
LEMMA InterpretIs ==
    ASSUME NEW t \in Texts, NEW c
    PROVE  LET i == Interpret(t, c) IN
           /\ Heeded(i) /\ i.failed = FALSE
           /\ i.event = "HUMAN_REQUEST" => AsksPerson(t, c)
<1> DEFINE topic == ParallelTopic(t, c)
           stated == StatedFacts(t, c)
           facts == IF topic = "none" THEN stated ELSE Append(stated, TopicFact(topic, t))
           event == PrimaryEvent(t, c, topic, facts)
           i == Interpret(t, c)
<1>1. IsSeq(facts)
    BY StatedIs, AppendIs
<1>2. event = "HUMAN_REQUEST" => AsksPerson(t, c)
    BY DEF PrimaryEvent
<1>3. /\ DOMAIN i = InterpretationFields /\ i.facts = facts /\ i.secondary = <<>>
      /\ i.failed = FALSE /\ i.event = event
    BY UnheardIs DEF Interpret, InterpretationFields
<1> HIDE DEF facts, event, i
<1> QED BY <1>1, <1>2, <1>3, OneIs DEF Heeded, i

-----------------------------------------------------------------------------
(* What an understanding may do to it.                                     *)

LEMMA MediumIs ==
    ASSUME NEW i, Heeded(i), NEW event, NEW goal
    PROVE  LET m == Medium(i, event, goal) IN
           Heeded(m) /\ m.event = event /\ m.failed = i.failed
BY DEF Medium, Heeded, InterpretationFields

\* An understanding gives an interpretation; a request for a person is the one the
\* text makes; and where the text is no event, what is not cited makes none.
Follows(i, base, u) ==
    /\ Heeded(i) /\ i.failed = base.failed
    /\ i.event = "HUMAN_REQUEST" => base.event = "HUMAN_REQUEST"
    /\ base.event = "none" /\ ~u.cites => i.event \in {"none", "SOCIAL"}

LEMMA OpenedFollows ==
    ASSUME NEW base, Heeded(base), NEW u, NEW c
    PROVE  Follows(Opened(base, u, c), base, u)
<1> DEFINE m == Medium(base, "NEW_GOAL", SemanticGoal(u))
<1>1. Heeded(m) /\ m.event = "NEW_GOAL" /\ m.failed = base.failed
    BY MediumIs
<1>2. OpensGoal(base, u, c) => u.cites
    BY DEF OpensGoal
<1>3. Opened(base, u, c) = IF OpensGoal(base, u, c) THEN m ELSE base
    BY DEF Opened
<1> HIDE DEF m
<1> QED BY <1>1, <1>2, <1>3 DEF Follows

LEMMA RedirectedFollows ==
    ASSUME NEW base, NEW u, NEW c, NEW i, Follows(i, base, u)
    PROVE  Follows(Redirected(i, base, u, c), base, u)
<1> DEFINE m == Medium(i, "RECLASSIFICATION", SemanticGoal(u))
           left == [m EXCEPT !.caseKind = "CURRENT"]
<1>1. Heeded(m) /\ m.event = "RECLASSIFICATION" /\ m.failed = i.failed
    BY MediumIs DEF Follows
<1>2. Reclassified(i, base, u, c) => u.cites
    BY DEF Reclassified
<1>3. Redirected(i, base, u, c) = IF Reclassified(i, base, u, c) THEN left ELSE i
    BY DEF Redirected
<1> HIDE DEF m
<1>4. Heeded(left) /\ left.event = m.event /\ left.failed = m.failed
    BY <1>1 DEF Heeded, InterpretationFields
<1> HIDE DEF left
<1> QED BY <1>1, <1>2, <1>3, <1>4 DEF Follows

LEMMA FarewellFollows ==
    ASSUME NEW base, NEW u, NEW i, Follows(i, base, u)
    PROVE  Follows(Farewell(i, base, u), base, u)
<1> DEFINE social == [i EXCEPT !.event = "SOCIAL", !.goal = "none", !.goalLow = FALSE,
                               !.eventLow = FALSE, !.secondary = <<>>, !.clarify = FALSE]
<1>1. /\ DOMAIN social = DOMAIN i /\ social.event = "SOCIAL" /\ social.secondary = <<>>
      /\ social.facts = i.facts /\ social.failed = i.failed
    BY DEF Follows, Heeded, InterpretationFields
<1>2. Farewell(i, base, u) \in {social, i}
    BY DEF Farewell
<1> HIDE DEF social
<1>3. Follows(social, base, u)
    BY <1>1, OneIs DEF Follows, Heeded
<1> QED BY <1>2, <1>3

LEMMA TopicsFollow ==
    ASSUME NEW base, NEW u, NEW i, Follows(i, base, u), NEW others, IsSeq(others)
    PROVE  Follows(WithTopics(i, others), base, u)
<1> DEFINE topics == [k \in DOMAIN others |-> [goal |-> others[k], low |-> FALSE]]
           j == [i EXCEPT !.clarify = FALSE, !.secondary = topics]
<1>1. IsSeq(topics)
    BY MapIsSeq
<1>2. WithTopics(i, others) = j
    BY DEF WithTopics
<1> HIDE DEF topics
<1>3. /\ DOMAIN j = DOMAIN i /\ j.secondary = topics /\ j.facts = i.facts
      /\ j.event = i.event /\ j.failed = i.failed
    BY DEF Follows, Heeded, InterpretationFields
<1> HIDE DEF j
<1> QED BY <1>1, <1>2, <1>3 DEF Follows, Heeded

LEMMA ClarifyFollows ==
    ASSUME NEW base, NEW u, NEW i, Follows(i, base, u), NEW b
    PROVE  Follows([i EXCEPT !.clarify = b], base, u)
<1> DEFINE j == [i EXCEPT !.clarify = b]
<1>1. Heeded(j) /\ j.event = i.event /\ j.failed = i.failed
    BY DEF Follows, Heeded, InterpretationFields
<1> HIDE DEF j
<1>2. Follows(j, base, u)
    BY <1>1 DEF Follows
<1> QED BY <1>2 DEF j

LEMMA OthersAre ==
    ASSUME NEW i, NEW u, NEW t
    PROVE  IsSeq(OtherGoals(i, u, t))
<1> DEFINE S == (SemanticGoals(u) \ {i.goal})
                  \cap (IF LowUnderstanding(u) THEN OwnGoals(t) ELSE SemanticGoals(u))
<1>1. IsSeq(MappedGoals)
  <2>1. MappedGoals \in Seq({"EXUMACAO", "TRANSPORTE", "RECADASTRO", "CONCESSAO",
                             "JAZIGO_SERVICOS"})
    BY DEF MappedGoals
  <2> QED BY <2>1 DEF IsSeq
<1>2. OtherGoals(i, u, t) = Among(MappedGoals, S)
    BY DEF OtherGoals
<1> QED BY <1>1, <1>2, AmongIs

LEMMA ConcludedFollows ==
    ASSUME NEW base, NEW u, NEW t, NEW i, Follows(i, base, u)
    PROVE  Follows(Concluded(i, base, u, t), base, u)
<1> DEFINE j == IF KeepsTopics(i, base, u, t) THEN WithTopics(i, OtherGoals(i, u, t)) ELSE i
           b == (j.clarify \/ Unsure(i, base, u, t)) /\ u.risk # "P0" /\ base.event # "HUMAN_REQUEST"
<1>1. Follows(j, base, u)
    BY OthersAre, TopicsFollow
<1>2. Concluded(i, base, u, t) = [j EXCEPT !.clarify = b]
    BY DEF Concluded, Resolved
<1> HIDE DEF b, j
<1> QED BY <1>1, <1>2, ClarifyFollows

LEMMA ApplyUnderstandingFollows ==
    ASSUME NEW base, Heeded(base), NEW u, NEW t, NEW c
    PROVE  Follows(ApplyUnderstanding(base, u, t, c), base, u)
BY OpenedFollows, RedirectedFollows, FarewellFollows, ConcludedFollows DEF ApplyUnderstanding

\* The provider may raise a risk the text bears, never lower it nor make one up.
LEMMA MergedRisk ==
    ASSUME NEW u, GuardUnderstanding(u), NEW t, NEW c
    PROVE  LET m == MergeCurrentTurnSafetySignals(u, t, c) IN
           /\ OwnRisk(t) = "P0" => m.risk = "P0"
           /\ m.risk = "P0" => OwnRisk(t) # "none"
<1> DEFINE own == OwnRisk(t)
           risk == IF own = "none" THEN "none" ELSE Worst({own, u.risk})
           m == MergeCurrentTurnSafetySignals(u, t, c)
<1>1. \E w : DOMAIN w = UnderstandingFields /\ w.risk = u.risk
                /\ m = EnforceDeterministicRisk(t, w)
  <2> DEFINE same == GuardInterpretation(Lexical(t, c)).event \in Corrects \cup Completes
             w(a, b, d, e) == [u EXCEPT !.subintents = a, !.states = @ \cup b, !.changed = d, !.cites = @ \/ e]
  <2>1. \E a, b, d, e : m = EnforceDeterministicRisk(t, w(a, b, d, e))
    BY Zenon DEF MergeCurrentTurnSafetySignals
  <2>2. \A a, b, d, e : DOMAIN w(a, b, d, e) = UnderstandingFields /\ w(a, b, d, e).risk = u.risk
    BY DEF GuardUnderstanding, UnderstandingFields
  <2>3. PICK a, b, d, e : m = EnforceDeterministicRisk(t, w(a, b, d, e))
    BY <2>1
  <2>4. DOMAIN w(a, b, d, e) = UnderstandingFields /\ w(a, b, d, e).risk = u.risk
    BY <2>2
  <2> HIDE DEF w, m
  <2> QED BY <2>3, <2>4
<1>2. PICK w : DOMAIN w = UnderstandingFields /\ w.risk = u.risk
                  /\ m = EnforceDeterministicRisk(t, w)
    BY <1>1
<1>3. m.risk = risk
  <2> DEFINE v == [w EXCEPT !.risk = risk, !.critical = @ \/ risk = "P0"]
  <2>1. m = v
    BY <1>2 DEF EnforceDeterministicRisk, OwnRisk
  <2> HIDE DEF risk
  <2>2. v.risk = risk
    BY <1>2 DEF UnderstandingFields
  <2> QED BY <2>1, <2>2
<1>4. u.risk \in DOMAIN RiskRank
    BY DEF GuardUnderstanding
<1>5. own = "P0" => Worst({own, u.risk}) = "P0"
  <2> SUFFICES ASSUME own = "P0" PROVE Worst({"P0", u.risk}) = "P0"
    OBVIOUS
  <2>1. \A k \in {"P0", u.risk} : RiskRank[k] <= RiskRank["P0"]
    BY <1>4 DEF RiskRank
  <2>2. \A l \in {"P0", u.risk} : RiskRank["P0"] <= RiskRank[l] => l = "P0"
    BY <1>4 DEF RiskRank
  <2>3. \E l \in {"P0", u.risk} : \A k \in {"P0", u.risk} : RiskRank[k] <= RiskRank[l]
    BY <2>1
  <2>4. /\ Worst({"P0", u.risk}) \in {"P0", u.risk}
        /\ \A k \in {"P0", u.risk} : RiskRank[k] <= RiskRank[Worst({"P0", u.risk})]
    BY <2>3 DEF Worst
  <2> QED BY <2>2, <2>4
<1> HIDE DEF own, m
<1>6. (own = "P0" => m.risk = "P0") /\ (m.risk = "P0" => own # "none")
    BY <1>3, <1>5
<1> QED BY <1>6 DEF own, m

\* What the interpreter gives the planner.
LEMMA OfficialIs ==
    ASSUME Wired, NEW u, GuardUnderstanding(u), NEW t \in Texts, NEW c
    PROVE  LET i == Interpreter(u, t, c)
               m == MergeCurrentTurnSafetySignals(u, t, c) IN
           /\ Heeded(i) /\ i.failed = FALSE
           /\ OwnRisk(t) = "P0" => i.event = "HUMAN_REQUEST"
           /\ i.event = "HUMAN_REQUEST" => AsksPerson(t, c) \/ OwnRisk(t) # "none"
           /\ Lexical(t, c).event = "none" /\ ~m.cites =>
                 i.event \in {"none", "SOCIAL", "HUMAN_REQUEST"}
<1> DEFINE lexical == Interpret(t, c)
           base == GuardInterpretation(lexical)
           m == MergeCurrentTurnSafetySignals(u, t, c)
           read == ApplyUnderstanding(base, m, t, c)
           whole == [read EXCEPT !.p0 = m.risk = "P0", !.media = "MEDIA_NOT_ANALYZED" \in m.states,
                                 !.intentChanged = m.changed,
                                 !.closing = "CONVERSATION_CLOSING" \in m.states]
           handed == [whole EXCEPT !.event = "HUMAN_REQUEST", !.clarify = FALSE,
                                   !.eventLow = m.confidence = "low"]
           asked == [whole EXCEPT !.clarify = @ \/ whole.media]
           i == Interpreter(u, t, c)
<1>1. Lexical(t, c) = lexical
    BY DEF Wired
<1>2. i = IF m.risk = "P0" THEN handed ELSE asked
    BY Zenon, <1>1 DEF Wired, OfficialInterpretation
<1>3. /\ Heeded(lexical) /\ lexical.failed = FALSE
      /\ lexical.event = "HUMAN_REQUEST" => AsksPerson(t, c)
    BY InterpretIs
<1>4. /\ OwnRisk(t) = "P0" => m.risk = "P0"
      /\ m.risk = "P0" => OwnRisk(t) # "none"
    BY MergedRisk
<1> HIDE DEF lexical, m
<1>5. Heeded(base) /\ base.failed = lexical.failed /\ base.event = lexical.event
    BY <1>3, GuardIs DEF InterpretationFields
<1> HIDE DEF base
<1>6. Follows(read, base, m)
    BY <1>5, ApplyUnderstandingFollows
<1> HIDE DEF read
<1>7. Heeded(whole) /\ whole.event = read.event /\ whole.failed = read.failed
    BY <1>6 DEF Follows, Heeded, InterpretationFields
<1> HIDE DEF whole
<1>8. /\ Heeded(handed) /\ handed.event = "HUMAN_REQUEST" /\ handed.failed = whole.failed
      /\ Heeded(asked) /\ asked.event = whole.event /\ asked.failed = whole.failed
    BY <1>7 DEF Heeded, InterpretationFields
<1> HIDE DEF handed, asked, i
<1>9. /\ Heeded(i) /\ i.failed = FALSE
      /\ i.event \in {"HUMAN_REQUEST", read.event}
      /\ m.risk = "P0" => i.event = "HUMAN_REQUEST"
      /\ m.risk # "P0" => i.event = read.event
    BY <1>2, <1>3, <1>5, <1>6, <1>7, <1>8 DEF Follows
<1>10. i.event = "HUMAN_REQUEST" => AsksPerson(t, c) \/ OwnRisk(t) # "none"
    BY <1>3, <1>4, <1>5, <1>6, <1>9 DEF Follows
<1>11. lexical.event = "none" /\ ~m.cites => i.event \in {"none", "SOCIAL", "HUMAN_REQUEST"}
    BY <1>5, <1>6, <1>9 DEF Follows
<1> QED BY <1>1, <1>4, <1>9, <1>10, <1>11 DEF i, m

\* What the workflow gives it: the model's interpretation, with the text's own anchors.
LEMMA ReconciledIs ==
    ASSUME Wired, NEW t \in Texts, NEW c, NEW llm, Heeded(llm)
    PROVE  Heeded(ReconcileOfficialAnchors(t, c, llm))
<1> DEFINE own == GuardInterpretation(Lexical(t, c))
           r == ReconcileOfficialAnchors(t, c, llm)
<1>1. Heeded(own)
  <2>1. Heeded(Interpret(t, c))
    BY InterpretIs
  <2> QED BY <2>1, GuardIs DEF Wired
<1>2. ASSUME NEW facts, IsSeq(facts), NEW goal, NEW event, NEW clarify
      PROVE  Heeded([llm EXCEPT !.facts = facts, !.goal = goal, !.event = event, !.clarify = clarify])
    BY <1>2 DEF Heeded, InterpretationFields
<1>3. ASSUME NEW S, NEW T
      PROVE  IsSeq(Among(llm.facts, S) \o Among(own.facts, T))
  <2>1. IsSeq(Among(llm.facts, S)) /\ IsSeq(Among(own.facts, T))
    BY <1>1, AmongIs DEF Heeded
  <2> DEFINE p == Among(llm.facts, S)
             q == Among(own.facts, T)
             U == {p[k] : k \in DOMAIN p} \cup {q[k] : k \in DOMAIN q}
  <2>2. (\A k \in DOMAIN p : p[k] \in U) /\ (\A k \in DOMAIN q : q[k] \in U)
    OBVIOUS
  <2> HIDE DEF p, q, U
  <2>3. IsSeq(p \o q)
    BY <2>1, <2>2, ConcatIs DEF p, q
  <2> QED BY <2>3 DEF p, q
<1> DEFINE foreign == {f \in ToSet(llm.facts) : f.code \notin Anchors}
           anchors == {f \in ToSet(own.facts) : f.code \in Anchors}
           complaint == own.event = "COMPLAINT"
           anchored == [llm EXCEPT
               !.facts = Among(llm.facts, foreign) \o Among(own.facts, anchors),
               !.goal = IF own.goal # "none" THEN own.goal
                        ELSE IF c.goal = "JAZIGO_SERVICOS" THEN c.goal ELSE @,
               !.event = IF complaint THEN own.event ELSE @,
               !.clarify = IF complaint THEN own.clarify ELSE @]
<1>4. r \in {own, anchored, llm}
    BY DEF ReconcileOfficialAnchors
<1>5. Heeded(anchored)
  <2> DEFINE facts == Among(llm.facts, foreign) \o Among(own.facts, anchors)
             goal == IF own.goal # "none" THEN own.goal
                     ELSE IF c.goal = "JAZIGO_SERVICOS" THEN c.goal ELSE llm.goal
             event == IF complaint THEN own.event ELSE llm.event
             clarify == IF complaint THEN own.clarify ELSE llm.clarify
  <2>1. IsSeq(facts)
    BY <1>3
  <2>2. anchored = [llm EXCEPT !.facts = facts, !.goal = goal, !.event = event, !.clarify = clarify]
    BY DEF Heeded, InterpretationFields
  <2> HIDE DEF facts, goal, event, clarify, anchored
  <2> QED BY <1>2, <2>1, <2>2
<1> HIDE DEF anchored, own, r
<1> QED BY <1>1, <1>4, <1>5 DEF r

LEMMA AdapterIs ==
    ASSUME Wired, NEW t \in Texts, NEW c, NEW p \in Proposals
    PROVE  Heeded(AdapterInterpret(t, c, p))
<1> DEFINE told == GuardInterpretation(p.heard)
           read == ReconcileOfficialAnchors(t, c, told)
           unsafe == \/ read.blocking \/ read.caseKind = "AMBIGUOUS" \/ read.eventLow
                     \/ \E k \in DOMAIN read.facts : read.facts[k].confirm
           b == read.clarify \/ unsafe
<1>1. CASE p = NoProposal
  <2>1. AdapterInterpret(t, c, p) = GuardInterpretation(Interpret(t, c))
    BY <1>1 DEF AdapterInterpret, Wired
  <2> QED BY <2>1, InterpretIs, GuardIs
<1>2. CASE p # NoProposal
  <2>1. Heeded(p.heard)
    BY <1>2, HeardTexts, UnheardIs DEF Heeded
  <2>2. Heeded(told)
    BY <2>1, GuardIs
  <2> HIDE DEF told
  <2>3. Heeded(read)
    BY <2>2, ReconciledIs
  <2>4. AdapterInterpret(t, c, p) = [read EXCEPT !.clarify = b]
    BY <1>2 DEF AdapterInterpret, told
  <2> HIDE DEF read, b
  <2>5. Heeded([read EXCEPT !.clarify = b])
    BY <2>3, ClarifyIs
  <2> QED BY <2>4, <2>5
<1> QED BY <1>1, <1>2

-----------------------------------------------------------------------------
(* The planner, of what an interpreter gives.                              *)

LEMMA PlanOfIs ==
    ASSUME Wired, NEW s, Shaped(s), s.error = "none", s.seq \in Nat, NEW t, NEW i, Heeded(i)
    PROVE  LET n == PlanOf(s, t, i).state IN
           /\ Shaped(n) /\ n.error = "none" /\ n.seq \in Nat
           /\ i.event # "HUMAN_REQUEST" => n.handoff = s.handoff
           /\ i.event \in {"none", "SOCIAL", "HUMAN_REQUEST"} =>
                 n.goals = s.goals /\ n.facts = s.facts
           /\ i.event = "HUMAN_REQUEST" /\ ~i.failed /\ ~Marks(t, {"restart", "explanation"}) =>
                 n.handoff # NoHandoff
<1> DEFINE j == [i EXCEPT !.status = ContextualStatus(s, t, GuardInterpretation(i)),
                          !.restart = "restart" \in t.says,
                          !.explained = "explanation" \in t.says]
           n == Planned(s, j).state
<1>1. PlanOf(s, t, i).state = n
    BY Zenon DEF PlanOf, Wired
<1>2. /\ Heeded(j) /\ j.event = i.event /\ j.failed = i.failed
      /\ j.status = ContextualStatus(s, t, GuardInterpretation(i))
      /\ j.restart = ("restart" \in t.says) /\ j.explained = ("explanation" \in t.says)
    BY DEF Heeded, InterpretationFields
<1>3. i.event = "HUMAN_REQUEST" => ~j.status
  <2>1. GuardInterpretation(i).event = i.event
    BY GuardIs DEF InterpretationFields
  <2>2. i.event = "HUMAN_REQUEST" => ~ContextualStatus(s, t, GuardInterpretation(i))
    BY <2>1 DEF ContextualStatus
  <2> QED BY <1>2, <2>2
<1>4. ~Marks(t, {"restart", "explanation"}) => ~j.restart /\ ~j.explained
    BY <1>2 DEF Marks
<1> HIDE DEF j
<1>5. /\ Shaped(n) /\ n.error = "none" /\ n.seq \in Nat
      /\ j.event # "HUMAN_REQUEST" => n.handoff = s.handoff
      /\ j.event \in {"none", "SOCIAL", "HUMAN_REQUEST"} => n.goals = s.goals /\ n.facts = s.facts
      /\ j.event = "HUMAN_REQUEST" /\ ~(j.explained \/ j.restart \/ j.failed \/ j.status) =>
            n.handoff # NoHandoff
    BY <1>2, PlannedIs DEF Wired
<1> HIDE DEF n
<1> QED BY <1>1, <1>2, <1>3, <1>4, <1>5

-----------------------------------------------------------------------------
(* The conversation.                                                       *)

\* The conversation has the shape of one, between two messages.
Conversing == Shaped(chat) /\ chat.error = "none" /\ chat.seq \in Nat
MotorIInv == Conversing /\ P0ReachesTeam /\ HandoffHasGrounds

\* What a message does through Motor V2.
LEMMA MotorStep ==
    ASSUME Wired, Conversing, NEW t \in Texts, NEW reply, HearByMotorV2(t, reply)
    PROVE  /\ Conversing' /\ P0ReachesTeam' /\ HandoffHasGrounds'
           /\ Understood' /\ ~heard'.cites /\ ~heard'.event =>
                 chat'.goals = chat.goals /\ chat'.facts = chat.facts
<1> DEFINE u == Understand(reply)
           c == ContextOf(chat)
           i == IF u = Failure THEN Lexical(t, c) ELSE Interpreter(u, t, c)
           n == PlanOf(chat, t, i).state
<1>1. /\ chat.handoff = NoHandoff /\ chat' = n /\ heard' = Heard(chat, t, u)
    BY DEF HearByMotorV2, MayHear, MotorV2Plan
<1>2. u = Failure \/ (u # Failure /\ GuardUnderstanding(u))
    BY DEF Understand
<1>3. ASSUME GuardUnderstanding(u)
      PROVE  u \notin {Failure, NoProposal} /\ u.confidence \in {"low", "medium", "high"}
  <2>1. DOMAIN u = UnderstandingFields /\ u.confidence \in {"low", "medium", "high"}
    BY <1>3 DEF GuardUnderstanding
  <2>2. DOMAIN Failure = {"kind"} /\ DOMAIN NoProposal = {"kind"} /\ "kind" \notin UnderstandingFields
    BY DEF Failure, NoProposal, UnderstandingFields
  <2>3. "risk" \in UnderstandingFields
    BY DEF UnderstandingFields
  <2> HIDE DEF u
  <2> QED BY <2>1, <2>2, <2>3
<1> DEFINE m == MergeCurrentTurnSafetySignals(u, t, c)
<1>4. /\ heard'.risk = OwnRisk(t) /\ heard'.asks = AsksPerson(t, c)
      /\ heard'.navigates = Marks(t, {"restart", "explanation"})
      /\ heard'.event = (Lexical(t, c).event # "none")
      /\ heard'.answer = (IF u \in {Failure, NoProposal} THEN "failed" ELSE u.confidence)
      /\ heard'.cites = (u # Failure /\ m.cites)
    BY <1>1, Zenon DEF Heard
<1> HIDE DEF u, c, m
<1>5. ASSUME u = Failure
      PROVE  /\ Heeded(i) /\ ~Understood'
             /\ i.event = "HUMAN_REQUEST" => AsksPerson(t, c)
  <2>1. i = Interpret(t, c)
    BY <1>5 DEF Wired
  <2>2. heard'.answer = "failed"
    BY <1>4, <1>5
  <2> HIDE DEF i
  <2> QED BY <2>1, <2>2, InterpretIs DEF Understood
<1>6. ASSUME u # Failure
      PROVE  /\ Heeded(i) /\ i.failed = FALSE
             /\ OwnRisk(t) = "P0" => i.event = "HUMAN_REQUEST"
             /\ i.event = "HUMAN_REQUEST" => AsksPerson(t, c) \/ OwnRisk(t) # "none"
             /\ Lexical(t, c).event = "none" /\ ~m.cites =>
                   i.event \in {"none", "SOCIAL", "HUMAN_REQUEST"}
  <2>1. GuardUnderstanding(u) /\ i = Interpreter(u, t, c)
    BY <1>2, <1>6
  <2> HIDE DEF i
  <2> QED BY <2>1, OfficialIs DEF m
<1> HIDE DEF i
<1>7. Heeded(i)
    BY <1>5, <1>6
<1>8. /\ Shaped(n) /\ n.error = "none" /\ n.seq \in Nat
      /\ i.event # "HUMAN_REQUEST" => n.handoff = chat.handoff
      /\ i.event \in {"none", "SOCIAL", "HUMAN_REQUEST"} =>
            n.goals = chat.goals /\ n.facts = chat.facts
      /\ i.event = "HUMAN_REQUEST" /\ ~i.failed /\ ~Marks(t, {"restart", "explanation"}) =>
            n.handoff # NoHandoff
    BY <1>7, PlanOfIs DEF Conversing
<1> HIDE DEF n
<1>9. Conversing'
    BY <1>1, <1>8 DEF Conversing
<1>10. P0ReachesTeam'
    BY <1>1, <1>4, <1>5, <1>6, <1>8 DEF P0ReachesTeam, Understood
<1>11. HandoffHasGrounds'
    BY <1>1, <1>4, <1>5, <1>6, <1>8 DEF HandoffHasGrounds
<1>12. Understood' /\ ~heard'.cites /\ ~heard'.event =>
          chat'.goals = chat.goals /\ chat'.facts = chat.facts
    BY <1>1, <1>4, <1>5, <1>6, <1>8
<1> QED BY <1>9, <1>10, <1>11, <1>12

\* ... and through the workflow.
LEMMA WorkflowStep ==
    ASSUME Wired, Conversing, NEW t \in Texts, NEW p \in Proposals, HearByWorkflow(t, p)
    PROVE  Conversing' /\ heard' = Silence
<1> DEFINE i == AdapterInterpret(t, ContextOf(chat), p)
<1>1. heard' = Silence /\ chat' = PlanOf(chat, t, i).state
    BY DEF HearByWorkflow, WorkflowPlan
<1>2. Heeded(i)
    BY AdapterIs
<1> HIDE DEF i
<1> QED BY <1>1, <1>2, PlanOfIs DEF Conversing

LEMMA SilenceIs == Silence.answer = "none"
BY DEF Silence

LEMMA MotorInductive ==
    ASSUME Wired, MotorIInv, [MotorNext]_motorVars
    PROVE  /\ MotorIInv'
           /\ \/ Understood' /\ ~heard'.cites /\ ~heard'.event =>
                    chat'.goals = chat.goals /\ chat'.facts = chat.facts
              \/ UNCHANGED motorVars
<1>1. ASSUME NEW t \in Texts, NEW reply \in Replies, HearByMotorV2(t, reply)
      PROVE  MotorIInv' /\ (Understood' /\ ~heard'.cites /\ ~heard'.event =>
                               chat'.goals = chat.goals /\ chat'.facts = chat.facts)
    BY <1>1, MotorStep DEF MotorIInv
<1>2. ASSUME NEW t \in Texts, NEW p \in Proposals, HearByWorkflow(t, p)
      PROVE  MotorIInv' /\ ~Understood'
  <2>1. Conversing' /\ heard' = Silence
    BY <1>2, WorkflowStep DEF MotorIInv
  <2> QED BY <2>1, SilenceIs DEF MotorIInv, P0ReachesTeam, HandoffHasGrounds, Understood, ByMotorV2
<1>3. CASE UNCHANGED motorVars
    BY <1>3 DEF motorVars, MotorIInv, Conversing, P0ReachesTeam, HandoffHasGrounds, Understood, ByMotorV2
<1> QED BY <1>1, <1>2, <1>3 DEF MotorNext

LEMMA MotorInitially == MotorInit => MotorIInv
BY InitShaped, SilenceIs DEF MotorInit, MotorIInv, Conversing, P0ReachesTeam, HandoffHasGrounds,
                             Understood, ByMotorV2

LEMMA MotorInvariant ==
    ASSUME Wired
    PROVE  MotorSpec => []MotorIInv
<1>1. MotorInit => MotorIInv
    BY MotorInitially
<1>2. MotorIInv /\ [MotorNext]_motorVars => MotorIInv'
    BY MotorInductive
<1> QED BY <1>1, <1>2, PTL DEF MotorSpec

\* A text that bears a formal P0 signal hands the conversation to the team, whatever
\* the provider answers about it (enforceDeterministicRisk to the reducer), for every
\* text, answer and catalogue.
THEOREM P0AlwaysReachesTeam ==
    ASSUME Wired
    PROVE  MotorSpec => []P0ReachesTeam
<1>1. MotorIInv => P0ReachesTeam
    BY DEF MotorIInv
<1> QED BY <1>1, MotorInvariant, PTL

\* No conversation is handed over on the word of a provider alone.
THEOREM HandoffsHaveGrounds ==
    ASSUME Wired
    PROVE  MotorSpec => []HandoffHasGrounds
<1>1. MotorIInv => HandoffHasGrounds
    BY DEF MotorIInv
<1> QED BY <1>1, MotorInvariant, PTL

\* A classification that cites nothing the citizen wrote in this turn moves nothing
\* by itself (semantic claims without evidence fail closed).
THEOREM UncitedHintsMoveNothing ==
    ASSUME Wired
    PROVE  MotorSpec => UncitedHintsFailClosed
<1>1. MotorIInv /\ [MotorNext]_motorVars =>
         [Understood' /\ ~heard'.cites /\ ~heard'.event =>
             chat'.goals = chat.goals /\ chat'.facts = chat.facts]_motorVars
    BY MotorInductive
<1> QED BY <1>1, MotorInvariant, PTL DEF MotorSpec, UncitedHintsFailClosed
=============================================================================
