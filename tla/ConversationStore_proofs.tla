---------------------- MODULE ConversationStore_proofs ----------------------
(***************************************************************************)
(* The session event store, for every catalogue, every set of servers and  *)
(* every set of messages of the form the bridge makes.  First what a step  *)
(* of the reducer does to what the store replays (Lawful): pending actions *)
(* stay a finite set without two of one kind, a fact the administration    *)
(* answers for comes from a signal only, cases are only added.  Then the   *)
(* operations of a difference, in the order they are applied.              *)
(***************************************************************************)
EXTENDS ConversationStore, ConversationEngine_proofs
LOCAL INSTANCE SequencesExt
LOCAL INSTANCE FiniteSetsExt

\* Each goal awaits an action once.
OneEach(actions) ==
    \A a, b \in actions : a.action = b.action /\ a.goal = b.goal => a = b
\* A fact the administration answers for was one before, or is covered by a signal.
Signed(C, s, t) ==
    \A i \in DOMAIN t.facts : t.facts[i].authoritative =>
        \/ t.facts[i].code \in C
        \/ i \in DOMAIN s.facts /\ s.facts[i].authoritative /\ s.facts[i].code = t.facts[i].code
Extends(q, r) == IsSeq(r) /\ \A k \in DOMAIN q : k \in DOMAIN r /\ r[k] = q[k]
Lawful(C, s, t) ==
    /\ Shaped(t) /\ t.seq = s.seq /\ DOMAIN s.goals \subseteq DOMAIN t.goals
    /\ DOMAIN s.facts \subseteq DOMAIN t.facts /\ Signed(C, s, t)
    /\ IsSeq(s.cases) => Extends(s.cases, t.cases)
    /\ IsFiniteSet(s.actions) => IsFiniteSet(t.actions)
    /\ OneEach(s.actions) => OneEach(t.actions)
    /\ \A a \in t.actions \ s.actions : a = [action |-> a.action, goal |-> a.goal, asked |-> s.seq]

-----------------------------------------------------------------------------
(* Where a list is folded, what holds of every intermediate result.        *)

LEMMA LawfulSelf == ASSUME NEW C, NEW s, Shaped(s) PROVE Lawful(C, s, s)
BY DEF Lawful, Signed, Extends

LEMMA LawfulTrans ==
    ASSUME NEW C, NEW s, NEW t, NEW u, Lawful(C, s, t), Lawful(C, t, u)
    PROVE  Lawful(C, s, u)
<1>1. Signed(C, s, u)
  <2> SUFFICES ASSUME NEW i \in DOMAIN u.facts, u.facts[i].authoritative, u.facts[i].code \notin C
               PROVE  /\ i \in DOMAIN s.facts /\ s.facts[i].authoritative
                      /\ s.facts[i].code = u.facts[i].code
    BY DEF Signed
  <2>1. i \in DOMAIN t.facts /\ t.facts[i].authoritative /\ t.facts[i].code = u.facts[i].code
    BY DEF Lawful, Signed
  <2> QED BY <2>1 DEF Lawful, Signed
<1>2. IsSeq(s.cases) => Extends(s.cases, u.cases)
    BY DEF Lawful, Extends
<1>3. \A a \in u.actions \ s.actions : a = [action |-> a.action, goal |-> a.goal, asked |-> s.seq]
    BY DEF Lawful
<1> QED BY <1>1, <1>2, <1>3 DEF Lawful

\* Nothing the store replays is touched.
LEMMA LawfulSame ==
    ASSUME NEW C, NEW s, NEW t, Shaped(t), DOMAIN s.goals \subseteq DOMAIN t.goals,
           \A f \in {"seq", "facts", "cases", "actions"} : t[f] = s[f]
    PROVE  Lawful(C, s, t)
<1>1. t.seq = s.seq /\ t.facts = s.facts /\ t.cases = s.cases /\ t.actions = s.actions
    OBVIOUS
<1>2. IsSeq(s.cases) => Extends(s.cases, t.cases)
    BY <1>1 DEF Extends
<1>3. Signed(C, s, t)
    BY <1>1 DEF Signed
<1> QED BY <1>1, <1>2, <1>3 DEF Lawful

LEMMA LawfulMarks ==
    ASSUME NEW C, NEW s, Shaped(s), NEW why
    PROVE  Lawful(C, s, Fail(s, why)) /\ Lawful(C, s, Changed(s)) /\ Lawful(C, s, Stopped(s, why))
<1>1. Shaped(Fail(s, why)) /\ Shaped(Changed(s)) /\ Shaped(Stopped(s, why))
    BY ErrorWithin DEF Within
<1>2. Lawful(C, s, Fail(s, why)) /\ Lawful(C, s, Changed(s))
  <2>1. /\ \A f \in {"seq", "facts", "cases", "actions"} : Fail(s, why)[f] = s[f]
        /\ \A f \in {"seq", "facts", "cases", "actions"} : Changed(s)[f] = s[f]
        /\ Fail(s, why).goals = s.goals /\ Changed(s).goals = s.goals
    BY DEF Fail, Changed, Shaped, StateFields
  <2> QED BY <1>1, <2>1, LawfulSame
<1> QED BY <1>2, LawfulSelf DEF Stopped

-----------------------------------------------------------------------------
(* Facts.                                                                  *)

\* Only the facts are other ones.
LEMMA LawfulFacts ==
    ASSUME NEW C, NEW s, Shaped(s), NEW t, DOMAIN t = DOMAIN s,
           \A f \in DOMAIN s : f # "facts" => t[f] = s[f],
           IsSeq(t.facts), DOMAIN s.facts \subseteq DOMAIN t.facts, Signed(C, s, t),
           \A i \in DOMAIN t.facts : /\ DOMAIN t.facts[i] = FactFields
                                     /\ t.facts[i].code \in DOMAIN FactDef
    PROVE  Lawful(C, s, t)
<1>1. \A f \in StateFields \ {"facts"} : t[f] = s[f]
    BY DEF Shaped
<1>2. /\ t.goals = s.goals /\ t.seq = s.seq /\ t.cases = s.cases /\ t.actions = s.actions
      /\ t.parked = s.parked
    BY <1>1 DEF StateFields
<1>3. Shaped(t)
    BY <1>2 DEF Shaped
<1>4. IsSeq(s.cases) => Extends(s.cases, t.cases)
    BY <1>2 DEF Extends
<1> QED BY <1>2, <1>3, <1>4 DEF Lawful

LEMMA RetireLawful ==
    ASSUME NEW C, NEW s, Shaped(s), NEW I, NEW why, NEW by
    PROVE  /\ Lawful(C, s, Retire(s, I, why, by))
           /\ DOMAIN Retire(s, I, why, by).facts = DOMAIN s.facts
<1> DEFINE t == Retire(s, I, why, by)
<1>1. /\ DOMAIN t = DOMAIN s /\ \A f \in DOMAIN s : f # "facts" => t[f] = s[f]
      /\ IsSeq(t.facts) /\ DOMAIN t.facts = DOMAIN s.facts
      /\ \A i \in DOMAIN s.facts :
            /\ DOMAIN t.facts[i] = FactFields
            /\ \A f \in {"code", "value", "owner", "at", "from"} : t.facts[i][f] = s.facts[i][f]
    BY RetireIs
<1>2. \A i \in DOMAIN s.facts :
         t.facts[i] = IF i \notin I THEN s.facts[i]
                      ELSE [s.facts[i] EXCEPT !.status = "SUPERSEDED", !.why = why,
                                              !.by = by, !.supAt = s.seq]
    BY DEF Retire, Shaped, StateFields
<1> HIDE DEF t
<1>3. \A i \in DOMAIN s.facts : t.facts[i].authoritative = s.facts[i].authoritative
    BY <1>2 DEF Shaped, FactFields
<1>4. \A i \in DOMAIN s.facts : t.facts[i].code = s.facts[i].code
    BY <1>1
<1>5. Signed(C, s, t)
    BY <1>1, <1>3, <1>4 DEF Signed
<1>6. \A i \in DOMAIN t.facts : /\ DOMAIN t.facts[i] = FactFields
                                /\ t.facts[i].code \in DOMAIN FactDef
    BY <1>1, <1>4 DEF Shaped
<1>7. Lawful(C, s, t)
    BY <1>1, <1>5, <1>6, LawfulFacts
<1> QED BY <1>1, <1>7 DEF t

LEMMA InvalidateLawful ==
    ASSUME NEW C, NEW s, Shaped(s), NEW i
    PROVE  /\ Lawful(C, s, InvalidateDependents(s, i))
           /\ DOMAIN InvalidateDependents(s, i).facts = DOMAIN s.facts
<1> DEFINE I == Fallen(s, i) \ {i}
           why == "DEPENDENCY_INVALIDATED"
           by == 0
<1>1. InvalidateDependents(s, i) = Retire(s, I, why, by)
    BY DEF InvalidateDependents, Fallen
<1> HIDE DEF I, why, by
<1> QED BY <1>1, RetireLawful

LEMMA SupersedeLawful ==
    ASSUME NEW C, NEW s, Shaped(s), NEW I, NEW why, NEW by
    PROVE  /\ Lawful(C, s, SupersedeAll(s, I, why, by))
           /\ DOMAIN SupersedeAll(s, I, why, by).facts = DOMAIN s.facts
<1> DEFINE env == [I |-> I, why |-> why, by |-> by]
           seq == [i \in DOMAIN s.facts |-> i]
           n == Len(s.facts)
           At(k) == Superseding!LeftAt(env, s, seq, k)
           Good(t) == Lawful(C, s, t) /\ DOMAIN t.facts = DOMAIN s.facts
           H == {k \in 0 .. n : Good(At(k))}
<1>1. env.I = I /\ env.why = why /\ env.by = by
    OBVIOUS
<1> HIDE DEF env
<1>2. SupersedeAll(s, I, why, by) = Superseding!Along(env, s, seq)
    BY <1>1, SupersedingIs
<1>3. n \in Nat /\ DOMAIN seq = 1 .. n
    BY SeqIs DEF Shaped
<1> HIDE DEF seq, n
<1>4. /\ Superseding!Along(env, s, seq) = At(n) /\ At(0) = s
      /\ \A k \in 1 .. n : At(k) = SupersedingOp(env, At(k - 1), seq[k])
  <2>1. Superseding!Along(env, s, seq) = At(n)
    BY <1>3, Superseding!AlongIsIter DEF Superseding!LeftAt
  <2>2. At(0) = s /\ \A k \in 1 .. n : At(k) = SupersedingOp(env, At(k - 1), seq[k])
    BY <1>3, Counting, Superseding!LeftAtIs DEF Superseding!Inductive
  <2> QED BY <2>1, <2>2
<1> HIDE DEF At
<1>5. ASSUME NEW t, Good(t), NEW i
      PROVE  Good(SupersedingOp(env, t, i))
  <2> DEFINE J == {i}
             u == Retire(t, J, why, by)
             v == InvalidateDependents(u, i)
  <2>1. Lawful(C, t, u) /\ DOMAIN u.facts = DOMAIN t.facts
    <3>1. Shaped(t)
      BY <1>5 DEF Lawful
    <3> HIDE DEF J
    <3> QED BY <3>1, RetireLawful
  <2>2. SupersedingOp(env, t, i) \in {t, v}
    BY <1>1 DEF SupersedingOp
  <2> HIDE DEF u
  <2>3. Lawful(C, u, v) /\ DOMAIN v.facts = DOMAIN u.facts
    BY <2>1, InvalidateLawful DEF Lawful
  <2> HIDE DEF v
  <2>4. Good(v)
    BY <1>5, <2>1, <2>3, LawfulTrans
  <2> HIDE DEF Good
  <2> QED BY <1>5, <2>2, <2>4
<1>6. Good(s)
    BY LawfulSelf
<1> HIDE DEF Good
<1>7. 0 \in H
    BY <1>3, <1>4, <1>6
<1>8. ASSUME NEW k \in 1 .. n, k - 1 \in H PROVE k \in H
    BY <1>3, <1>4, <1>5, <1>8
<1>9. n \in H
  <2> HIDE DEF H
  <2> QED BY <1>3, <1>7, <1>8, Counting, Superseding!UpTo DEF Superseding!Inductive
<1> QED BY <1>2, <1>4, <1>9 DEF Good

LEMMA ConfirmLawful ==
    ASSUME NEW C, NEW s, Shaped(s), NEW existing, existing \subseteq InForce(s),
           NEW i \in existing, NEW code, \A j \in existing : s.facts[j].code = code,
           NEW mode, NEW in, in.authoritative => code \in C, NEW confidence
    PROVE  Lawful(C, s, ConfirmFact(s, i, existing, mode, in, confidence))
<1> DEFINE why == CASE in.source = "USER_CORRECTION" -> "USER_CORRECTION"
                    [] mode = "DERIVE" -> "SYSTEM_REPLACEMENT"
                    [] OTHER -> "CHANGE_OF_MIND"
           others == existing \ {i}
           t == SupersedeAll(s, others, why, i)
           u == ConfirmFact(s, i, existing, mode, in, confidence)
<1>1. Lawful(C, s, t) /\ DOMAIN t.facts = DOMAIN s.facts
  <2> HIDE DEF others, why
  <2> QED BY SupersedeLawful
<1>2. u = [t EXCEPT
             !.facts[i].confidence = IF confidence # "UNCERTAIN" \/ @ # "CONFIRMED"
                                     THEN confidence ELSE @,
             !.facts[i].authoritative = @ \/ in.authoritative,
             !.facts[i].conflict = 0]
    BY DEF ConfirmFact
<1>3. Shaped(u)
  <2>1. Within(s, u)
    BY ConfirmWithin
  <2> QED BY <2>1 DEF Within
<1>4. t.facts[i].code = s.facts[i].code
  <2>1. Within(s, t)
    <3>1. others \subseteq InForce(s) /\ \A j \in others : s.facts[j].code = code
      BY DEF InForce
    <3> HIDE DEF others, why
    <3> QED BY <3>1, WithinSelf, SupersedeWithin
  <2> HIDE DEF t
  <2> QED BY <2>1 DEF Within, Steady, Firm, Stand, InForce
<1> HIDE DEF t, u
<1>5. /\ DOMAIN t = StateFields /\ DOMAIN t.facts[i] = FactFields /\ IsSeq(t.facts)
      /\ i \in DOMAIN t.facts /\ Shaped(t)
    BY <1>1 DEF Lawful, Shaped, InForce
<1>6. DOMAIN u = DOMAIN t /\ \A f \in DOMAIN t : f # "facts" => u[f] = t[f]
    BY <1>2, <1>5 DEF StateFields
<1>7. /\ DOMAIN u.facts = DOMAIN t.facts
      /\ u.facts[i].code = t.facts[i].code
      /\ u.facts[i].authoritative = (t.facts[i].authoritative \/ in.authoritative)
    BY <1>2, <1>5 DEF StateFields, FactFields
<1>8. \A j \in DOMAIN t.facts \ {i} : u.facts[j] = t.facts[j]
    BY <1>2, <1>5 DEF StateFields
<1>9. Signed(C, t, u)
    BY <1>4, <1>7, <1>8 DEF Signed
<1>10. Lawful(C, t, u)
    BY <1>3, <1>5, <1>6, <1>7, <1>9, LawfulFacts DEF Shaped
<1> QED BY <1>1, <1>10, LawfulTrans DEF u

LEMMA AddLawful ==
    ASSUME NEW C, NEW s, Shaped(s), NEW existing, existing \subseteq DOMAIN s.facts,
           NEW mode, NEW fact, DOMAIN fact = FactFields, fact.code \in DOMAIN FactDef,
           fact.authoritative => fact.code \in C
    PROVE  Lawful(C, s, AddFact(s, existing, FirstOf(existing), mode, fact))
<1> DEFINE first == FirstOf(existing)
           id == Len(s.facts) + 1
           alone == existing = {} \/ FactDef[fact.code].repeatable
           conflicts == ~alone /\ mode = "ASSERT" /\ s.facts[first].confidence = "CONFIRMED"
           why == IF fact.source = "USER_CORRECTION" THEN "USER_CORRECTION" ELSE "CHANGE_OF_MIND"
           f1 == [s.facts[first] EXCEPT !.confidence = "CONFLICTING"]
           f2 == [f1 EXCEPT !.conflict = id]
           F2 == [s.facts EXCEPT ![first] = f2]
           disputed == [s EXCEPT !.facts[first].confidence = "CONFLICTING",
                                 !.facts[first].conflict = id]
           gone == CASE alone -> {}
                     [] ~alone /\ mode = "ASSERT" -> {first}
                     [] OTHER -> existing
           because == IF mode = "SUPERSEDE" THEN why ELSE "SYSTEM_REPLACEMENT"
           kept == IF conflicts THEN InvalidateDependents(disputed, first)
                   ELSE SupersedeAll(s, gone, because, id)
           new == IF conflicts THEN [fact EXCEPT !.confidence = "CONFLICTING", !.conflict = first]
                  ELSE fact
           u == [kept EXCEPT !.facts = Append(@, new)]
<1>1. AddFact(s, existing, first, mode, fact) = u
    BY Zenon DEF AddFact
<1>2. /\ DOMAIN new = FactFields /\ new.code = fact.code
      /\ new.authoritative = fact.authoritative
    BY DEF FactFields
<1> HIDE DEF new
<1>3. ASSUME conflicts PROVE Lawful(C, s, disputed)
  <2>1. first \in DOMAIN s.facts
    <3>1. DOMAIN s.facts \subseteq Nat
      BY SeqIs DEF Shaped
    <3> QED BY <1>3, <3>1, SmallestIs DEF FirstOf
  <2> HIDE DEF first, id
  <2>2. DOMAIN s.facts[first] = FactFields /\ IsSeq(s.facts) /\ DOMAIN s = StateFields
    BY <2>1 DEF Shaped
  <2>3. disputed.facts = F2
    BY <2>1, <2>2 DEF StateFields, FactFields
  <2>4. DOMAIN disputed = DOMAIN s /\ \A f \in DOMAIN s : f # "facts" => disputed[f] = s[f]
    BY <2>2 DEF StateFields
  <2>5. /\ DOMAIN f2 = FactFields /\ f2.code = s.facts[first].code
        /\ f2.authoritative = s.facts[first].authoritative
    BY <2>2 DEF FactFields
  <2> HIDE DEF disputed, f2
  <2>6. IsSeq(F2) /\ DOMAIN F2 = DOMAIN s.facts
    BY <2>2, ExceptIsSeq
  <2>7. F2[first] = f2 /\ \A j \in DOMAIN s.facts \ {first} : F2[j] = s.facts[j]
    BY <2>1
  <2> HIDE DEF F2
  <2>8. Signed(C, s, disputed)
    BY <2>1, <2>3, <2>5, <2>6, <2>7 DEF Signed
  <2>9. \A i \in DOMAIN F2 : DOMAIN F2[i] = FactFields /\ F2[i].code \in DOMAIN FactDef
    BY <2>1, <2>5, <2>6, <2>7 DEF Shaped
  <2> QED BY <2>3, <2>4, <2>6, <2>8, <2>9, LawfulFacts
<1>4. Lawful(C, s, kept)
  <2>1. CASE conflicts
    <3>1. Shaped(disputed)
      BY <1>3, <2>1 DEF Lawful
    <3> HIDE DEF disputed, first
    <3>2. Lawful(C, disputed, InvalidateDependents(disputed, first))
      BY <3>1, InvalidateLawful
    <3> QED BY <1>3, <2>1, <3>2, LawfulTrans
  <2>2. CASE ~conflicts
    <3> HIDE DEF gone, because, id
    <3>1. Lawful(C, s, SupersedeAll(s, gone, because, id))
      BY SupersedeLawful
    <3> QED BY <2>2, <3>1
  <2> QED BY <2>1, <2>2
<1> HIDE DEF kept
<1>5. /\ IsSeq(kept.facts) /\ Shaped(kept) /\ DOMAIN kept = StateFields
      /\ \A j \in DOMAIN kept.facts : /\ DOMAIN kept.facts[j] = FactFields
                                      /\ kept.facts[j].code \in DOMAIN FactDef
    BY <1>4 DEF Lawful, Shaped
<1>6. u.facts = Append(kept.facts, new)
    BY <1>5 DEF StateFields
<1>7. DOMAIN u = DOMAIN kept /\ \A f \in DOMAIN kept : f # "facts" => u[f] = kept[f]
    BY <1>5 DEF StateFields
<1> HIDE DEF u
<1>8. /\ IsSeq(u.facts) /\ DOMAIN u.facts = 1 .. (Len(kept.facts) + 1)
      /\ \A i \in DOMAIN kept.facts : u.facts[i] = kept.facts[i]
      /\ u.facts[Len(kept.facts) + 1] = new
    BY <1>5, <1>6, AppendIs
<1>9. Len(kept.facts) \in Nat /\ DOMAIN kept.facts = 1 .. Len(kept.facts)
    BY <1>5, SeqIs
<1>10. \A i \in DOMAIN u.facts : i \in DOMAIN kept.facts \/ u.facts[i] = new
    BY <1>8, <1>9
<1>11. DOMAIN kept.facts \subseteq DOMAIN u.facts
    BY <1>8, <1>9
<1>12. Signed(C, kept, u)
    BY <1>2, <1>8, <1>10 DEF Signed
<1>13. \A i \in DOMAIN u.facts : DOMAIN u.facts[i] = FactFields /\ u.facts[i].code \in DOMAIN FactDef
    BY <1>2, <1>5, <1>8, <1>10
<1>14. Lawful(C, kept, u)
    BY <1>5, <1>7, <1>8, <1>11, <1>12, <1>13, LawfulFacts
<1> QED BY <1>1, <1>4, <1>14, LawfulTrans

\* A fact is the administration's only where its entry says so.
LEMMA RecordLawful ==
    ASSUME NEW C, NEW s, Shaped(s), NEW g, NEW in, in.authoritative => in.code \in C,
           NEW mode, NEW from
    PROVE  Lawful(C, s, RecordFact(s, g, in, mode, from))
<1>1. ASSUME in.code \in DOMAIN FactDef,
             NEW existing, existing \subseteq InForce(s),
             \A i \in existing : s.facts[i].code = in.code,
             NEW same, same \in {0} \cup existing,
             NEW fact, DOMAIN fact = FactFields, fact.code = in.code,
             fact.authoritative = in.authoritative
      PROVE  Lawful(C, s, RecordGiven(s, existing, same, in, mode, fact))
  <2> DEFINE I == {same} \ {0}
             reason == "SYSTEM_REPLACEMENT"
             none == 0
             t == SupersedeAll(s, I, reason, none)
             u == AddFact(t, existing, FirstOf(existing), mode, fact)
             v == ConfirmFact(s, same, existing, mode, in, fact.confidence)
             code == in.code
  <2>1. Lawful(C, s, t) /\ DOMAIN t.facts = DOMAIN s.facts
    <3> HIDE DEF I, reason, none
    <3> QED BY SupersedeLawful
  <2>2. RecordGiven(s, existing, same, in, mode, fact) \in {s, u, v}
    BY DEF RecordGiven
  <2> HIDE DEF t
  <2>3. Shaped(t) /\ existing \subseteq DOMAIN t.facts
    BY <1>1, <2>1 DEF Lawful, InForce
  <2>4. Lawful(C, t, u)
    BY <1>1, <2>3, AddLawful
  <2> HIDE DEF u
  <2>5. Lawful(C, s, u)
    BY <2>1, <2>4, LawfulTrans
  <2>6. same # 0 => Lawful(C, s, v)
    <3>1. \A j \in existing : s.facts[j].code = code
      BY <1>1
    <3>2. in.authoritative => code \in C
      OBVIOUS
    <3> HIDE DEF code
    <3> QED BY <1>1, <3>1, <3>2, ConfirmLawful
  <2>7. same = 0 => RecordGiven(s, existing, same, in, mode, fact) = u
    BY DEF RecordGiven, u, t
  <2> HIDE DEF v
  <2> QED BY <2>2, <2>5, <2>6, <2>7, LawfulSelf
<1>2. ASSUME in.code \in DOMAIN FactDef,
             NEW existing, existing \subseteq InForce(s),
             \A i \in existing : s.facts[i].code = in.code
      PROVE  Lawful(C, s, RecordAmong(s, existing, g, in, mode, from))
  <2> DEFINE alike == {i \in existing : s.facts[i].value = in.value}
             doubtful == Authoritative(in.code, in.value) /\ in.source # "DERIVED_RULE"
                         /\ ~in.authoritative
             fact == [code |-> in.code, owner |-> ScopeOwner(s, in.code, g),
                      value |-> in.value, source |-> in.source,
                      confidence |-> IF doubtful THEN "UNCERTAIN" ELSE in.confidence,
                      status |-> "ACTIVE", authoritative |-> in.authoritative, conflict |-> 0,
                      from |-> from, why |-> "none", by |-> 0, at |-> s.seq, supAt |-> 0]
             same == FirstOf(alike)
  <2>1. same \in {0} \cup existing
    <3>1. alike \subseteq existing /\ DOMAIN s.facts \subseteq Nat
      BY SeqIs DEF Shaped
    <3> HIDE DEF alike
    <3>2. alike \subseteq Nat
      BY <1>2, <3>1 DEF InForce
    <3> QED BY <3>1, <3>2, SmallestIs DEF FirstOf
  <2>2. /\ DOMAIN fact = FactFields /\ fact.code = in.code
        /\ fact.authoritative = in.authoritative
    BY DEF FactFields
  <2>3. RecordAmong(s, existing, g, in, mode, from) = RecordGiven(s, existing, same, in, mode, fact)
    BY Zenon DEF RecordAmong
  <2> HIDE DEF same, fact
  <2> QED BY <1>1, <1>2, <2>1, <2>2, <2>3
<1>3. /\ ActiveFacts(s, in.code, g) \subseteq InForce(s)
      /\ \A i \in ActiveFacts(s, in.code, g) : s.facts[i].code = in.code
    BY DEF ActiveFacts, InForce
<1>4. ASSUME in.code \in DOMAIN FactDef
      PROVE  Lawful(C, s, RecordAmong(s, ActiveFacts(s, in.code, g), g, in, mode, from))
  <2> DEFINE existing == ActiveFacts(s, in.code, g)
  <2>1. existing \subseteq InForce(s) /\ \A i \in existing : s.facts[i].code = in.code
    BY <1>3
  <2> HIDE DEF existing
  <2>2. Lawful(C, s, RecordAmong(s, existing, g, in, mode, from))
    BY <1>2, <1>4, <2>1
  <2> QED BY <2>2 DEF existing
<1> QED BY <1>4, LawfulMarks DEF RecordFact

-----------------------------------------------------------------------------
(* Goals and the effects of relations.                                     *)

\* Only goals move, and none goes away.
LEMMA LawfulGoals ==
    ASSUME NEW C, NEW s, Shaped(s), NEW t, DOMAIN t = DOMAIN s,
           \A f \in DOMAIN s : f # "goals" => t[f] = s[f],
           DOMAIN t.goals = DOMAIN s.goals, Shaped(t)
    PROVE  Lawful(C, s, t)
<1>1. \A f \in {"seq", "facts", "cases", "actions"} : t[f] = s[f]
    BY DEF Shaped, StateFields
<1> QED BY <1>1, LawfulSame

LEMMA SetGoalLawful ==
    ASSUME NEW C, NEW s, Shaped(s), NEW g, NEW status, NEW reason
    PROVE  Lawful(C, s, SetGoal(s, g, status, reason))
<1> DEFINE t == SetGoal(s, g, status, reason)
<1>1. Shaped(t)
    BY SetGoalWithin DEF Near
<1>2. /\ DOMAIN t = DOMAIN s /\ \A f \in DOMAIN s : f # "goals" => t[f] = s[f]
      /\ DOMAIN t.goals = DOMAIN s.goals
    BY SetGoalIs
<1> HIDE DEF t
<1>3. Lawful(C, s, t)
    BY <1>1, <1>2, LawfulGoals
<1> QED BY <1>3 DEF t

LEMMA ResumeLawful ==
    ASSUME NEW C, NEW s, Shaped(s), NEW g
    PROVE  Lawful(C, s, ResumeParent(s, g))
<1> DEFINE p == s.goals[g].parent
           status == "ACTIVE"
           t == SetGoal(s, p, status, NoReason)
<1>1. ResumeParent(s, g) \in {s, t}
    BY DEF ResumeParent
<1>2. Lawful(C, s, t)
  <2> HIDE DEF p, status
  <2> QED BY SetGoalLawful
<1> QED BY <1>1, <1>2, LawfulSelf

LEMMA PushLawful ==
    ASSUME NEW C, NEW s, Shaped(s), NEW code, NEW opts, opts.parent \in {0} \cup DOMAIN s.goals,
           SubflowsReturn /\ opts.suspend => opts.returns
    PROVE  Lawful(C, s, PushGoal(s, code, opts))
<1> DEFINE ref == IF opts.ref = <<>> THEN <<code, s.seq>> ELSE opts.ref
           case == CaseFor(s, GoalDef[code], ref, opts)
           t == PushGoal(s, code, opts)
           left == IF opts.parent = 0 \/ ~opts.suspend THEN s
                   ELSE [s EXCEPT !.goals[opts.parent].status = "SUSPENDED",
                                  !.goals[opts.parent].reason = Because("SUBFLOW", code)]
           new == [kind |-> GoalDef[code].case, ref |-> ref]
           goal == [code |-> code, case |-> case, status |-> "ACTIVE",
                    reason |-> NoReason, parent |-> opts.parent,
                    overlay |-> opts.overlay, returns |-> opts.returns,
                    relation |-> opts.relation, opened |-> s.seq, closed |-> 0]
<1>1. Shaped(t) /\ DOMAIN s.goals \subseteq DOMAIN t.goals
    BY PushWithin DEF Kept
<1>2. /\ DOMAIN left = DOMAIN s
      /\ \A f \in DOMAIN s : f # "goals" => left[f] = s[f]
    OBVIOUS
<1>3. t = [left EXCEPT !.cases = IF case <= Len(@) THEN @ ELSE Append(@, new),
                       !.goals = Append(@, goal)]
    BY Zenon DEF PushGoal, PushIn
<1> HIDE DEF left, new, goal, case, ref, t
<1>4. /\ \A f \in StateFields \ {"goals", "cases"} : t[f] = s[f]
      /\ t.cases \in {s.cases, Append(s.cases, new)}
    BY <1>2, <1>3 DEF Shaped, StateFields
<1>5. t.seq = s.seq /\ t.facts = s.facts /\ t.actions = s.actions
    BY <1>4 DEF StateFields
<1>6. IsSeq(s.cases) => Extends(s.cases, t.cases)
  <2>1. CASE t.cases = s.cases
    BY <2>1 DEF Extends
  <2>2. ASSUME IsSeq(s.cases), t.cases = Append(s.cases, new)
        PROVE  Extends(s.cases, t.cases)
    BY <2>2, AppendIs, SeqIs DEF Extends
  <2> QED BY <1>4, <2>1, <2>2
<1>7. Signed(C, s, t)
    BY <1>5 DEF Signed
<1>8. Lawful(C, s, t)
    BY <1>1, <1>5, <1>6, <1>7 DEF Lawful
<1> QED BY <1>8 DEF t

LEMMA AssertLawful ==
    ASSUME NEW C, NEW s, Shaped(s), NEW g, NEW e
    PROVE  Lawful(C, s, AssertDerived(s, g, e))
<1> DEFINE in == [code |-> e.fact, value |-> e.value, source |-> "DERIVED_RULE",
                  confidence |-> "CONFIRMED", authoritative |-> FALSE]
           mode == "DERIVE"
           from == {ActiveFact(s, c, g) : c \in e.from} \ {0}
           t == RecordFact(s, g, in, mode, from)
<1>1. AssertDerived(s, g, e) \in {s, Changed(t)}
    BY DEF AssertDerived
<1>2. ~in.authoritative
    OBVIOUS
<1>3. Lawful(C, s, t)
  <2> HIDE DEF in, mode, from
  <2> QED BY <1>2, RecordLawful
<1> HIDE DEF t
<1>4. Lawful(C, t, Changed(t))
    BY <1>3, LawfulMarks DEF Lawful
<1>5. Lawful(C, s, Changed(t))
    BY <1>3, <1>4, LawfulTrans
<1> QED BY <1>1, <1>5, LawfulSelf

LEMMA OpenSubflowLawful ==
    ASSUME NEW C, NEW s, Shaped(s), NEW g \in DOMAIN s.goals, NEW e, Effect(e),
           e.op = "push_goal", NEW relation
    PROVE  Lawful(C, s, OpenSubflow(s, g, e, relation))
<1> DEFINE opts == [NoOpts EXCEPT !.parent = g, !.suspend = e.suspend,
                                  !.returns = e.returns, !.relation = relation,
                                  !.case = s.goals[g].case]
           code == e.goal
           t == PushGoal(s, code, opts)
<1>1. OpenSubflow(s, g, e, relation) \in {s, Changed(t)}
    BY DEF OpenSubflow
<1>2. opts.parent = g /\ opts.suspend = e.suspend /\ opts.returns = e.returns
    BY DEF NoOpts
<1>3. Lawful(C, s, t)
  <2> HIDE DEF opts, code
  <2> QED BY <1>2, PushLawful DEF Effect
<1> HIDE DEF t
<1>4. Lawful(C, t, Changed(t))
    BY <1>3, LawfulMarks DEF Lawful
<1>5. Lawful(C, s, Changed(t))
    BY <1>3, <1>4, LawfulTrans
<1> QED BY <1>1, <1>5, LawfulSelf

LEMMA SatisfyLawful ==
    ASSUME NEW C, NEW s, Shaped(s), NEW g, NEW e
    PROVE  Lawful(C, s, SatisfyDependency(s, g, e))
<1> DEFINE env == [s |-> s, g |-> g, e |-> e]
           seq == [o \in DOMAIN s.goals |-> o]
           n == Len(s.goals)
           u == Closing!Along(env, s, seq)
           At(k) == Closing!LeftAt(env, s, seq, k)
           H == {k \in 0 .. n : Lawful(C, s, At(k))}
<1>1. env.s = s /\ env.g = g /\ env.e = e
    OBVIOUS
<1> HIDE DEF env
<1>2. SatisfyDependency(s, g, e) \in {s, Changed(u)}
  <2>1. SatisfyDependency(env.s, env.g, env.e)
          \in {env.s, Changed(Closing!Along(env, env.s, [o \in DOMAIN env.s.goals |-> o]))}
    BY ClosingIs
  <2> QED BY <1>1, <2>1
<1>3. n \in Nat /\ DOMAIN seq = 1 .. n
    BY SeqIs DEF Shaped
<1> HIDE DEF seq, n
<1>4. u = At(n)
    BY <1>3, Closing!AlongIsIter DEF Closing!LeftAt
<1>5. At(0) = s /\ \A k \in 1 .. n : At(k) = ClosingOp(env, At(k - 1), seq[k])
    BY <1>3, Counting, Closing!LeftAtIs DEF Closing!Inductive
<1> HIDE DEF At, u
<1>6. ASSUME NEW t, Lawful(C, s, t), NEW o
      PROVE  Lawful(C, s, ClosingOp(env, t, o))
  <2> DEFINE status == "ABANDONED"
             reason == Because(env.e.reason, "none")
             v == SetGoal(t, o, status, reason)
             w == ResumeParent(v, o)
  <2>1. ClosingOp(env, t, o) \in {t, w}
    BY DEF ClosingOp
  <2>2. Lawful(C, t, v)
    <3> HIDE DEF status, reason
    <3> QED BY <1>6, SetGoalLawful DEF Lawful
  <2> HIDE DEF v
  <2>3. Lawful(C, v, w)
    BY <2>2, ResumeLawful DEF Lawful
  <2> HIDE DEF w
  <2> QED BY <1>6, <2>1, <2>2, <2>3, LawfulTrans
<1>7. 0 \in H
    BY <1>3, <1>5, LawfulSelf
<1>8. ASSUME NEW k \in 1 .. n, k - 1 \in H PROVE k \in H
    BY <1>3, <1>5, <1>6, <1>8
<1>9. n \in H
  <2> HIDE DEF H
  <2> QED BY <1>3, <1>7, <1>8, Counting, Closing!UpTo DEF Closing!Inductive
<1>10. Lawful(C, s, u)
    BY <1>4, <1>9
<1>11. Lawful(C, u, Changed(u))
    BY <1>10, LawfulMarks DEF Lawful
<1>12. Lawful(C, s, Changed(u))
    BY <1>10, <1>11, LawfulTrans
<1> QED BY <1>2, <1>12, LawfulSelf

LEMMA SetStatusLawful ==
    ASSUME NEW C, NEW s, Shaped(s), NEW g, NEW e
    PROVE  Lawful(C, s, SetStatus(s, g, e))
<1> DEFINE reason == Because(e.reason, "none")
           status == e.status
           t == SetGoal(s, g, status, reason)
<1>1. SetStatus(s, g, e) \in {s, Changed(t)}
    BY DEF SetStatus
<1>2. Lawful(C, s, t)
  <2> HIDE DEF reason, status
  <2> QED BY SetGoalLawful
<1> HIDE DEF t
<1>3. Lawful(C, t, Changed(t))
    BY <1>2, LawfulMarks DEF Lawful
<1>4. Lawful(C, s, Changed(t))
    BY <1>2, <1>3, LawfulTrans
<1> QED BY <1>1, <1>4, LawfulSelf

\* Some actions go, and one is new that no other of them is.
LEMMA LawfulActions ==
    ASSUME NEW C, NEW s, Shaped(s), NEW A, NEW g \in DOMAIN s.goals, NEW action,
           A \subseteq s.actions \cup {[action |-> action, goal |-> g, asked |-> s.seq]},
           (\E a \in s.actions : a.action = action /\ a.goal = g) => A \subseteq s.actions
    PROVE  Lawful(C, s, [s EXCEPT !.actions = A])
<1> DEFINE new == [action |-> action, goal |-> g, asked |-> s.seq]
           t == [s EXCEPT !.actions = A]
<1>1. new.goal = g /\ new.action = action
    OBVIOUS
<1>2. \A a \in A \ s.actions : a = [action |-> a.action, goal |-> a.goal, asked |-> s.seq]
    OBVIOUS
<1> HIDE DEF new
<1>3. \A a \in A : a.goal \in DOMAIN s.goals
    BY <1>1 DEF Shaped, new
<1>4. /\ Shaped(t) /\ t.actions = A
      /\ \A f \in StateFields \ {"actions"} : t[f] = s[f]
  <2>1. t.actions = A /\ \A f \in StateFields \ {"actions"} : t[f] = s[f]
    BY DEF Shaped, StateFields
  <2>2. DOMAIN t = StateFields
    BY DEF Shaped
  <2> HIDE DEF t
  <2>3. t.goals = s.goals /\ t.facts = s.facts /\ t.parked = s.parked
    BY <2>1 DEF StateFields
  <2> QED BY <1>3, <2>1, <2>2, <2>3 DEF Shaped
<1> HIDE DEF t
<1>5. /\ t.seq = s.seq /\ t.goals = s.goals /\ t.facts = s.facts /\ t.cases = s.cases
    BY <1>4 DEF StateFields
<1>6. IsFiniteSet(s.actions) => IsFiniteSet(A)
  <2> SUFFICES ASSUME IsFiniteSet(s.actions) PROVE IsFiniteSet(A)
    OBVIOUS
  <2>1. Finite!IsFiniteSet(s.actions \cup {new})
    BY CountsAre, Finite!FS_AddElement
  <2>2. Finite!IsFiniteSet(A)
    BY <2>1, Finite!FS_Subset DEF new
  <2> QED BY <2>2, CountsAre
<1>7. OneEach(s.actions) => OneEach(A)
  <2> SUFFICES ASSUME OneEach(s.actions), NEW a \in A, NEW b \in A,
                      a.action = b.action, a.goal = b.goal
               PROVE  a = b
    BY DEF OneEach
  <2>1. CASE A \subseteq s.actions
    BY <2>1 DEF OneEach
  <2>2. CASE ~(A \subseteq s.actions)
    BY <1>1, <2>2 DEF OneEach, new
  <2> QED BY <2>1, <2>2
<1>8. IsSeq(s.cases) => Extends(s.cases, t.cases)
    BY <1>5 DEF Extends
<1>9. Signed(C, s, t)
    BY <1>5 DEF Signed
<1>10. Lawful(C, s, t)
    BY <1>2, <1>4, <1>5, <1>6, <1>7, <1>8, <1>9 DEF Lawful
<1> QED BY <1>10 DEF t

LEMMA RequireLawful ==
    ASSUME NEW C, NEW s, Shaped(s), NEW g \in DOMAIN s.goals, NEW e
    PROVE  Lawful(C, s, RequireAction(s, g, e))
<1> DEFINE action == e.action
           A == s.actions \cup {[action |-> action, goal |-> g, asked |-> s.seq]}
           t == [s EXCEPT !.actions = A]
<1>1. RequireAction(s, g, e) = IF Awaits(s, g, action) THEN s ELSE Changed(t)
    BY DEF RequireAction
<1>2. ASSUME ~Awaits(s, g, action)
      PROVE  Lawful(C, s, t)
  <2>1. ~\E a \in s.actions : a.action = action /\ a.goal = g
    BY <1>2 DEF Awaits
  <2>2. A \subseteq s.actions \cup {[action |-> action, goal |-> g, asked |-> s.seq]}
    OBVIOUS
  <2> HIDE DEF A, action
  <2> QED BY <2>1, <2>2, LawfulActions
<1> HIDE DEF t, action
<1>3. ASSUME Lawful(C, s, t)
      PROVE  Lawful(C, s, Changed(t))
  <2>1. Lawful(C, t, Changed(t))
    BY <1>3, LawfulMarks DEF Lawful
  <2> QED BY <1>3, <2>1, LawfulTrans
<1> QED BY <1>1, <1>2, <1>3, LawfulSelf

LEMMA ApplyLawful ==
    ASSUME NEW C, NEW s, Shaped(s), NEW g \in DOMAIN s.goals, NEW effects, EffectList(effects),
           NEW relation
    PROVE  Lawful(C, s, ApplyEffects(s, g, effects, relation))
<1> DEFINE env == [s |-> s, g |-> g, relation |-> relation]
           n == Len(effects)
           At(k) == Applying!LeftAt(env, s, effects, k)
           H == {k \in 0 .. n : Lawful(C, s, At(k))}
<1>1. env.s = s /\ env.g = g /\ env.relation = relation
    OBVIOUS
<1> HIDE DEF env
<1>2. ApplyEffects(s, g, effects, relation) = Applying!Along(env, s, effects)
  <2>1. ApplyEffects(s, env.g, effects, env.relation) = Applying!Along(env, s, effects)
    BY ApplyIs
  <2> QED BY <1>1, <2>1
<1>3. n \in Nat /\ DOMAIN effects = 1 .. n
    BY SeqIs DEF EffectList
<1> HIDE DEF n
<1>4. Applying!Along(env, s, effects) = At(n)
    BY <1>3, Applying!AlongIsIter DEF Applying!LeftAt
<1>5. At(0) = s /\ \A k \in 1 .. n : At(k) = ApplyingOp(env, At(k - 1), effects[k])
  <2> HIDE DEF H
  <2>1. Applying!Inductive
    BY Counting DEF Applying!Inductive
  <2> QED BY ONLY <1>3, <2>1, Applying!LeftAtIs DEF At
<1> HIDE DEF At
<1>6. ASSUME NEW t, Lawful(C, s, t), NEW e, Effect(e)
      PROVE  Lawful(C, s, ApplyingOp(env, t, e))
  <2>1. Shaped(t) /\ g \in DOMAIN t.goals
    BY <1>6 DEF Lawful
  <2>2. Lawful(C, t, AssertDerived(t, g, e)) /\ Lawful(C, t, SatisfyDependency(t, g, e))
    BY <2>1, AssertLawful, SatisfyLawful
  <2>3. e.op = "push_goal" => Lawful(C, t, OpenSubflow(t, g, e, relation))
    BY <1>6, <2>1, OpenSubflowLawful
  <2>4. /\ Lawful(C, t, SetStatus(t, g, e)) /\ Lawful(C, t, RequireAction(t, g, e))
        /\ Lawful(C, t, t)
    BY <2>1, SetStatusLawful, RequireLawful, LawfulSelf
  <2>5. Lawful(C, t, ApplyingOp(env, t, e))
    BY <1>1, <1>6, <2>2, <2>3, <2>4 DEF ApplyingOp, Effect, EffectOps
  <2> QED BY <1>6, <2>5, LawfulTrans
<1>7. 0 \in H
    BY <1>3, <1>5, LawfulSelf
<1>8. ASSUME NEW k \in 1 .. n, k - 1 \in H PROVE k \in H
  <2>1. Effect(effects[k])
    BY <1>3 DEF EffectList
  <2> QED BY <1>3, <1>5, <1>6, <1>8, <2>1
<1>9. n \in H
  <2> HIDE DEF H
  <2> QED BY <1>3, <1>7, <1>8, Counting, Applying!UpTo DEF Applying!Inductive
<1> QED BY <1>2, <1>4, <1>9

LEMMA ResolveLawful ==
    ASSUME NEW C, NEW s, Shaped(s), NEW g \in DOMAIN s.goals
    PROVE  Lawful(C, s, ResolveGoal(s, g))
<1> DEFINE closed == "RESOLVED"
           reason == s.goals[g].reason
           v == SetGoal(s, g, closed, reason)
           base == Changed(v)
           env == [s |-> s, g |-> g, t |-> base]
           h == s.goals[g]
           n == Len(Relations)
           At(k) == Resolving!LeftAt(env, base, Relations, k)
           H == {k \in 0 .. n : Lawful(C, s, At(k))}
           u == Resolving!Along(env, base, Relations)
<1>1. env.s = s /\ env.g = g /\ env.t = base
    OBVIOUS
<1> HIDE DEF env
<1>2. ResolveGoal(s, g) = ResumeParent(u, g)
  <2>1. ResolveGoal(env.s, env.g) =
           ResumeParent(Resolving!Along(env,
              Changed(SetGoal(env.s, env.g, "RESOLVED", env.s.goals[env.g].reason)), Relations),
              env.g)
    BY ChildIs
  <2> QED BY <1>1, <2>1
<1>3. Lawful(C, s, base)
  <2>1. Lawful(C, s, v)
    <3> HIDE DEF closed, reason
    <3> QED BY SetGoalLawful
  <2> HIDE DEF v
  <2>2. Lawful(C, v, base)
    BY <2>1, LawfulMarks DEF Lawful
  <2> QED BY <2>1, <2>2, LawfulTrans
<1> HIDE DEF base
<1>4. n \in Nat /\ DOMAIN Relations = 1 .. n
    BY RelationsAre, SeqIs
<1> HIDE DEF n
<1>5. Resolving!Along(env, base, Relations) = At(n)
    BY <1>4, Resolving!AlongIsIter DEF Resolving!LeftAt
<1>6. At(0) = base /\ \A k \in 1 .. n : At(k) = ResolvingOp(env, At(k - 1), Relations[k])
  <2> HIDE DEF H
  <2>1. Resolving!Inductive
    BY Counting DEF Resolving!Inductive
  <2>2. n \in Nat /\ DOMAIN Relations = 1 .. n
    BY <1>4
  <2> QED BY ONLY <2>1, <2>2, Resolving!LeftAtIs DEF At
<1> HIDE DEF At
<1>7. ASSUME NEW t, Lawful(C, s, t), NEW k \in 1 .. n
      PROVE  Lawful(C, s, ResolvingOp(env, t, Relations[k]))
  <2>1. Shaped(t) /\ DOMAIN s.goals \subseteq DOMAIN t.goals
    BY <1>7 DEF Lawful
  <2>2. CASE h.parent # 0 /\ Relations[k].name = h.relation
    <3>1. h.parent \in DOMAIN t.goals
      BY <2>1, <2>2 DEF Shaped
    <3>2. EffectList(Relations[k].onChild)
      BY <1>4, RelationsAre
    <3>3. Lawful(C, t, ApplyEffects(t, h.parent, Relations[k].onChild, h.relation))
      BY <2>1, <3>1, <3>2, ApplyLawful
    <3> QED BY <1>1, <1>7, <2>2, <3>3, LawfulTrans DEF ResolvingOp
  <2>3. CASE ~(h.parent # 0 /\ Relations[k].name = h.relation)
    BY <1>1, <1>7, <2>3 DEF ResolvingOp
  <2> QED BY <2>2, <2>3
<1>8. 0 \in H
    BY <1>4, <1>6, <1>3
<1>9. ASSUME NEW k \in 1 .. n, k - 1 \in H PROVE k \in H
    BY <1>4, <1>6, <1>7, <1>9
<1>10. n \in H
  <2> HIDE DEF H
  <2> QED BY <1>4, <1>8, <1>9, Counting, Resolving!UpTo DEF Resolving!Inductive
<1>11. Lawful(C, s, u) /\ Shaped(u)
    BY <1>5, <1>10 DEF Lawful
<1> HIDE DEF u
<1>12. Lawful(C, u, ResumeParent(u, g))
    BY <1>11, ResumeLawful
<1> QED BY <1>2, <1>11, <1>12, LawfulTrans

LEMMA CompletedLawful ==
    ASSUME NEW C, NEW s, Shaped(s)
    PROVE  Lawful(C, s, ResolveCompletedGoals(s))
<1> DEFINE env == [s |-> s]
           seq == Reverse([g \in DOMAIN s.goals |-> g])
           n == Len(s.goals)
           At(k) == Completing!LeftAt(env, s, seq, k)
           H == {k \in 0 .. n : Lawful(C, s, At(k))}
<1> HIDE DEF env
<1>1. ResolveCompletedGoals(s) = Completing!Along(env, s, seq)
    BY CompletingIs
<1>2. /\ n \in Nat /\ DOMAIN s.goals = 1 .. n /\ DOMAIN seq = 1 .. n
      /\ \A k \in 1 .. n : seq[k] \in DOMAIN s.goals
    BY GoalOrder
<1> HIDE DEF seq, n
<1>3. Completing!Along(env, s, seq) = At(n)
    BY <1>2, Completing!AlongIsIter DEF Completing!LeftAt
<1>4. At(0) = s /\ \A k \in 1 .. n : At(k) = CompletingOp(env, At(k - 1), seq[k])
  <2> HIDE DEF H
  <2>1. Completing!Inductive
    BY Counting DEF Completing!Inductive
  <2>2. n \in Nat /\ DOMAIN seq = 1 .. n
    BY <1>2
  <2> QED BY ONLY <2>1, <2>2, Completing!LeftAtIs DEF At
<1> HIDE DEF At
<1>5. ASSUME NEW t, Lawful(C, s, t), NEW g \in DOMAIN s.goals
      PROVE  Lawful(C, s, CompletingOp(env, t, g))
  <2>1. Shaped(t) /\ g \in DOMAIN t.goals
    BY <1>5 DEF Lawful
  <2>2. Lawful(C, t, ResolveGoal(t, g))
    BY <2>1, ResolveLawful
  <2> QED BY <1>5, <2>2, LawfulTrans DEF CompletingOp
<1>6. 0 \in H
    BY <1>2, <1>4, LawfulSelf
<1>7. ASSUME NEW k \in 1 .. n, k - 1 \in H PROVE k \in H
    BY <1>2, <1>4, <1>5, <1>7
<1>8. n \in H
  <2> HIDE DEF H
  <2> QED BY <1>2, <1>6, <1>7, Counting, Completing!UpTo DEF Completing!Inductive
<1> QED BY <1>1, <1>3, <1>8

LEMMA RelationLawful ==
    ASSUME NEW C, NEW s, Shaped(s), NEW r, EffectList(r.effects)
    PROVE  Lawful(C, s, ApplyRelation(s, r))
<1> DEFINE env == [s |-> s, r |-> r]
           seq == [g \in DOMAIN s.goals |-> g]
           n == Len(s.goals)
           At(k) == Relating!LeftAt(env, s, seq, k)
           H == {k \in 0 .. n : Lawful(C, s, At(k))}
<1>1. env.s = s /\ env.r = r
    OBVIOUS
<1> HIDE DEF env
<1>2. /\ n \in Nat /\ DOMAIN s.goals = 1 .. n /\ DOMAIN seq = 1 .. n
      /\ \A k \in 1 .. n : seq[k] \in DOMAIN s.goals
    BY GoalOrder
<1>3. ApplyRelation(s, r) = Relating!Along(env, s, seq)
  <2>1. ApplyRelation(env.s, env.r) =
             Relating!Along(env, env.s, [g \in DOMAIN env.s.goals |-> g])
    BY RelatingIs
  <2> QED BY <1>1, <2>1
<1> HIDE DEF seq, n
<1>4. Relating!Along(env, s, seq) = At(n)
    BY <1>2, Relating!AlongIsIter DEF Relating!LeftAt
<1>5. At(0) = s /\ \A k \in 1 .. n : At(k) = RelatingOp(env, At(k - 1), seq[k])
  <2> HIDE DEF H
  <2>1. Relating!Inductive
    BY Counting DEF Relating!Inductive
  <2>2. n \in Nat /\ DOMAIN seq = 1 .. n
    BY <1>2
  <2> QED BY ONLY <2>1, <2>2, Relating!LeftAtIs DEF At
<1> HIDE DEF At
<1>6. ASSUME NEW t, Lawful(C, s, t), NEW g \in DOMAIN s.goals
      PROVE  Lawful(C, s, RelatingOp(env, t, g))
  <2>1. Shaped(t) /\ g \in DOMAIN t.goals
    BY <1>6 DEF Lawful
  <2>2. Lawful(C, t, ApplyEffects(t, g, env.r.effects, env.r.name))
    BY <1>1, <2>1, ApplyLawful
  <2> QED BY <1>6, <2>2, LawfulTrans DEF RelatingOp
<1>7. 0 \in H
    BY <1>2, <1>5, LawfulSelf
<1>8. ASSUME NEW k \in 1 .. n, k - 1 \in H PROVE k \in H
    BY <1>2, <1>5, <1>6, <1>8
<1>9. n \in H
  <2> HIDE DEF H
  <2> QED BY <1>2, <1>7, <1>8, Counting, Relating!UpTo DEF Relating!Inductive
<1> QED BY <1>3, <1>4, <1>9

LEMMA OnceLawful ==
    ASSUME NEW C, NEW s, Shaped(s)
    PROVE  Lawful(C, s, EvaluateOnce(s))
<1> DEFINE env == [s |-> s]
           base == [s EXCEPT !.changed = FALSE]
           n == Len(Relations) + 1
           seq == [k \in 1 .. Len(Relations) + 1 |-> k]
           At(k) == Passing!LeftAt(env, base, seq, k)
           H == {k \in 0 .. n : Lawful(C, s, At(k))}
<1> HIDE DEF env
<1>1. n \in Nat /\ DOMAIN Relations = 1 .. n - 1 /\ Len(Relations) = n - 1
    BY RelationsAre, SeqIs
<1>2. DOMAIN seq = 1 .. n /\ \A k \in 1 .. n : seq[k] = k
    BY <1>1
<1>3. EvaluateOnce(s) = Passing!Along(env, base, seq)
    BY PassingIs
<1> HIDE DEF seq, n
<1>4. Lawful(C, s, base)
  <2>1. DOMAIN base = StateFields /\ \A f \in StateFields \ {"changed"} : base[f] = s[f]
    BY DEF Shaped, StateFields
  <2> HIDE DEF base
  <2>2. /\ base.goals = s.goals /\ base.facts = s.facts /\ base.parked = s.parked
        /\ base.actions = s.actions
        /\ \A f \in {"seq", "facts", "cases", "actions"} : base[f] = s[f]
    BY <2>1 DEF StateFields
  <2>3. Shaped(base)
    BY <2>1, <2>2 DEF Shaped
  <2> QED BY <2>2, <2>3, LawfulSame
<1> HIDE DEF base
<1>5. n \in Nat /\ DOMAIN seq = 1 .. n
    BY <1>1, <1>2
<1>6. Passing!Along(env, base, seq) = At(n)
    BY <1>5, Passing!AlongIsIter DEF Passing!LeftAt
<1>7. At(0) = base /\ \A k \in 1 .. n : At(k) = PassingOp(env, At(k - 1), seq[k])
  <2> HIDE DEF H
  <2>1. Passing!Inductive
    BY Counting DEF Passing!Inductive
  <2>2. n \in Nat /\ DOMAIN seq = 1 .. n
    BY <1>5
  <2> QED BY ONLY <2>1, <2>2, Passing!LeftAtIs DEF At
<1> HIDE DEF At
<1>8. ASSUME NEW t, Lawful(C, s, t), NEW k \in 1 .. n
      PROVE  Lawful(C, s, PassingOp(env, t, k))
  <2>1. Shaped(t)
    BY <1>8 DEF Lawful
  <2>2. CASE k > Len(Relations)
    <3>1. Lawful(C, t, ResolveCompletedGoals(t))
      BY <2>1, CompletedLawful
    <3> QED BY <1>8, <2>2, <3>1, LawfulTrans DEF PassingOp
  <2>3. CASE ~(k > Len(Relations))
    <3>1. k \in DOMAIN Relations
      BY <1>1, <2>3
    <3>2. Lawful(C, t, ApplyRelation(t, Relations[k]))
      BY <2>1, <3>1, RelationsAre, RelationLawful
    <3> QED BY <1>8, <2>3, <3>2, LawfulTrans DEF PassingOp
  <2> QED BY <2>2, <2>3
<1>9. 0 \in H
    BY <1>5, <1>7, <1>4
<1>10. ASSUME NEW k \in 1 .. n, k - 1 \in H PROVE k \in H
    BY <1>5, <1>7, <1>8, <1>10, <1>2
<1>11. n \in H
  <2> HIDE DEF H
  <2> QED BY <1>5, <1>9, <1>10, Counting, Passing!UpTo DEF Passing!Inductive
<1> QED BY <1>3, <1>6, <1>11

LEMMA RelationsLawful ==
    ASSUME NEW C, NEW s, Shaped(s)
    PROVE  Lawful(C, s, EvaluateRelations(s))
<1> DEFINE env == [s |-> s]
           base == Changed(s)
           seq == [k \in 1 .. Rounds |-> k]
           n == Rounds
           At(k) == Iterating!LeftAt(env, base, seq, k)
           H == {k \in 0 .. n : Lawful(C, s, At(k))}
           u == Iterating!Along(env, base, seq)
<1> HIDE DEF env
<1>1. EvaluateRelations(s) = Stopped(u, "RELATIONS_DIVERGE")
    BY IteratingIs
<1>2. n \in Nat /\ DOMAIN seq = 1 .. n
    BY DEF Rounds
<1> HIDE DEF seq, n
<1>3. Lawful(C, s, base)
    BY LawfulMarks
<1> HIDE DEF base
<1>4. Iterating!Along(env, base, seq) = At(n)
    BY <1>2, Iterating!AlongIsIter DEF Iterating!LeftAt
<1>5. At(0) = base /\ \A k \in 1 .. n : At(k) = IteratingOp(env, At(k - 1), seq[k])
  <2> HIDE DEF H
  <2>1. Iterating!Inductive
    BY Counting DEF Iterating!Inductive
  <2>2. n \in Nat /\ DOMAIN seq = 1 .. n
    BY <1>2
  <2> QED BY ONLY <2>1, <2>2, Iterating!LeftAtIs DEF At
<1> HIDE DEF At
<1>6. ASSUME NEW t, Lawful(C, s, t), NEW x
      PROVE  Lawful(C, s, IteratingOp(env, t, x))
  <2>1. Lawful(C, t, EvaluateOnce(t))
    BY <1>6, OnceLawful DEF Lawful
  <2> QED BY <1>6, <2>1, LawfulTrans DEF IteratingOp
<1>7. 0 \in H
    BY <1>2, <1>5, <1>3
<1>8. ASSUME NEW k \in 1 .. n, k - 1 \in H PROVE k \in H
    BY <1>2, <1>5, <1>6, <1>8
<1>9. n \in H
  <2> HIDE DEF H
  <2> QED BY <1>2, <1>7, <1>8, Counting, Iterating!UpTo DEF Iterating!Inductive
<1>10. Lawful(C, s, u) /\ Shaped(u)
    BY <1>4, <1>9 DEF Lawful
<1> HIDE DEF u
<1> DEFINE why == "RELATIONS_DIVERGE"
<1>11. Lawful(C, u, Stopped(u, why))
  <2> HIDE DEF why
  <2> QED BY <1>10, LawfulMarks
<1> QED BY <1>1, <1>10, <1>11, LawfulTrans

-----------------------------------------------------------------------------
(* Questions, gaps and the settling of a turn.                             *)

LEMMA LawfulCalm ==
    ASSUME NEW C, NEW s, Shaped(s), NEW t, Calm(s, t)
    PROVE  Lawful(C, s, t)
<1>1. /\ t.goals = s.goals /\ Shaped(t)
      /\ \A f \in {"seq", "facts", "cases", "actions"} : t[f] = s[f]
    BY DEF Calm, StateFields
<1> QED BY <1>1, LawfulSame

LEMMA SyncWithLawful ==
    ASSUME NEW C, NEW s, Shaped(s), NEW g \in DOMAIN s.goals, NEW gap
    PROVE  Lawful(C, s, SyncWith(s, g, gap))
<1> DEFINE action == Resolution[gap.code]
           waiting == "WAITING"
           reason == Because("AWAITING", action)
           active == "ACTIVE"
           u == SetGoal(s, g, waiting, reason)
           A == {a \in u.actions : a.goal # g \/ a.action = action}
                  \cup (IF Awaits(s, g, action) THEN {}
                        ELSE {[action |-> action, goal |-> g, asked |-> s.seq]})
           t == [u EXCEPT !.actions = A]
           x == SetGoal(s, g, active, NoReason)
           B == {a \in x.actions : a.goal # g}
           v == [x EXCEPT !.actions = B]
<1>1. Lawful(C, s, u) /\ Lawful(C, s, x)
  <2> HIDE DEF waiting, reason, active
  <2> QED BY SetGoalLawful
<1>2. u.actions = s.actions /\ u.seq = s.seq /\ x.actions = s.actions /\ x.seq = s.seq
    BY SetGoalIs DEF Shaped, StateFields
<1>3. AwaitAction(s, g, action) = t
    BY <1>1 DEF AwaitAction, Lawful, Shaped, StateFields
<1>4. v = [SetGoal(s, g, "ACTIVE", NoReason) EXCEPT !.actions = {a \in @ : a.goal # g}]
    BY <1>1 DEF Lawful, Shaped, StateFields
<1>5. SyncWith(s, g, gap) \in {ParkStale(AwaitAction(s, g, action), g), s, v}
    BY <1>4 DEF SyncWith
<1>6. /\ Shaped(u) /\ Shaped(x) /\ g \in DOMAIN u.goals /\ g \in DOMAIN x.goals
    BY <1>1 DEF Lawful
<1>7. /\ A \subseteq u.actions \cup {[action |-> action, goal |-> g, asked |-> u.seq]}
      /\ (\E a \in u.actions : a.action = action /\ a.goal = g) => A \subseteq u.actions
    BY <1>2 DEF Awaits
<1>8. B \subseteq x.actions
    OBVIOUS
<1> HIDE DEF A, B, u, x, action
<1>9. Lawful(C, u, t)
    BY <1>6, <1>7, LawfulActions
<1>10. Lawful(C, x, v)
  <2>1. B \subseteq x.actions \cup {[action |-> action, goal |-> g, asked |-> x.seq]}
    BY <1>8
  <2> QED BY <1>6, <1>8, <2>1, LawfulActions
<1> HIDE DEF t, v
<1>11. Lawful(C, s, t) /\ Shaped(t) /\ Lawful(C, s, v)
    BY <1>1, <1>9, <1>10, LawfulTrans DEF Lawful
<1>12. Lawful(C, t, ParkStale(t, g))
    BY <1>11, ParkStaleCalm, LawfulCalm
<1> QED BY <1>3, <1>5, <1>11, <1>12, LawfulSelf, LawfulTrans

LEMMA GapsLawful ==
    ASSUME NEW C, NEW s, Shaped(s)
    PROVE  Lawful(C, s, SyncAuthoritativeGaps(s))
<1> DEFINE env == [s |-> s]
           seq == [g \in DOMAIN s.goals |-> g]
           n == Len(s.goals)
           At(k) == Syncing!LeftAt(env, s, seq, k)
           H == {k \in 0 .. n : Lawful(C, s, At(k))}
<1> HIDE DEF env
<1>1. SyncAuthoritativeGaps(s) = Syncing!Along(env, s, seq)
    BY SyncingIs
<1>2. /\ n \in Nat /\ DOMAIN s.goals = 1 .. n /\ DOMAIN seq = 1 .. n
      /\ \A k \in 1 .. n : seq[k] \in DOMAIN s.goals
    BY GoalOrder
<1> HIDE DEF seq, n
<1>3. Syncing!Along(env, s, seq) = At(n)
    BY <1>2, Syncing!AlongIsIter DEF Syncing!LeftAt
<1>4. At(0) = s /\ \A k \in 1 .. n : At(k) = SyncingOp(env, At(k - 1), seq[k])
  <2> HIDE DEF H
  <2>1. Syncing!Inductive
    BY Counting DEF Syncing!Inductive
  <2>2. n \in Nat /\ DOMAIN seq = 1 .. n
    BY <1>2
  <2> QED BY ONLY <2>1, <2>2, Syncing!LeftAtIs DEF At
<1> HIDE DEF At
<1>5. ASSUME NEW t, Lawful(C, s, t), NEW g \in DOMAIN s.goals
      PROVE  Lawful(C, s, SyncingOp(env, t, g))
  <2>1. Shaped(t) /\ g \in DOMAIN t.goals
    BY <1>5 DEF Lawful
  <2>2. Lawful(C, t, SyncGoal(t, g))
    BY <2>1, SyncWithLawful, LawfulSelf DEF SyncGoal
  <2> QED BY <1>5, <2>2, LawfulTrans DEF SyncingOp
<1>6. 0 \in H
    BY <1>2, <1>4, LawfulSelf
<1>7. ASSUME NEW k \in 1 .. n, k - 1 \in H PROVE k \in H
    BY <1>2, <1>4, <1>5, <1>7
<1>8. n \in H
  <2> HIDE DEF H
  <2> QED BY <1>2, <1>6, <1>7, Counting, Syncing!UpTo DEF Syncing!Inductive
<1> QED BY <1>1, <1>3, <1>8

LEMMA ReopenLawful ==
    ASSUME NEW C, NEW s, Shaped(s), NEW g \in DOMAIN s.goals
    PROVE  Lawful(C, s, ReopenGoal(s, g))
<1> DEFINE p == s.goals[g].parent
           again == Because("DEPENDENCY_INVALIDATED", "none")
           aside == Because("SUBFLOW", s.goals[g].code)
           suspended == "SUSPENDED"
           active == "ACTIVE"
           t == SetGoal(s, g, active, again)
           u == SetGoal(t, p, suspended, aside)
<1>1. ReopenGoal(s, g) \in {s, t, u}
    BY DEF ReopenGoal
<1> HIDE DEF p, again, aside, suspended, active
<1>2. Lawful(C, s, t) /\ Shaped(t)
    BY SetGoalLawful DEF Lawful
<1> HIDE DEF t
<1>3. Lawful(C, t, u)
    BY <1>2, SetGoalLawful
<1> QED BY <1>1, <1>2, <1>3, LawfulSelf, LawfulTrans

LEMMA ReopenedLawful ==
    ASSUME NEW C, NEW s, Shaped(s)
    PROVE  Lawful(C, s, Reopened(s))
<1> DEFINE env == [s |-> s]
           seq == [g \in DOMAIN s.goals |-> g]
           n == Len(s.goals)
           At(k) == Reopening!LeftAt(env, s, seq, k)
           H == {k \in 0 .. n : Lawful(C, s, At(k))}
<1> HIDE DEF env
<1>1. Reopened(s) = Reopening!Along(env, s, seq)
    BY ReopeningIs
<1>2. /\ n \in Nat /\ DOMAIN s.goals = 1 .. n /\ DOMAIN seq = 1 .. n
      /\ \A k \in 1 .. n : seq[k] \in DOMAIN s.goals
    BY GoalOrder
<1> HIDE DEF seq, n
<1>3. Reopening!Along(env, s, seq) = At(n)
    BY <1>2, Reopening!AlongIsIter DEF Reopening!LeftAt
<1>4. At(0) = s /\ \A k \in 1 .. n : At(k) = ReopeningOp(env, At(k - 1), seq[k])
  <2> HIDE DEF H
  <2>1. Reopening!Inductive
    BY Counting DEF Reopening!Inductive
  <2>2. n \in Nat /\ DOMAIN seq = 1 .. n
    BY <1>2
  <2> QED BY ONLY <2>1, <2>2, Reopening!LeftAtIs DEF At
<1> HIDE DEF At
<1>5. ASSUME NEW t, Lawful(C, s, t), NEW g \in DOMAIN s.goals
      PROVE  Lawful(C, s, ReopeningOp(env, t, g))
  <2>1. Shaped(t) /\ g \in DOMAIN t.goals
    BY <1>5 DEF Lawful
  <2>2. Lawful(C, t, ReopenGoal(t, g))
    BY <2>1, ReopenLawful
  <2> QED BY <1>5, <2>2, LawfulTrans DEF ReopeningOp
<1>6. 0 \in H
    BY <1>2, <1>4, LawfulSelf
<1>7. ASSUME NEW k \in 1 .. n, k - 1 \in H PROVE k \in H
    BY <1>2, <1>4, <1>5, <1>7
<1>8. n \in H
  <2> HIDE DEF H
  <2> QED BY <1>2, <1>6, <1>7, Counting, Reopening!UpTo DEF Reopening!Inductive
<1> QED BY <1>1, <1>3, <1>8

LEMMA RoundLawful ==
    ASSUME NEW C, NEW t, Shaped(t), NEW env, NEW n
    PROVE  Lawful(C, t, SettlingOp(env, t, n))
<1> DEFINE u == EvaluateRelations(t)
           v == SyncAuthoritativeGaps(u)
           w == NextRound(v, t)
<1>1. Lawful(C, t, u) /\ Shaped(u)
    BY RelationsLawful DEF Lawful
<1>2. SettlingOp(env, t, n) \in {t, w}
  <2>1. CASE t.changed
    BY <2>1, RoundIs
  <2>2. CASE ~t.changed
    BY <2>2, Zenon DEF SettlingOp
  <2> QED BY <2>1, <2>2
<1> HIDE DEF u
<1>3. Lawful(C, u, v) /\ Shaped(v)
    BY <1>1, GapsLawful DEF Lawful
<1> HIDE DEF v
<1>4. Shaped(w) /\ \A f \in StateFields \ {"changed"} : w[f] = v[f]
    BY <1>3, NextRoundWithin DEF Within
<1> HIDE DEF w
<1>5. w.goals = v.goals /\ \A f \in {"seq", "facts", "cases", "actions"} : w[f] = v[f]
    BY <1>4 DEF StateFields
<1>6. Lawful(C, v, w)
    BY <1>3, <1>4, <1>5, LawfulSame
<1> QED BY <1>1, <1>2, <1>3, <1>6, LawfulSelf, LawfulTrans

LEMMA SettleLawful ==
    ASSUME NEW C, NEW s, Shaped(s)
    PROVE  Lawful(C, s, SettleGoals(s))
<1> DEFINE env == [s |-> s]
           base == Changed(Reopened(s))
           seq == [k \in 1 .. Rounds |-> k]
           n == Rounds
           At(k) == Settling!LeftAt(env, base, seq, k)
           H == {k \in 0 .. n : Lawful(C, s, At(k))}
           u == Settling!Along(env, base, seq)
<1> HIDE DEF env
<1>1. SettleGoals(s) = Stopped(u, "GOALS_DIVERGE")
    BY SettlingIs
<1>2. n \in Nat /\ DOMAIN seq = 1 .. n
    BY DEF Rounds
<1> HIDE DEF seq, n
<1>3. Lawful(C, s, base)
  <2>1. Lawful(C, s, Reopened(s)) /\ Shaped(Reopened(s))
    BY ReopenedLawful DEF Lawful
  <2>2. Lawful(C, Reopened(s), base)
    BY <2>1, LawfulMarks
  <2> QED BY <2>1, <2>2, LawfulTrans
<1> HIDE DEF base
<1>4. Settling!Along(env, base, seq) = At(n)
    BY <1>2, Settling!AlongIsIter DEF Settling!LeftAt
<1>5. At(0) = base /\ \A k \in 1 .. n : At(k) = SettlingOp(env, At(k - 1), seq[k])
  <2> HIDE DEF H
  <2>1. Settling!Inductive
    BY Counting DEF Settling!Inductive
  <2>2. n \in Nat /\ DOMAIN seq = 1 .. n
    BY <1>2
  <2> QED BY ONLY <2>1, <2>2, Settling!LeftAtIs DEF At
<1> HIDE DEF At
<1>6. ASSUME NEW t, Lawful(C, s, t), NEW x
      PROVE  Lawful(C, s, SettlingOp(env, t, x))
  <2>1. Lawful(C, t, SettlingOp(env, t, x))
    BY <1>6, RoundLawful DEF Lawful
  <2> QED BY <1>6, <2>1, LawfulTrans
<1>7. 0 \in H
    BY <1>2, <1>5, <1>3
<1>8. ASSUME NEW k \in 1 .. n, k - 1 \in H PROVE k \in H
    BY <1>2, <1>5, <1>6, <1>8
<1>9. n \in H
  <2> HIDE DEF H
  <2> QED BY <1>2, <1>7, <1>8, Counting, Settling!UpTo DEF Settling!Inductive
<1>10. Lawful(C, s, u) /\ Shaped(u)
    BY <1>4, <1>9 DEF Lawful
<1> HIDE DEF u
<1> DEFINE why == "GOALS_DIVERGE"
<1>11. Lawful(C, u, Stopped(u, why))
  <2> HIDE DEF why
  <2> QED BY <1>10, LawfulMarks
<1> QED BY <1>1, <1>10, <1>11, LawfulTrans

-----------------------------------------------------------------------------
(* Events.                                                                 *)

\* What an event says of facts, and the codes a signal answers for.
Inputs(ins) == IsSeq(ins) /\ \A k \in DOMAIN ins : DOMAIN ins[k] = InputFields
\* ... not in the name of the administration
Plain(ins) == Inputs(ins) /\ \A k \in DOMAIN ins : ~ins[k].authoritative
Answered(e) == IF e.kind = "SIGNAL" THEN {f.code : f \in ToSet(e.facts)} ELSE {}
EventSaid(e) ==
    /\ Inputs(e.facts) /\ (e.kind # "SIGNAL" => Plain(e.facts))
    /\ (e.kind = "COMPLAINT" => Plain(e.baseFacts))

LEMMA LawfulMore ==
    ASSUME NEW C, NEW D, C \subseteq D, NEW s, NEW t, Lawful(C, s, t)
    PROVE  Lawful(D, s, t)
BY DEF Lawful, Signed

LEMMA FilledIs ==
    ASSUME NEW ins, Inputs(ins), NEW source, NEW confidence
    PROVE  LET told == Told(ins, source, confidence) IN
           /\ IsSeq(told) /\ DOMAIN told = DOMAIN ins
           /\ \A k \in DOMAIN ins :
                 /\ DOMAIN told[k] = InputFields /\ told[k].code = ins[k].code
                 /\ told[k].authoritative = ins[k].authoritative
                 /\ told[k] = Filled(ins[k], source, confidence)
<1> DEFINE told == Told(ins, source, confidence)
<1>1. IsSeq(told) /\ DOMAIN told = DOMAIN ins
    BY MapIsSeq DEF Told, Inputs
<1>2. \A k \in DOMAIN ins : told[k] = Filled(ins[k], source, confidence)
    BY DEF Told
<1> HIDE DEF told
<1>3. ASSUME NEW k \in DOMAIN ins
      PROVE  /\ DOMAIN told[k] = InputFields /\ told[k].code = ins[k].code
             /\ told[k].authoritative = ins[k].authoritative
  <2> DEFINE in == ins[k]
  <2>1. DOMAIN in = InputFields
    BY DEF Inputs
  <2> HIDE DEF in
  <2>2. /\ DOMAIN Filled(in, source, confidence) = InputFields
        /\ Filled(in, source, confidence).code = in.code
        /\ Filled(in, source, confidence).authoritative = in.authoritative
    BY <2>1 DEF Filled, InputFields
  <2> QED BY <1>2, <2>2 DEF in
<1> QED BY <1>1, <1>2, <1>3 DEF told

LEMMA TellLawful ==
    ASSUME NEW C, NEW s, Shaped(s), NEW g, NEW ins, Plain(ins)
    PROVE  Lawful(C, s, Tell(s, g, ins))
<1> DEFINE env == [s |-> s, g |-> g]
           source == "USER_EXPLICIT"
           sure == "CONFIRMED"
           told == Told(ins, source, sure)
           n == Len(ins)
           At(k) == Telling!LeftAt(env, s, told, k)
           H == {k \in 0 .. n : Lawful(C, s, At(k))}
<1>1. env.s = s /\ env.g = g
    OBVIOUS
<1> HIDE DEF env
<1>2. ASSUME NEW e, NEW t, NEW q
      PROVE  Tell(t, e.g, q) = Telling!Along(e, t, Told(q, "USER_EXPLICIT", "CONFIRMED"))
    BY Zenon DEF Tell, Telling!Along, TellingOp, FoldLeft, Max, Telling!Greatest,
                 MapThenFoldSet, Telling!MapThenFoldSet
<1>3. Tell(s, g, ins) = Telling!Along(env, s, told)
  <2>1. Tell(s, env.g, ins) = Telling!Along(env, s, told)
    BY <1>2
  <2> QED BY <1>1, <2>1
<1>4. /\ n \in Nat /\ DOMAIN ins = 1 .. n
      /\ DOMAIN told = DOMAIN ins
      /\ \A k \in DOMAIN ins : told[k].authoritative = ins[k].authoritative
  <2>1. n \in Nat /\ DOMAIN ins = 1 .. n
    BY SeqIs DEF Plain, Inputs
  <2> HIDE DEF source, sure
  <2>2. /\ DOMAIN told = DOMAIN ins
        /\ \A k \in DOMAIN ins : told[k].authoritative = ins[k].authoritative
    BY FilledIs DEF Plain
  <2> QED BY <2>1, <2>2
<1> HIDE DEF told, n, source, sure
<1>5. n \in Nat /\ DOMAIN told = 1 .. n
    BY <1>4
<1>6. Telling!Along(env, s, told) = At(n)
    BY <1>5, Telling!AlongIsIter DEF Telling!LeftAt
<1>7. At(0) = s /\ \A k \in 1 .. n : At(k) = TellingOp(env, At(k - 1), told[k])
  <2> HIDE DEF H
  <2>1. Telling!Inductive
    BY Counting DEF Telling!Inductive
  <2>2. n \in Nat /\ DOMAIN told = 1 .. n
    BY <1>5
  <2> QED BY ONLY <2>1, <2>2, Telling!LeftAtIs DEF At
<1> HIDE DEF At
<1>8. ASSUME NEW t, Lawful(C, s, t), NEW k \in 1 .. n
      PROVE  Lawful(C, s, TellingOp(env, t, told[k]))
  <2> DEFINE in == told[k]
             mode == "ASSERT"
             from == {}
  <2>1. ~in.authoritative
    BY <1>4 DEF Plain
  <2>2. TellingOp(env, t, in) = RecordFact(t, g, in, mode, from)
    BY <1>1 DEF TellingOp
  <2> HIDE DEF in, mode, from
  <2>3. Lawful(C, t, RecordFact(t, g, in, mode, from))
    BY <2>1, <1>8, RecordLawful DEF Lawful
  <2> QED BY <1>8, <2>2, <2>3, LawfulTrans DEF in
<1>9. 0 \in H
    BY <1>5, <1>7, LawfulSelf
<1>10. ASSUME NEW k \in 1 .. n, k - 1 \in H PROVE k \in H
    BY <1>5, <1>7, <1>8, <1>10
<1>11. n \in H
  <2> HIDE DEF H
  <2> QED BY <1>5, <1>9, <1>10, Counting, Telling!UpTo DEF Telling!Inductive
<1> QED BY <1>3, <1>6, <1>11

LEMMA RecordFactsLawful ==
    ASSUME NEW C, NEW s, Shaped(s), NEW g, NEW ins, Plain(ins), NEW mode
    PROVE  Lawful(C, s, RecordFacts(s, g, ins, mode))
<1> DEFINE env == [s |-> s, g |-> g, mode |-> mode]
           n == Len(ins)
           At(k) == Recording!LeftAt(env, s, ins, k)
           H == {k \in 0 .. n : Lawful(C, s, At(k))}
<1>1. env.s = s /\ env.g = g /\ env.mode = mode
    OBVIOUS
<1> HIDE DEF env
<1>2. ASSUME NEW e, NEW t, NEW q
      PROVE  RecordFacts(t, e.g, q, e.mode) = Recording!Along(e, t, q)
    BY Zenon DEF RecordFacts, Recording!Along, RecordingOp, FoldLeft, Max, Recording!Greatest,
                 MapThenFoldSet, Recording!MapThenFoldSet
<1>3. RecordFacts(s, g, ins, mode) = Recording!Along(env, s, ins)
  <2>1. RecordFacts(s, env.g, ins, env.mode) = Recording!Along(env, s, ins)
    BY <1>2
  <2> QED BY <1>1, <2>1
<1>4. n \in Nat /\ DOMAIN ins = 1 .. n
    BY SeqIs DEF Plain, Inputs
<1> HIDE DEF n
<1>5. Recording!Along(env, s, ins) = At(n)
    BY <1>4, Recording!AlongIsIter DEF Recording!LeftAt
<1>6. At(0) = s /\ \A k \in 1 .. n : At(k) = RecordingOp(env, At(k - 1), ins[k])
  <2> HIDE DEF H
  <2>1. Recording!Inductive
    BY Counting DEF Recording!Inductive
  <2>2. n \in Nat /\ DOMAIN ins = 1 .. n
    BY <1>4
  <2> QED BY ONLY <2>1, <2>2, Recording!LeftAtIs DEF At
<1> HIDE DEF At
<1>7. ASSUME NEW t, Lawful(C, s, t), NEW k \in 1 .. n
      PROVE  Lawful(C, s, RecordingOp(env, t, ins[k]))
  <2> DEFINE in == ins[k]
             owner == OwnerGoalForFact(t, in.code, g)
             from == {}
  <2>1. ~in.authoritative
    BY <1>4 DEF Plain
  <2>2. RecordingOp(env, t, in) = RecordFact(t, owner, in, mode, from)
    BY <1>1 DEF RecordingOp
  <2> HIDE DEF in, owner, from
  <2>3. Lawful(C, t, RecordFact(t, owner, in, mode, from))
    BY <2>1, <1>7, RecordLawful DEF Lawful
  <2> QED BY <1>7, <2>2, <2>3, LawfulTrans DEF in
<1>8. 0 \in H
    BY <1>4, <1>6, LawfulSelf
<1>9. ASSUME NEW k \in 1 .. n, k - 1 \in H PROVE k \in H
    BY <1>4, <1>6, <1>7, <1>9
<1>10. n \in H
  <2> HIDE DEF H
  <2> QED BY <1>4, <1>8, <1>9, Counting, Recording!UpTo DEF Recording!Inductive
<1> QED BY <1>3, <1>5, <1>10

LEMMA SignalLawful ==
    ASSUME NEW C, NEW s, Shaped(s), NEW sig, Inputs(sig.facts),
           {f.code : f \in ToSet(sig.facts)} \subseteq C
    PROVE  Lawful(C, s, Signalled(s, sig))
<1> DEFINE env == [s |-> s, sig |-> sig]
           told == [i \in DOMAIN sig.facts |->
                      [Filled(sig.facts[i], "SYSTEM", "CONFIRMED") EXCEPT !.authoritative = TRUE]]
           n == Len(sig.facts)
           At(k) == Signalling!LeftAt(env, s, told, k)
           H == {k \in 0 .. n : Lawful(C, s, At(k))}
<1>1. env.s = s /\ env.sig = sig
    OBVIOUS
<1> HIDE DEF env
<1>2. ASSUME NEW e, NEW t
      PROVE  Signalled(t, e.sig) =
               IF e.sig.target = 0 \/ e.sig.target \in GoalsWith(t, OpenStatuses)
               THEN Signalling!Along(e, t, [i \in DOMAIN e.sig.facts |->
                      [Filled(e.sig.facts[i], "SYSTEM", "CONFIRMED") EXCEPT !.authoritative = TRUE]])
               ELSE Fail(t, "CLOSED_GOAL")
    BY Zenon DEF Signalled, Signalling!Along, SignallingOp, FoldLeft, Max, Signalling!Greatest,
                 MapThenFoldSet, Signalling!MapThenFoldSet
<1>3. Signalled(s, sig) \in {Signalling!Along(env, s, told), Fail(s, "CLOSED_GOAL")}
  <2>1. Signalled(s, env.sig) =
          IF env.sig.target = 0 \/ env.sig.target \in GoalsWith(s, OpenStatuses)
          THEN Signalling!Along(env, s, [i \in DOMAIN env.sig.facts |->
                 [Filled(env.sig.facts[i], "SYSTEM", "CONFIRMED") EXCEPT !.authoritative = TRUE]])
          ELSE Fail(s, "CLOSED_GOAL")
    BY <1>2
  <2> QED BY <1>1, <2>1
<1>4. /\ n \in Nat /\ DOMAIN sig.facts = 1 .. n
      /\ \A k \in 1 .. n : told[k].code \in C
  <2>1. n \in Nat /\ DOMAIN sig.facts = 1 .. n
    BY SeqIs DEF Inputs
  <2>2. ASSUME NEW k \in 1 .. n
        PROVE  told[k].code \in C
    <3> DEFINE in == sig.facts[k]
               source == "SYSTEM"
               sure == "CONFIRMED"
               out == [Filled(in, source, sure) EXCEPT !.authoritative = TRUE]
    <3>1. DOMAIN in = InputFields /\ in.code \in C
      BY <2>1 DEF Inputs, ToSet
    <3>2. told[k] = out
      BY <2>1
    <3> HIDE DEF in
    <3>3. out.code = in.code
      BY <3>1 DEF Filled, InputFields
    <3> QED BY <3>1, <3>2, <3>3
  <2> QED BY <2>1, <2>2
<1>5. n \in Nat /\ DOMAIN told = 1 .. n
    BY <1>4
<1> HIDE DEF told, n
<1>6. Signalling!Along(env, s, told) = At(n)
    BY <1>5, Signalling!AlongIsIter DEF Signalling!LeftAt
<1>7. At(0) = s /\ \A k \in 1 .. n : At(k) = SignallingOp(env, At(k - 1), told[k])
  <2> HIDE DEF H
  <2>1. Signalling!Inductive
    BY Counting DEF Signalling!Inductive
  <2>2. n \in Nat /\ DOMAIN told = 1 .. n
    BY <1>5
  <2> QED BY ONLY <2>1, <2>2, Signalling!LeftAtIs DEF At
<1> HIDE DEF At
<1>8. ASSUME NEW t, Lawful(C, s, t), NEW k \in 1 .. n
      PROVE  Lawful(C, s, SignallingOp(env, t, told[k]))
  <2> DEFINE in == told[k]
             owner == OwnerGoalForFact(t, in.code, sig.target)
             target == sig.target
             from == {}
             mode == "SUPERSEDE"
  <2>1. in.authoritative => in.code \in C
    BY <1>4
  <2>2. SignallingOp(env, t, in) = RecordSignal(t, owner, target, in)
    BY <1>1 DEF SignallingOp
  <2>3. RecordSignal(t, owner, target, in) \in
           {Fail(t, "AMBIGUOUS_CASE"), Fail(t, "FOREIGN_FACT"), RecordFact(t, owner, in, mode, from)}
    BY DEF RecordSignal
  <2> HIDE DEF in, owner, from, mode, target
  <2>4. Lawful(C, t, RecordFact(t, owner, in, mode, from))
    BY <2>1, <1>8, RecordLawful DEF Lawful
  <2>5. Lawful(C, t, Fail(t, "AMBIGUOUS_CASE")) /\ Lawful(C, t, Fail(t, "FOREIGN_FACT"))
    BY <1>8, LawfulMarks DEF Lawful
  <2>6. Lawful(C, t, SignallingOp(env, t, in))
    BY <2>2, <2>3, <2>4, <2>5
  <2> QED BY <1>8, <2>6, LawfulTrans DEF in
<1>9. 0 \in H
    BY <1>5, <1>7, LawfulSelf
<1>10. ASSUME NEW k \in 1 .. n, k - 1 \in H PROVE k \in H
    BY <1>5, <1>7, <1>8, <1>10
<1>11. n \in H
  <2> HIDE DEF H
  <2> QED BY <1>5, <1>9, <1>10, Counting, Signalling!UpTo DEF Signalling!Inductive
<1>12. Lawful(C, s, Fail(s, "CLOSED_GOAL"))
    BY LawfulMarks
<1> QED BY <1>3, <1>6, <1>11, <1>12

LEMMA LeaveLawful ==
    ASSUME NEW C, NEW s, Shaped(s), NEW g
    PROVE  Lawful(C, s, LeaveGoal(s, g))
<1> DEFINE p == s.goals[g].parent
           left == "ABANDONED"
           why == Because("USER_ABANDONED", "none")
           suspended == "SUSPENDED"
           blocked == Because("BLOCKED_BY_ABANDONED_SUBFLOW", "none")
           t == SetGoal(s, g, left, why)
           u == SetGoal(t, p, suspended, blocked)
<1>1. LeaveGoal(s, g) \in {t, u}
    BY DEF LeaveGoal
<1> HIDE DEF p, left, why, suspended, blocked
<1>2. Lawful(C, s, t) /\ Shaped(t)
    BY SetGoalLawful DEF Lawful
<1> HIDE DEF t
<1>3. Lawful(C, t, u)
    BY <1>2, SetGoalLawful
<1> QED BY <1>1, <1>2, <1>3, LawfulTrans

LEMMA TopicLawful ==
    ASSUME NEW C, NEW s, Shaped(s), NEW topic
    PROVE  Lawful(C, s, [s EXCEPT !.topic = topic])
<1> DEFINE t == [s EXCEPT !.topic = topic]
<1>1. /\ Shaped(t) /\ t.goals = s.goals
      /\ \A f \in {"seq", "facts", "cases", "actions"} : t[f] = s[f]
    BY TopicWithin DEF Within, Shaped, StateFields
<1> HIDE DEF t
<1>2. Lawful(C, s, t)
    BY <1>1, LawfulSame
<1> QED BY <1>2 DEF t

LEMMA NewGoalLawful ==
    ASSUME NEW C, NEW s, Shaped(s), NEW g, NEW e, Plain(e.facts)
    PROVE  Lawful(C, s, OnNewGoal(s, g, e))
<1> DEFINE left == IF ~e.abandon \/ g = 0 THEN s ELSE LeaveGoal(s, g)
           opts == [NoOpts EXCEPT !.ref = e.ref]
           code == e.goal
           topic == GoalDef[code].topic
           t == PushGoal(left, code, opts)
           u == [t EXCEPT !.topic = topic]
           new == Len(s.goals) + 1
           ins == e.facts
           v == Tell(u, new, ins)
<1>1. OnNewGoal(s, g, e) = v
    BY DEF OnNewGoal
<1>2. Lawful(C, s, left) /\ Shaped(left)
    BY LeaveLawful, LawfulSelf DEF Lawful
<1>3. opts.parent = 0 /\ ~opts.suspend
    BY DEF NoOpts
<1> HIDE DEF left, opts, code, topic
<1>4. Lawful(C, left, t) /\ Shaped(t)
    BY <1>2, <1>3, PushLawful DEF Lawful
<1> HIDE DEF t
<1>5. Lawful(C, t, u) /\ Shaped(u)
    BY <1>4, TopicLawful DEF Lawful
<1> HIDE DEF u, new
<1>6. Lawful(C, u, v)
  <2>1. Plain(ins)
    OBVIOUS
  <2> HIDE DEF ins
  <2> QED BY <1>5, <2>1, TellLawful
<1> HIDE DEF v
<1>7. Lawful(C, s, t)
    BY <1>2, <1>4, LawfulTrans
<1>8. Lawful(C, s, u)
    BY <1>5, <1>7, LawfulTrans
<1> QED BY <1>1, <1>6, <1>8, LawfulTrans

LEMMA ReclassifiedLawful ==
    ASSUME NEW C, NEW s, Shaped(s), NEW g \in {0} \cup DOMAIN s.goals, NEW e
    PROVE  Lawful(C, s, OnReclassification(s, g, e))
<1> DEFINE r == OnReclassification(s, g, e)
<1>1. Shaped(r) /\ DOMAIN s.goals \subseteq DOMAIN r.goals
    BY ReclassifiedMoved DEF Moved, Kept
<1>2. \A f \in {"seq", "facts", "cases", "actions"} : r[f] = s[f]
  <2> DEFINE old == {o \in DOMAIN s.goals : /\ s.goals[o].status # "ABANDONED"
                                            /\ s.goals[o].overlay = 0}
             target == IF g # 0 THEN g ELSE Newest(old)
             before == IF s.topic # "none" THEN s.topic ELSE GoalDef[s.goals[target].code].topic
             reopens == s.goals[target].status \in {"RESOLVED", "WAITING"}
             u == [s EXCEPT !.origin = IF @ = "none" THEN before ELSE @,
                      !.topic = GoalDef[e.goal].topic,
                      !.goals[target].code = e.goal,
                      !.goals[target].status = IF reopens THEN "ACTIVE" ELSE @,
                      !.goals[target].reason = IF reopens THEN NoReason ELSE @,
                      !.goals[target].closed = IF reopens THEN 0 ELSE @]
  <2>1. r \in {Fail(s, "NO_GOAL"), u}
    BY DEF OnReclassification
  <2>2. \A f \in {"seq", "facts", "cases", "actions"} : u[f] = s[f]
    <3>1. DOMAIN s = StateFields
      BY DEF Shaped
    <3> HIDE DEF target, before, reopens
    <3>2. u.seq = s.seq /\ u.facts = s.facts /\ u.cases = s.cases /\ u.actions = s.actions
      BY ONLY <3>1, Zenon DEF StateFields
    <3> QED BY <3>2
  <2>3. \A f \in {"seq", "facts", "cases", "actions"} : Fail(s, "NO_GOAL")[f] = s[f]
    BY DEF Fail, Shaped, StateFields
  <2> HIDE DEF u, r
  <2> QED BY <2>1, <2>2, <2>3
<1> HIDE DEF r
<1>3. Lawful(C, s, r)
    BY <1>1, <1>2, LawfulSame
<1> QED BY <1>3 DEF r

LEMMA ComplainLawful ==
    ASSUME NEW C, NEW s, Shaped(s), NEW base \in DOMAIN s.goals, NEW e, Plain(e.facts)
    PROVE  Lawful(C, s, ComplainAbout(s, base, e))
<1> DEFINE known == Newest({o \in DOMAIN s.goals : /\ s.goals[o].code = Complaint
                                                   /\ s.goals[o].overlay = base
                                                   /\ s.goals[o].status # "ABANDONED"})
           opts == [NoOpts EXCEPT !.parent = base, !.overlay = base,
                                  !.case = s.goals[base].case]
           active == "ACTIVE"
           t == PushGoal(s, Complaint, opts)
           u == SetGoal(s, known, active, NoReason)
           v == ComplaintGoal(s, base, known)
           g == IF known = 0 THEN Len(s.goals) + 1 ELSE known
           ins == e.facts
<1>1. ComplainAbout(s, base, e) = Tell(v, g, ins)
    BY DEF ComplainAbout, ComplainAgain
<1>2. v \in {t, u, s}
    BY DEF ComplaintGoal
<1>3. opts.parent = base /\ ~opts.suspend /\ Plain(ins)
    BY DEF NoOpts
<1> HIDE DEF opts, known, active, ins
<1>4. Lawful(C, s, t) /\ Lawful(C, s, u)
    BY <1>3, PushLawful, SetGoalLawful
<1> HIDE DEF t, u, g, v
<1>5. Lawful(C, s, v) /\ Shaped(v)
    BY <1>2, <1>4, LawfulSelf DEF Lawful
<1>6. Lawful(C, v, Tell(v, g, ins))
    BY <1>3, <1>5, TellLawful
<1> QED BY <1>1, <1>5, <1>6, LawfulTrans

LEMMA ComplaintLawful ==
    ASSUME NEW C, NEW s, Shaped(s), NEW g \in {0} \cup DOMAIN s.goals, NEW e,
           Plain(e.facts), Plain(e.baseFacts)
    PROVE  Lawful(C, s, OnComplaint(s, g, e))
<1> DEFINE opens == g = 0 /\ e.base # "none"
           base == IF opens THEN Len(s.goals) + 1 ELSE g
           opts == [NoOpts EXCEPT !.ref = e.ref]
           code == e.base
           p == PushGoal(s, code, opts)
           t == IF opens THEN p ELSE s
           ins == e.baseFacts
           u == Tell(t, base, ins)
           v == ComplainAbout(u, base, e)
<1>1. OnComplaint(s, g, e) = IF base = 0 THEN Fail(s, "NO_BASE") ELSE v
    BY DEF OnComplaint
<1>2. opts.parent = 0 /\ ~opts.suspend /\ Plain(ins)
    BY DEF NoOpts
<1> HIDE DEF opts, code, ins
<1>3. Lawful(C, s, t) /\ Shaped(t)
  <2>1. Lawful(C, s, p)
    BY <1>2, PushLawful
  <2> HIDE DEF p, opens
  <2> QED BY <2>1, LawfulSelf DEF Lawful
<1>4. base # 0 => base \in DOMAIN t.goals
  <2>1. DOMAIN p.goals = 1 .. (Len(s.goals) + 1)
    BY <1>2, PushWithin
  <2>2. Len(s.goals) \in Nat
    BY SeqIs DEF Shaped
  <2> HIDE DEF p
  <2> QED BY <2>1, <2>2
<1> HIDE DEF t, base
<1>5. Lawful(C, t, u) /\ Shaped(u) /\ DOMAIN t.goals \subseteq DOMAIN u.goals
    BY <1>2, <1>3, TellLawful DEF Lawful
<1> HIDE DEF u
<1>6. base # 0 => Lawful(C, u, v)
    BY <1>4, <1>5, ComplainLawful
<1> HIDE DEF v
<1>7. base # 0 => Lawful(C, s, v)
  <2>1. Lawful(C, s, u)
    BY <1>3, <1>5, LawfulTrans
  <2> QED BY <1>6, <2>1, LawfulTrans
<1>8. Lawful(C, s, Fail(s, "NO_BASE"))
    BY LawfulMarks
<1> QED BY <1>1, <1>7, <1>8

LEMMA ParallelLawful ==
    ASSUME NEW C, NEW s, Shaped(s), NEW g \in {0} \cup DOMAIN s.goals, NEW e, Plain(e.facts)
    PROVE  Lawful(C, s, OnParallelQuestion(s, g, e))
<1> DEFINE t == IF s.question = NoQuestion THEN s ELSE Park(s)
           opts == [NoOpts EXCEPT !.parent = g, !.case = IF g = 0 THEN 0 ELSE s.goals[g].case]
           code == e.goal
           u == PushGoal(t, code, opts)
           new == Len(s.goals) + 1
           ins == e.facts
           v == Tell(u, new, ins)
<1>1. OnParallelQuestion(s, g, e) = v
    BY DEF OnParallelQuestion
<1>2. opts.parent = g /\ ~opts.suspend /\ Plain(ins)
    BY DEF NoOpts
<1>3. Lawful(C, s, t) /\ Shaped(t) /\ DOMAIN s.goals \subseteq DOMAIN t.goals
    BY ParkCalm, LawfulCalm, LawfulSelf DEF Lawful
<1> HIDE DEF opts, t, code, new, ins
<1>4. Lawful(C, t, u) /\ Shaped(u)
    BY <1>2, <1>3, PushLawful DEF Lawful
<1> HIDE DEF u
<1>5. Lawful(C, u, v)
    BY <1>2, <1>4, TellLawful
<1> HIDE DEF v
<1>6. Lawful(C, s, u)
    BY <1>3, <1>4, LawfulTrans
<1> QED BY <1>1, <1>5, <1>6, LawfulTrans

LEMMA FactsEventLawful ==
    ASSUME NEW C, NEW s, Shaped(s), NEW g, NEW e, Plain(e.facts)
    PROVE  Lawful(C, s, OnFacts(s, g, e))
<1> DEFINE source == IF e.kind = "CORRECTION" THEN "USER_CORRECTION" ELSE "USER_EXPLICIT"
           sure == IF e.kind = "UNCERTAIN" THEN "UNCERTAIN" ELSE "CONFIRMED"
           mode == IF e.kind \in {"CORRECTION", "CHANGE_OF_MIND"} THEN "SUPERSEDE" ELSE "ASSERT"
           ins == e.facts
           told == Told(ins, source, sure)
<1>1. OnFacts(s, g, e) = RecordFacts(s, g, told, mode)
    BY DEF OnFacts
<1>2. Plain(ins)
    OBVIOUS
<1> HIDE DEF source, sure, mode, ins
<1>3. /\ IsSeq(told) /\ DOMAIN told = DOMAIN ins
      /\ \A k \in DOMAIN ins : /\ DOMAIN told[k] = InputFields
                               /\ told[k].authoritative = ins[k].authoritative
    BY <1>2, FilledIs DEF Plain
<1> HIDE DEF told
<1>4. Plain(told)
    BY <1>2, <1>3 DEF Plain, Inputs
<1> QED BY <1>1, <1>4, RecordFactsLawful

LEMMA HandleLawful ==
    ASSUME NEW s, Shaped(s), NEW e, EventSaid(e)
    PROVE  Lawful(Answered(e), s, Handle(s, e))
<1> DEFINE C == Answered(e)
           g == ContextGoal(s)
<1>1. CASE e.kind = "SOCIAL"
  <2> DEFINE t == [s EXCEPT !.question = NoQuestion]
  <2>1. Calm(s, t)
    BY QuestionCalm
  <2> HIDE DEF t
  <2>2. Lawful(C, s, t)
    BY <2>1, LawfulCalm
  <2> QED BY <1>1, <2>2 DEF Handle, t
<1>2. CASE e.kind = "HUMAN_REQUEST"
  <2> DEFINE t == [s EXCEPT !.question = NoQuestion, !.handoff = BuildHandoff(s)]
  <2>1. /\ Shaped(t) /\ t.goals = s.goals
        /\ \A f \in {"seq", "facts", "cases", "actions"} : t[f] = s[f]
    BY DEF Shaped, StateFields
  <2> HIDE DEF t
  <2>2. Lawful(C, s, t)
    BY <2>1, LawfulSame
  <2> QED BY <1>2, <2>2 DEF Handle, t
<1>3. CASE e.kind = "SIGNAL"
  <2>1. {f.code : f \in ToSet(e.facts)} \subseteq C
    BY <1>3 DEF Answered
  <2>2. Lawful(C, s, Signalled(s, e))
    BY <2>1, SignalLawful DEF EventSaid
  <2> QED BY <1>3, <2>2 DEF Handle
<1>4. CASE e.kind \notin {"SOCIAL", "HUMAN_REQUEST", "SIGNAL"}
  <2>1. Handle(s, e) = OnSettling(s, g, e)
    BY <1>4 DEF Handle
  <2>2. Plain(e.facts) /\ (e.kind = "COMPLAINT" => Plain(e.baseFacts))
    BY <1>4 DEF EventSaid
  <2>3. g \in {0} \cup DOMAIN s.goals
    BY ContextIs
  <2> HIDE DEF g, C
  <2>4. /\ Lawful(C, s, OnNewGoal(s, g, e)) /\ Lawful(C, s, OnReclassification(s, g, e))
        /\ (e.kind = "COMPLAINT" => Lawful(C, s, OnComplaint(s, g, e)))
        /\ Lawful(C, s, OnParallelQuestion(s, g, e)) /\ Lawful(C, s, OnFacts(s, g, e))
    BY <2>2, <2>3, NewGoalLawful, ReclassifiedLawful, ComplaintLawful, ParallelLawful,
       FactsEventLawful
  <2> QED BY <2>1, <2>4 DEF OnSettling, C
<1> QED BY <1>1, <1>2, <1>3, <1>4

\* An event: what moves is lawful, counted from the state it numbers.
LEMMA EventLawful ==
    ASSUME NEW s, Shaped(s), NEW e, EventSaid(e)
    PROVE  Lawful(Answered(e), Numbered(s), ApplyEvent(s, e))
<1> DEFINE C == Answered(e)
           n == Numbered(s)
           h == IF n.error = "none" THEN Handle(n, e) ELSE n
           t == IF h.error = "none" THEN SettleGoals(h) ELSE h
           u == IF t.error = "none" THEN RefreshPendingQuestion(t) ELSE t
           v == IF n.error = "none" THEN RefreshPendingQuestion(n) ELSE n
<1>1. ApplyEvent(s, e) \in {h, u, v}
  <2> HIDE DEF n, h, t, C
  <2> QED BY ApplyEventIs DEF n, h, t
<1>2. Shaped(n)
    BY NumberedIs
<1> HIDE DEF n
<1>3. Lawful(C, n, h) /\ Lawful(C, n, v)
    BY <1>2, HandleLawful, LawfulSelf, RefreshCalm, LawfulCalm
<1> HIDE DEF h, v, C
<1>4. Lawful(C, h, t) /\ Shaped(t)
    BY <1>3, SettleLawful, LawfulSelf DEF Lawful
<1> HIDE DEF t
<1>5. Lawful(C, t, u)
    BY <1>4, LawfulSelf, RefreshCalm, LawfulCalm
<1> HIDE DEF u
<1>6. Lawful(C, n, t)
    BY <1>3, <1>4, LawfulTrans
<1> QED BY <1>1, <1>3, <1>5, <1>6, LawfulTrans DEF n, C

\* The events of a message, whatever they number: what the store will replay.
After(C, s, t) ==
    /\ Shaped(t) /\ DOMAIN s.goals \subseteq DOMAIN t.goals
    /\ DOMAIN s.facts \subseteq DOMAIN t.facts /\ Stand(s, t) /\ Signed(C, s, t)
    /\ IsSeq(s.cases) => Extends(s.cases, t.cases)
    /\ IsFiniteSet(s.actions) => IsFiniteSet(t.actions)
    /\ OneEach(s.actions) => OneEach(t.actions)

LEMMA AfterTrans ==
    ASSUME NEW C, NEW s, NEW t, NEW u, After(C, s, t), After(C, t, u)
    PROVE  After(C, s, u)
<1>1. Signed(C, s, u)
  <2> SUFFICES ASSUME NEW i \in DOMAIN u.facts, u.facts[i].authoritative, u.facts[i].code \notin C
               PROVE  /\ i \in DOMAIN s.facts /\ s.facts[i].authoritative
                      /\ s.facts[i].code = u.facts[i].code
    BY DEF Signed
  <2>1. i \in DOMAIN t.facts /\ t.facts[i].authoritative /\ t.facts[i].code = u.facts[i].code
    BY DEF After, Signed
  <2> QED BY <2>1 DEF After, Signed
<1>2. Stand(s, u)
  <2> SUFFICES ASSUME NEW i \in DOMAIN s.facts
               PROVE  /\ \A f \in {"code", "value", "owner", "at", "from"} :
                            u.facts[i][f] = s.facts[i][f]
                      /\ i \notin InForce(s) => u.facts[i] = s.facts[i]
    BY DEF Stand
  <2>1. i \in DOMAIN t.facts /\ (i \notin InForce(s) => t.facts[i] = s.facts[i])
    BY DEF After, Stand
  <2>2. i \notin InForce(s) => i \notin InForce(t)
    BY <2>1 DEF InForce
  <2> QED BY <2>1, <2>2 DEF After, Stand
<1>3. IsSeq(s.cases) => Extends(s.cases, u.cases)
    BY DEF After, Extends
<1> QED BY <1>1, <1>2, <1>3 DEF After

LEMMA EventAfter ==
    ASSUME NEW s, Shaped(s), s.error = "none", NEW e, EventSaid(e)
    PROVE  After(Answered(e), s, ApplyEvent(s, e))
<1> DEFINE n == Numbered(s)
           t == ApplyEvent(s, e)
           C == Answered(e)
<1>1. Lawful(C, n, t)
    BY EventLawful
<1>2. /\ n.goals = s.goals /\ n.facts = s.facts /\ n.cases = s.cases /\ n.actions = s.actions
    BY NumberedIs DEF StateFields
<1>3. Stand(s, t)
  <2>1. CASE e.kind \in {"SOCIAL", "HUMAN_REQUEST"}
    <3>1. t.facts = s.facts
      BY <2>1, ApplyEventQuiet
    <3> QED BY <3>1 DEF Stand
  <2>2. CASE e.kind \notin {"SOCIAL", "HUMAN_REQUEST"}
    <3>1. EventShaped(e)
      BY DEF EventSaid, EventShaped, Plain, Inputs
    <3>2. Moved(n, t, EventKnown(e))
      BY <2>2, <3>1, ApplyEventMoved
    <3>3. Stand(n, t)
      BY <3>2 DEF Moved, Kept, Steady, Firm
    <3> HIDE DEF n, t
    <3> QED BY <1>2, <3>3 DEF Stand, InForce
  <2> QED BY <2>1, <2>2
<1> HIDE DEF n, t, C
<1>4. Signed(C, s, t)
    BY <1>1, <1>2 DEF Lawful, Signed
<1>5. After(C, s, t)
    BY <1>1, <1>2, <1>3, <1>4 DEF Lawful, After
<1> QED BY <1>5 DEF t, C

AnsweredIn(E) == UNION {Answered(E[k]) : k \in DOMAIN E}
SaidAll(E) == IsSeq(E) /\ \A k \in DOMAIN E : EventSaid(E[k])

LEMMA AfterAll ==
    ASSUME Reduces, NEW s, Shaped(s), NEW E, SaidAll(E)
    PROVE  After(AnsweredIn(E), s, ApplyAll(s, E))
<1> DEFINE env == [s |-> s, q |-> E]
           C == AnsweredIn(E)
           n == Len(E)
           At(k) == Planning!LeftAt(env, s, E, k)
           H == {k \in 0 .. n : After(C, s, At(k))}
<1> HIDE DEF env
<1>1. ApplyAll(s, E) = Planning!Along(env, s, E)
    BY PlanningIs
<1>2. n \in Nat /\ DOMAIN E = 1 .. n
    BY SeqIs DEF SaidAll
<1>3. \A k \in 1 .. n : Answered(E[k]) \subseteq C
    BY <1>2 DEF AnsweredIn
<1> HIDE DEF n, C
<1>4. After(C, s, s)
    BY DEF After, Stand, Signed, Extends
<1>5. Planning!Along(env, s, E) = At(n)
    BY <1>2, Planning!AlongIsIter DEF Planning!LeftAt
<1>6. At(0) = s /\ \A k \in 1 .. n : At(k) = PlanningOp(env, At(k - 1), E[k])
  <2> HIDE DEF H
  <2>1. Planning!Inductive
    BY Counting DEF Planning!Inductive
  <2>2. n \in Nat /\ DOMAIN E = 1 .. n
    BY <1>2
  <2> QED BY ONLY <2>1, <2>2, Planning!LeftAtIs DEF At
<1> HIDE DEF At
<1>7. ASSUME NEW t, After(C, s, t), NEW k \in 1 .. n
      PROVE  After(C, s, PlanningOp(env, t, E[k]))
  <2> DEFINE u == ApplyEvent(t, E[k])
  <2>1. PlanningOp(env, t, E[k]) \in {t, u} /\ (t.error # "none" => PlanningOp(env, t, E[k]) = t)
    BY DEF PlanningOp, Reduces
  <2>2. t.error = "none" => After(Answered(E[k]), t, u)
    BY <1>2, <1>7, EventAfter DEF After, SaidAll
  <2> HIDE DEF u
  <2>3. t.error = "none" => After(C, t, u)
    BY <1>3, <2>2 DEF After, Signed
  <2> QED BY <1>7, <2>1, <2>3, AfterTrans
<1>8. 0 \in H
    BY <1>2, <1>6, <1>4
<1>9. ASSUME NEW k \in 1 .. n, k - 1 \in H PROVE k \in H
    BY <1>2, <1>6, <1>7, <1>9
<1>10. n \in H
  <2> HIDE DEF H
  <2> QED BY <1>2, <1>8, <1>9, Counting, Planning!UpTo DEF Planning!Inductive
<1> QED BY <1>1, <1>5, <1>10 DEF C

-----------------------------------------------------------------------------
(* The operations of a difference, one after the other.                    *)

RowFields == {"seq", "cases", "goals", "facts", "questions", "actions", "log", "rollbacks",
              "refused"}
\* What the order of the operations is there to prevent.
Misordered == {"QUESTION_NOT_OPEN", "SECOND_QUESTION", "ACTION_NOT_OPEN", "SECOND_OPEN_ACTION",
               "NOT_COVERED"}
Elsewhere == {"open_case", "push_goal", "set_goal_status", "record_fact", "supersede_fact",
              "set_fact_confidence"}
\* Operations that leave questions and actions alone, and record no fact in the
\* name of the administration but those of a signal.
Harmless(covered, op) ==
    /\ op.op \in Elsewhere
    /\ op.op = "record_fact" /\ op.row.authoritative => op.row.code \in covered
AllHarmless(covered, ops) == IsSeq(ops) /\ \A k \in DOMAIN ops : Harmless(covered, ops[k])
\* ... and what they do to the rows they are applied to
Aside(r, t) ==
    /\ DOMAIN t = RowFields
    /\ t.questions = r.questions /\ t.actions = r.actions /\ t.seq = r.seq
    /\ t.log = r.log /\ t.rollbacks = r.rollbacks
    /\ t.refused \notin Misordered

ReplayingOp(env, t, op) == ApplyOp(t, op, env.seq, env.covered)
AsideOf(env, done, t) == Aside(env.r, t)
Replaying == INSTANCE FoldRules WITH Op <- ReplayingOp, P <- AsideOf

LEMMA ReplayingIs ==
    ASSUME NEW env, NEW r, NEW ops
    PROVE  ApplyOps(r, ops, env.seq, env.covered)
             = Replaying!Along(env, [r EXCEPT !.seq = env.seq], ops)
BY Zenon DEF ApplyOps, Replaying!Along, ReplayingOp, FoldLeft, Max, Replaying!Greatest,
             MapThenFoldSet, Replaying!MapThenFoldSet

LEMMA BothAre ==
    ASSUME NEW p, IsSeq(p), NEW q, IsSeq(q)
    PROVE  /\ IsSeq(p \o q) /\ DOMAIN (p \o q) = 1 .. (Len(p) + Len(q))
           /\ \A k \in DOMAIN p : (p \o q)[k] = p[k]
           /\ \A k \in DOMAIN q : (p \o q)[Len(p) + k] = q[k]
           /\ \A k \in DOMAIN (p \o q) : \/ \E i \in DOMAIN p : (p \o q)[k] = p[i]
                                         \/ \E i \in DOMAIN q : (p \o q)[k] = q[i]
<1>1. PICK T, U : p \in Seq(T) /\ q \in Seq(U)
    BY DEF IsSeq
<1> DEFINE S == T \cup U
<1>2. p \in Seq(S) /\ q \in Seq(S)
    BY <1>1
<1> HIDE DEF S
<1>3. p \o q \in Seq(S) /\ Len(p \o q) = Len(p) + Len(q)
    BY <1>2
<1>4. Len(p) \in Nat /\ Len(q) \in Nat /\ DOMAIN p = 1 .. Len(p) /\ DOMAIN q = 1 .. Len(q)
    BY SeqIs
<1>5. IsSeq(p \o q) /\ DOMAIN (p \o q) = 1 .. (Len(p) + Len(q))
    BY <1>3 DEF IsSeq
<1>6. \A k \in DOMAIN p : (p \o q)[k] = p[k]
    BY <1>2
<1>7. \A k \in DOMAIN q : (p \o q)[Len(p) + k] = q[k]
    BY <1>2, <1>4
<1>8. ASSUME NEW k \in DOMAIN (p \o q)
      PROVE  \/ \E i \in DOMAIN p : (p \o q)[k] = p[i]
             \/ \E i \in DOMAIN q : (p \o q)[k] = q[i]
  <2>1. CASE k \in DOMAIN p
    BY <1>6, <2>1
  <2>2. CASE k \notin DOMAIN p
    <3>1. k - Len(p) \in DOMAIN q /\ Len(p) + (k - Len(p)) = k
      BY <1>4, <1>5, <2>2
    <3> QED BY <1>7, <3>1
  <2> QED BY <2>1, <2>2
<1> QED BY <1>5, <1>6, <1>7, <1>8

LEMMA ReplayBoth ==
    ASSUME NEW env, NEW base, NEW p, IsSeq(p), NEW q, IsSeq(q)
    PROVE  Replaying!Along(env, base, p \o q)
             = Replaying!Along(env, Replaying!Along(env, base, p), q)
<1> DEFINE m == Len(p)
           n == Len(q)
           r == p \o q
<1>1. /\ m \in Nat /\ n \in Nat /\ DOMAIN p = 1 .. m /\ DOMAIN q = 1 .. n
    BY SeqIs
<1>2. /\ DOMAIN r = 1 .. (m + n) /\ \A k \in 1 .. m : r[k] = p[k]
      /\ \A k \in 1 .. n : r[m + k] = q[k]
    BY <1>1, BothAre
<1>3. Replaying!Inductive
    BY Counting DEF Replaying!Inductive
<1> HIDE DEF m, n, r
<1>4. Replaying!Along(env, base, r) = Replaying!Along(env, Replaying!Along(env, base, p), q)
    BY ONLY <1>1, <1>2, <1>3, Replaying!AlongBoth
<1> QED BY <1>4 DEF r

LEMMA HarmlessBoth ==
    ASSUME NEW covered, NEW p, AllHarmless(covered, p), NEW q, AllHarmless(covered, q)
    PROVE  AllHarmless(covered, p \o q)
<1>1. /\ IsSeq(p) /\ IsSeq(q) /\ \A k \in DOMAIN p : Harmless(covered, p[k])
      /\ \A k \in DOMAIN q : Harmless(covered, q[k])
    BY DEF AllHarmless
<1>2. IsSeq(p \o q)
    BY ONLY <1>1, BothAre
<1>3. \A k \in DOMAIN (p \o q) : Harmless(covered, (p \o q)[k])
    BY ONLY <1>1, BothAre
<1> QED BY <1>2, <1>3 DEF AllHarmless

LEMMA RefuseIs ==
    ASSUME NEW r, DOMAIN r = RowFields, NEW why
    PROVE  LET t == Refuse(r, why) IN
           /\ DOMAIN t = RowFields /\ t.refused \in {r.refused, why}
           /\ (r.refused = "none" => t.refused = why)
           /\ \A f \in RowFields \ {"refused"} : t[f] = r[f]
BY DEF Refuse, RowFields

\* One operation on cases, goals or facts.
LEMMA HarmlessStep ==
    ASSUME NEW r, NEW t, Aside(r, t), NEW op, NEW seq, NEW covered, Harmless(covered, op)
    PROVE  Aside(r, ApplyOp(t, op, seq, covered))
<1>1. DOMAIN t = RowFields
    BY DEF Aside
<1>2. ASSUME NEW why, why \notin Misordered
      PROVE  Aside(r, Refuse(t, why))
    BY <1>1, <1>2, RefuseIs DEF Aside, RowFields
<1>3. ASSUME NEW f \in {"cases", "goals", "facts"}, NEW v
      PROVE  Aside(r, [t EXCEPT ![f] = v])
    BY <1>1, <1>3 DEF Aside, RowFields
<1>4. CASE op.op = "open_case"
  <2> DEFINE f == "cases"
             u == [t EXCEPT ![f] = Append(t.cases, op.row)]
  <2>1. OpenCase(t, op) \in {Refuse(t, "KNOWN_SUBJECT"), u}
    BY DEF OpenCase
  <2>2. Aside(r, u)
    <3> HIDE DEF f
    <3>1. f \in {"cases", "goals", "facts"}
      BY DEF f
    <3> QED BY <1>3, <3>1
  <2>3. Aside(r, Refuse(t, "KNOWN_SUBJECT"))
    BY <1>2 DEF Misordered
  <2>4. ApplyOp(t, op, seq, covered) \in {t, OpenCase(t, op)}
    BY <1>4, Zenon DEF ApplyOp
  <2> HIDE DEF u
  <2> QED BY <2>1, <2>2, <2>3, <2>4
<1>5. CASE op.op \in {"push_goal", "set_goal_status"}
  <2>1. ApplyOp(t, op, seq, covered) \in {t, ApplyGoal(t, op, seq)}
    BY <1>5, Zenon DEF ApplyOp
  <2>2. Aside(r, ApplyGoal(t, op, seq))
    <3> DEFINE g == op.id
               row == [op.row EXCEPT !.opened = seq, !.closed = IF @ = 0 THEN 0 ELSE seq]
               set == [t EXCEPT !.goals[g].status = row.status, !.goals[g].reason = row.reason,
                           !.goals[g].closed = IF row.status \in Terminal THEN seq ELSE 0]
               more == [t EXCEPT !.goals = Append(@, row)]
    <3>1. ApplyGoal(t, op, seq) \in {Refuse(t, "CLOSED_BASE"), Refuse(t, "SECOND_OPEN_GOAL"),
                                     Refuse(t, "TERMINAL_GOAL"), set, more}
      BY Zenon DEF ApplyGoal
    <3>2. Aside(r, set)
      <4> HIDE DEF row
      <4> QED BY <1>1 DEF Aside, RowFields
    <3>3. Aside(r, more)
      <4> HIDE DEF row
      <4> QED BY <1>1 DEF Aside, RowFields
    <3>4. /\ Aside(r, Refuse(t, "CLOSED_BASE")) /\ Aside(r, Refuse(t, "SECOND_OPEN_GOAL"))
          /\ Aside(r, Refuse(t, "TERMINAL_GOAL"))
      BY <1>2 DEF Misordered
    <3> HIDE DEF set, more
    <3> QED BY <3>1, <3>2, <3>3, <3>4
  <2> QED BY <2>1, <2>2
<1>6. CASE op.op \in {"record_fact", "supersede_fact", "set_fact_confidence"}
  <2>1. ApplyOp(t, op, seq, covered) \in {t, ApplyFact(t, op, seq, covered)}
    BY <1>6, Zenon DEF ApplyOp
  <2>2. Aside(r, ApplyFact(t, op, seq, covered))
    <3> DEFINE row == [op.row EXCEPT !.at = seq, !.supAt = 0, !.status = "ACTIVE",
                                     !.why = "none", !.by = 0]
               i == op.id
               doubted == [t.facts[i] EXCEPT !.confidence = op.row.confidence,
                                             !.conflict = op.row.conflict]
               more == [t EXCEPT !.facts = Append(@, row)]
               gone == [t EXCEPT !.facts[i].status = "SUPERSEDED", !.facts[i].by = op.row.by,
                                 !.facts[i].supAt = seq, !.facts[i].why = op.row.why]
               less == [t EXCEPT !.facts[i] = doubted]
    <3>1. op.op = "record_fact" /\ row.authoritative => row.code \in covered
      <4>1. op.op = "record_fact" /\ op.row.authoritative => op.row.code \in covered
        BY DEF Harmless
      <4>2. row.authoritative = op.row.authoritative /\ row.code = op.row.code
        BY DEF row
      <4> QED BY <4>1, <4>2
    <3>2. ApplyFact(t, op, seq, covered) \in {Refuse(t, "SECOND_ACTIVE_FACT"), more, gone, less}
      <4> HIDE DEF doubted
      <4>1. CASE op.op = "record_fact"
        <5>1. ApplyFact(t, op, seq, covered)
                = IF row.authoritative /\ row.code \notin covered THEN Refuse(t, "NOT_COVERED")
                  ELSE IF SecondFact(t, i, row) THEN Refuse(t, "SECOND_ACTIVE_FACT") ELSE more
          BY <4>1, Zenon DEF ApplyFact
        <5> HIDE DEF row, more
        <5> QED BY <3>1, <4>1, <5>1
      <4>2. CASE op.op = "supersede_fact"
        BY <4>2, Zenon DEF ApplyFact
      <4>3. CASE op.op \notin {"record_fact", "supersede_fact"}
        <5>1. op.op # "record_fact" /\ op.op # "supersede_fact"
          BY <4>3
        <5> QED BY <5>1, Zenon DEF ApplyFact, doubted
      <4> QED BY <4>1, <4>2, <4>3
    <3>3. Aside(r, more)
      <4> HIDE DEF row
      <4> QED BY <1>1 DEF Aside, RowFields
    <3>4. Aside(r, gone)
      BY <1>1 DEF Aside, RowFields
    <3>5. Aside(r, less)
      <4> HIDE DEF doubted
      <4> QED BY <1>1 DEF Aside, RowFields
    <3>6. Aside(r, Refuse(t, "SECOND_ACTIVE_FACT"))
      BY <1>2 DEF Misordered
    <3> HIDE DEF more, gone, less
    <3> QED BY <3>2, <3>3, <3>4, <3>5, <3>6
  <2> QED BY <2>1, <2>2
<1> QED BY <1>4, <1>5, <1>6 DEF Harmless, Elsewhere

-----------------------------------------------------------------------------
(* What a difference is made of.                                           *)

\* the first operations touch neither questions nor actions ...
Elsewheres(prev, next, hmac) ==
    LET cases == [c \in DOMAIN next.cases |->
                     [kind |-> next.cases[c].kind, hmac |-> hmac[c]]]
        moved == {g \in DOMAIN prev.goals : \/ prev.goals[g].status # next.goals[g].status
                                            \/ prev.goals[g].reason # next.goals[g].reason}
        retired(i) == prev.facts[i].status = "ACTIVE" /\ next.facts[i].status = "SUPERSEDED"
        doubted(i) == \/ prev.facts[i].confidence # next.facts[i].confidence
                      \/ prev.facts[i].conflict # next.facts[i].conflict
        touched == {i \in DOMAIN prev.facts : retired(i) \/ doubted(i)}
        touch(i) == Op(IF retired(i) THEN "supersede_fact" ELSE "set_fact_confidence",
                       i, next.facts[i])
    IN NewOnes("open_case", prev.cases, cases)
       \o NewOnes("push_goal", prev.goals, next.goals)
       \o Ops(Indices(prev.goals), moved, LAMBDA g : Op("set_goal_status", g, next.goals[g]))
       \o Ops(Indices(prev.facts), touched, touch)
       \o NewOnes("record_fact", prev.facts, next.facts)
\* ... and the last ones only actions
ActionOps(kind, from, to) ==
    LET list == SetToSeq(from \ to) IN [i \in DOMAIN list |-> Op(kind, 0, list[i])]

LEMMA DiffIs ==
    ASSUME NEW prev, NEW next, NEW hmac
    PROVE  DiffTransition(prev, next, hmac)
             = Elsewheres(prev, next, hmac) \o QuestionOps(prev, next)
               \o ActionOps("close_action", prev.actions, next.actions)
               \o ActionOps("open_action", next.actions, prev.actions)
BY Zenon DEF DiffTransition, Elsewheres, ActionOps

LEMMA HarmlessAll ==
    ASSUME NEW r, NEW t, Aside(r, t), NEW seq, NEW covered, NEW ops, AllHarmless(covered, ops)
    PROVE  LET env == [r |-> r, seq |-> seq, covered |-> covered] IN
           Aside(r, Replaying!Along(env, t, ops))
<1> DEFINE env == [r |-> r, seq |-> seq, covered |-> covered]
           n == Len(ops)
<1>1. env.r = r /\ env.seq = seq /\ env.covered = covered
    OBVIOUS
<1> HIDE DEF env
<1>2. n \in Nat /\ DOMAIN ops = 1 .. n
    BY SeqIs DEF AllHarmless
<1>3. AsideOf(env, 0, t)
    BY <1>1 DEF AsideOf
<1>4. \A k \in 1 .. n : \A u : AsideOf(env, k - 1, u) => AsideOf(env, k, ReplayingOp(env, u, ops[k]))
    BY <1>1, <1>2, HarmlessStep DEF AsideOf, ReplayingOp, AllHarmless
<1> HIDE DEF n
<1>5. Replaying!Inductive
    BY Counting DEF Replaying!Inductive
<1>6. AsideOf(env, n, Replaying!Along(env, t, ops))
    BY <1>2, <1>3, <1>4, <1>5, Replaying!FoldLeftRule
<1> QED BY <1>1, <1>6 DEF AsideOf, env

LEMMA OpIs ==
    ASSUME NEW kind, NEW id, NEW row
    PROVE  Op(kind, id, row).op = kind /\ Op(kind, id, row).id = id /\ Op(kind, id, row).row = row
BY DEF Op

LEMMA NewOnesAre ==
    ASSUME NEW kind, NEW old, IsSeq(old), NEW new, IsSeq(new), DOMAIN old \subseteq DOMAIN new
    PROVE  /\ IsSeq(NewOnes(kind, old, new))
           /\ \A k \in DOMAIN NewOnes(kind, old, new) :
                 \E j \in DOMAIN new \ DOMAIN old : NewOnes(kind, old, new)[k] = Op(kind, j, new[j])
<1> DEFINE m == Len(old)
           n == Len(new)
           f == NewOnes(kind, old, new)
<1>1. m \in Nat /\ n \in Nat /\ DOMAIN old = 1 .. m /\ DOMAIN new = 1 .. n
    BY SeqIs
<1>2. m <= n
    BY <1>1
<1>3. f = [i \in 1 .. n - m |-> Op(kind, m + i, new[m + i])]
    BY DEF NewOnes
<1> HIDE DEF m, n, f
<1>4. n - m \in Nat /\ f = [i \in 1 .. n - m |-> f[i]] /\ DOMAIN f = 1 .. n - m
    BY <1>1, <1>2, <1>3
<1>5. IsSeq(f)
    BY <1>4, FunctionIsSeq
<1>6. ASSUME NEW k \in DOMAIN f
      PROVE  \E j \in DOMAIN new \ DOMAIN old : f[k] = Op(kind, j, new[j])
  <2>1. m + k \in DOMAIN new \ DOMAIN old
    BY <1>1, <1>2, <1>4
  <2>2. f[k] = Op(kind, m + k, new[m + k])
    BY <1>3, <1>4
  <2> QED BY <2>1, <2>2
<1> QED BY <1>5, <1>6 DEF f

\* Before the questions: no fact is recorded in the name of the administration
\* that the message does not answer for.
LEMMA ElsewheresHarmless ==
    ASSUME NEW C, NEW prev, NEW next, NEW hmac,
           Shaped(prev), IsSeq(prev.cases), After(C, prev, next)
    PROVE  AllHarmless(C, Elsewheres(prev, next, hmac))
<1> DEFINE cases == [c \in DOMAIN next.cases |->
                        [kind |-> next.cases[c].kind, hmac |-> hmac[c]]]
           moved == {g \in DOMAIN prev.goals : \/ prev.goals[g].status # next.goals[g].status
                                               \/ prev.goals[g].reason # next.goals[g].reason}
           retired(i) == prev.facts[i].status = "ACTIVE" /\ next.facts[i].status = "SUPERSEDED"
           doubted(i) == \/ prev.facts[i].confidence # next.facts[i].confidence
                         \/ prev.facts[i].conflict # next.facts[i].conflict
           touched == {i \in DOMAIN prev.facts : retired(i) \/ doubted(i)}
           status == Among(Indices(prev.goals), moved)
           doubts == Among(Indices(prev.facts), touched)
           touchedOp(i) == Op(IF retired(i) THEN "supersede_fact" ELSE "set_fact_confidence",
                              i, next.facts[i])
           A == NewOnes("open_case", prev.cases, cases)
           B == NewOnes("push_goal", prev.goals, next.goals)
           D == [i \in DOMAIN status |-> Op("set_goal_status", status[i], next.goals[status[i]])]
           E == [i \in DOMAIN doubts |-> touchedOp(doubts[i])]
           F == NewOnes("record_fact", prev.facts, next.facts)
<1>1. Elsewheres(prev, next, hmac) = A \o B \o D \o E \o F
    BY Zenon DEF Elsewheres, Ops
<1>2. /\ IsSeq(prev.cases) /\ IsSeq(next.cases) /\ DOMAIN prev.cases \subseteq DOMAIN next.cases
      /\ IsSeq(prev.goals) /\ IsSeq(next.goals) /\ DOMAIN prev.goals \subseteq DOMAIN next.goals
      /\ IsSeq(prev.facts) /\ IsSeq(next.facts) /\ DOMAIN prev.facts \subseteq DOMAIN next.facts
    BY DEF Shaped, After, Extends
<1>3. AllHarmless(C, A)
  <2>1. IsSeq(cases) /\ DOMAIN cases = DOMAIN next.cases
    BY <1>2, MapIsSeq
  <2> DEFINE kind == "open_case"
             f == NewOnes(kind, prev.cases, cases)
  <2> HIDE DEF cases
  <2>2. kind \in Elsewhere /\ kind # "record_fact"
    BY DEF Elsewhere
  <2> HIDE DEF kind
  <2>3. IsSeq(f) /\ \A k \in DOMAIN f : \E j \in DOMAIN cases \ DOMAIN prev.cases :
           f[k] = Op(kind, j, cases[j])
    <3>1. IsSeq(prev.cases) /\ IsSeq(cases) /\ DOMAIN prev.cases \subseteq DOMAIN cases
      BY <1>2, <2>1
    <3> QED BY ONLY <3>1, NewOnesAre
  <2> HIDE DEF f
  <2>4. AllHarmless(C, f)
    BY <2>2, <2>3, OpIs DEF AllHarmless, Harmless
  <2> QED BY <2>4 DEF f, kind
<1>4. AllHarmless(C, B)
  <2> DEFINE kind == "push_goal"
             f == NewOnes(kind, prev.goals, next.goals)
  <2>1. kind \in Elsewhere /\ kind # "record_fact"
    BY DEF Elsewhere
  <2> HIDE DEF kind
  <2>2. IsSeq(f) /\ \A k \in DOMAIN f : \E j \in DOMAIN next.goals \ DOMAIN prev.goals :
           f[k] = Op(kind, j, next.goals[j])
    <3>1. IsSeq(prev.goals) /\ IsSeq(next.goals) /\ DOMAIN prev.goals \subseteq DOMAIN next.goals
      BY <1>2
    <3> QED BY ONLY <3>1, NewOnesAre
  <2> HIDE DEF f
  <2>3. AllHarmless(C, f)
    BY <2>1, <2>2, OpIs DEF AllHarmless, Harmless
  <2> QED BY <2>3 DEF f, kind
<1>5. AllHarmless(C, F)
  <2> DEFINE kind == "record_fact"
             f == NewOnes(kind, prev.facts, next.facts)
  <2>1. kind \in Elsewhere
    BY DEF Elsewhere
  <2> HIDE DEF kind
  <2>2. IsSeq(f) /\ \A k \in DOMAIN f : \E j \in DOMAIN next.facts \ DOMAIN prev.facts :
           f[k] = Op(kind, j, next.facts[j])
    <3>1. IsSeq(prev.facts) /\ IsSeq(next.facts) /\ DOMAIN prev.facts \subseteq DOMAIN next.facts
      BY <1>2
    <3> QED BY ONLY <3>1, NewOnesAre
  <2>3. \A j \in DOMAIN next.facts \ DOMAIN prev.facts :
           next.facts[j].authoritative => next.facts[j].code \in C
    BY DEF After, Signed
  <2> HIDE DEF f
  <2>4. AllHarmless(C, f)
    BY <2>1, <2>2, <2>3, OpIs DEF AllHarmless, Harmless
  <2> QED BY <2>4 DEF f, kind
<1>6. IsSeq(status) /\ IsSeq(doubts)
  <2>1. IsSeq(Indices(prev.goals)) /\ IsSeq(Indices(prev.facts))
    BY <1>2, MapIsSeq DEF Indices
  <2> HIDE DEF moved, touched
  <2> QED BY <2>1, AmongIs
<1> HIDE DEF status, doubts, retired
<1>7. AllHarmless(C, D)
  <2>1. IsSeq(D)
    BY <1>6, MapIsSeq
  <2> QED BY <2>1, OpIs DEF AllHarmless, Harmless, Elsewhere
<1>8. AllHarmless(C, E)
  <2>1. IsSeq(E)
    <3> HIDE DEF touchedOp
    <3> QED BY <1>6, MapIsSeq
  <2>2. \A i : touchedOp(i).op \in {"supersede_fact", "set_fact_confidence"}
    BY OpIs
  <2> HIDE DEF touchedOp
  <2> QED BY <2>1, <2>2 DEF AllHarmless, Harmless, Elsewhere
<1> HIDE DEF A, B, D, E, F
<1>9. AllHarmless(C, A \o B)
    BY <1>3, <1>4, HarmlessBoth
<1>10. AllHarmless(C, A \o B \o D)
    BY <1>7, <1>9, HarmlessBoth
<1>11. AllHarmless(C, A \o B \o D \o E)
    BY <1>8, <1>10, HarmlessBoth
<1> QED BY <1>1, <1>5, <1>11, HarmlessBoth

-----------------------------------------------------------------------------
(* Questions.                                                              *)

QuestionFields == {"fact", "goal", "conflict", "asked", "state", "order"}
Live(t) == {x \in t.questions : x.state \in {"PENDING", "PARKED"}}
Asking(t, state) == {QuestionOf(x) : x \in InState(t, state)}
\* One question is pending, every parked one has a place, and none is there twice:
\* they were asked in the turns so far.
QuestionsOK(t, n) ==
    /\ \A x \in t.questions : DOMAIN x = QuestionFields
    /\ \A x, y \in Live(t) : QuestionOf(x) = QuestionOf(y) => x = y
    /\ \A x, y \in InState(t, "PENDING") : x = y
    /\ \A x \in Live(t) : x.asked \in 1 .. n
    /\ \E last \in Nat : \A x \in InState(t, "PARKED") : x.order \in 1 .. last
\* only questions changed, those that ended not among them, and nothing was refused
Questioned(t, u) ==
    /\ DOMAIN u = RowFields
    /\ \A f \in RowFields \ {"questions"} : u[f] = t[f]
    /\ \A x \in t.questions : x.state \notin {"PENDING", "PARKED"} => x \in u.questions

\* the questions that are q, in one of these states, become one row
Those(t, q, from) == {x \in t.questions : QuestionOf(x) = q /\ x.state \in from}
Replaced(t, q, from, to) == [t EXCEPT !.questions = (@ \ Those(t, q, from)) \cup {to}]
Row(t, q, to) ==
    /\ DOMAIN to = QuestionFields /\ QuestionOf(to) = q
    /\ to.state = "PARKED" => to.order \in Nat \ {0}
    /\ to.state = "PENDING" => InState(t, "PENDING") = {}
Shifted(t, u, q, state) ==
    \A s \in {"PENDING", "PARKED"} :
        Asking(u, s) = (Asking(t, s) \ {q}) \cup (IF state = s THEN {q} ELSE {})

LEMMA QuestionReplaced ==
    ASSUME NEW t, DOMAIN t = RowFields, NEW n \in Nat, QuestionsOK(t, n),
           NEW q, NEW from, from \subseteq {"PENDING", "PARKED"},
           Those(t, q, from) # {}, NEW to, Row(t, q, to)
    PROVE  LET u == Replaced(t, q, from, to) IN
           Questioned(t, u) /\ QuestionsOK(u, n) /\ Shifted(t, u, q, to.state)
<1> DEFINE u == Replaced(t, q, from, to)
           mine == Those(t, q, from)
<1> USE DEF Row
<1>2. u.questions = (t.questions \ mine) \cup {to}
    BY DEF Replaced, RowFields
<1>1. Questioned(t, u)
  <2>1. DOMAIN u = RowFields /\ \A f \in RowFields \ {"questions"} : u[f] = t[f]
    BY DEF Replaced, RowFields
  <2> HIDE DEF u
  <2>2. \A x \in mine : x.state \in {"PENDING", "PARKED"}
    BY DEF Those
  <2> QED BY <1>2, <2>1, <2>2 DEF Questioned
<1> HIDE DEF u
<1>0. PICK x \in t.questions : QuestionOf(x) = q /\ x.state \in from
    BY DEF Those
<1>3. x \in Live(t)
    BY <1>0 DEF Live
<1>4. mine = {x}
    BY <1>0, <1>3 DEF QuestionsOK, Live, Those
<1> HIDE DEF mine
<1>5. Live(u) \subseteq (Live(t) \ {x}) \cup {to}
    BY <1>2, <1>4 DEF Live
<1>6. \A y \in Live(t) \ {x} : QuestionOf(y) # q
    BY <1>0, <1>3 DEF QuestionsOK
<1>7. \A s \in {"PENDING", "PARKED"} :
         InState(u, s) = (InState(t, s) \ {x}) \cup (IF to.state = s THEN {to} ELSE {})
    BY <1>2, <1>4 DEF InState
<1>8. \A s \in {"PENDING", "PARKED"} : InState(t, s) \subseteq Live(t)
    BY DEF InState, Live
<1>9. QuestionsOK(u, n)
  <2>1. \A y \in u.questions : DOMAIN y = QuestionFields
    BY <1>2 DEF QuestionsOK
  <2>2. \A y, z \in Live(u) : QuestionOf(y) = QuestionOf(z) => y = z
    BY <1>5, <1>6 DEF QuestionsOK
  <2>3. \A y, z \in InState(u, "PENDING") : y = z
    BY <1>7 DEF QuestionsOK
  <2>4. \A y \in Live(u) : y.asked \in 1 .. n
    <3>1. to.asked = x.asked
      BY <1>0 DEF QuestionOf
    <3> QED BY <1>3, <1>5, <3>1 DEF QuestionsOK
  <2>5. \E last \in Nat : \A y \in InState(u, "PARKED") : y.order \in 1 .. last
    <3>1. PICK last \in Nat : \A y \in InState(t, "PARKED") : y.order \in 1 .. last
      BY DEF QuestionsOK
    <3>2. CASE to.state = "PARKED"
      <4> DEFINE more == last + to.order
      <4>1. more \in Nat /\ to.order \in 1 .. more /\ 1 .. last \subseteq 1 .. more
        BY <3>2
      <4> HIDE DEF more
      <4>2. \A y \in InState(u, "PARKED") : y.order \in 1 .. more
        BY <1>7, <3>1, <4>1
      <4> QED BY <4>1, <4>2
    <3>3. CASE to.state # "PARKED"
      BY <1>7, <3>1, <3>3
    <3> QED BY <3>2, <3>3
  <2> QED BY <2>1, <2>2, <2>3, <2>4, <2>5 DEF QuestionsOK
<1>10. ASSUME NEW s \in {"PENDING", "PARKED"}
       PROVE  Asking(u, s) = (Asking(t, s) \ {q}) \cup (IF to.state = s THEN {q} ELSE {})
  <2>1. \A y \in InState(t, s) : y = x \/ QuestionOf(y) # q
    BY <1>6, <1>8
  <2>2. InState(u, s) = (InState(t, s) \ {x}) \cup (IF to.state = s THEN {to} ELSE {})
    BY <1>7
  <2> QED BY <1>0, <2>1, <2>2 DEF Asking
<1> QED BY <1>1, <1>9, <1>10 DEF u, Shifted

\* What each operation on a question does where it is accepted.
LEMMA QuestionMoves ==
    ASSUME NEW t, DOMAIN t = RowFields, t.refused = "none", NEW n \in Nat, QuestionsOK(t, n),
           NEW op, NEW covered
    PROVE  LET u == ApplyOp(t, op, n + 1, covered) IN
           /\ op.op = "park_question" /\ op.id \in Nat \ {0} /\ op.row \in Asking(t, "PENDING") =>
                 /\ Questioned(t, u) /\ QuestionsOK(u, n)
                 /\ Asking(u, "PENDING") = {}
                 /\ Asking(u, "PARKED") = Asking(t, "PARKED") \cup {op.row}
           /\ (/\ op.op = "close_question" /\ op.row.state \in {"ANSWERED", "CANCELLED"}
               /\ op.row.q \in Asking(t, "PENDING") \cup Asking(t, "PARKED")) =>
                 /\ Questioned(t, u) /\ QuestionsOK(u, n)
                 /\ \A s \in {"PENDING", "PARKED"} : Asking(u, s) = Asking(t, s) \ {op.row.q}
           /\ (/\ op.op = "restore_question" /\ Asking(t, "PENDING") = {}
               /\ op.row \in Asking(t, "PARKED")) =>
                 /\ Questioned(t, u) /\ QuestionsOK(u, n)
           /\ op.op = "set_question" /\ Asking(t, "PENDING") = {} =>
                 /\ Questioned(t, u) /\ QuestionsOK(u, n + 1)
<1> DEFINE q == IF op.op = "close_question" THEN op.row.q ELSE op.row
           from == CASE op.op = "park_question" -> {"PENDING"}
                     [] op.op = "restore_question" -> {"PARKED"}
                     [] OTHER -> {"PENDING", "PARKED"}
           mine == {x \in t.questions : QuestionOf(x) = q /\ x.state \in from}
           row(state, order) == [fact |-> q.fact, goal |-> q.goal, conflict |-> q.conflict,
                                 asked |-> q.asked, state |-> state, order |-> order]
           seq == n + 1
           to == CASE op.op = "park_question" -> row("PARKED", op.id)
                   [] op.op = "restore_question" -> row("PENDING", 0)
                   [] op.op = "close_question" -> row(op.row.state, 0)
                   [] OTHER -> [row("PENDING", 0) EXCEPT !.asked = seq]
           next == [t EXCEPT !.questions = (@ \ mine) \cup {to}]
           u == ApplyOp(t, op, seq, covered)
<1>1. op.op \in {"park_question", "restore_question", "close_question", "set_question"} =>
         u = ApplyQuestion(t, op, seq)
  <2>1. op.op \in {"park_question", "restore_question", "close_question", "set_question"} =>
           /\ ~(t.refused = "none" /\ op.op = "open_case")
           /\ ~(t.refused = "none" /\ op.op \in {"push_goal", "set_goal_status"})
           /\ ~(t.refused = "none" /\ op.op \in {"record_fact", "supersede_fact",
                                          "set_fact_confidence"})
           /\ ~(t.refused = "none" /\ op.op \in {"open_action", "close_action"})
           /\ ~(t.refused # "none")
    OBVIOUS
  <2> QED BY <2>1, Zenon DEF ApplyOp
<1>2. ApplyQuestion(t, op, seq)
        = CASE op.op # "set_question" /\ mine = {} -> Refuse(t, "QUESTION_NOT_OPEN")
            [] to.state = "PENDING" /\ InState(t, "PENDING") # {} -> Refuse(t, "SECOND_QUESTION")
            [] OTHER -> next
    BY Zenon DEF ApplyQuestion
<1>3. ~(op.op # "set_question" /\ mine = {}) /\ (to.state = "PENDING" => InState(t, "PENDING") = {})
        => ApplyQuestion(t, op, seq) = next
  <2> HIDE DEF mine, to, next
  <2> QED BY <1>2
<1> HIDE DEF u
<1>4. Asking(t, "PENDING") = {} => InState(t, "PENDING") = {}
    BY DEF Asking
<1>5. \A state, order : /\ DOMAIN row(state, order) = QuestionFields
                        /\ QuestionOf(row(state, order)) = QuestionOf(q)
                        /\ row(state, order).state = state /\ row(state, order).order = order
    BY DEF QuestionFields, QuestionOf
<1>6. \A x : QuestionOf(QuestionOf(x)) = QuestionOf(x)
    BY DEF QuestionOf
<1>7. ASSUME op.op \in {"park_question", "close_question", "restore_question"},
             NEW x \in t.questions, QuestionOf(x) = q, x.state \in from,
             NEW state, NEW order, to = row(state, order),
             state = "PARKED" => order \in Nat \ {0},
             state = "PENDING" => InState(t, "PENDING") = {}
      PROVE  /\ Questioned(t, u) /\ QuestionsOK(u, n)
             /\ \A s \in {"PENDING", "PARKED"} :
                  Asking(u, s) = (Asking(t, s) \ {q}) \cup (IF state = s THEN {q} ELSE {})
  <2>1. DOMAIN to = QuestionFields /\ QuestionOf(to) = q /\ to.state = state /\ to.order = order
    BY <1>5, <1>6, <1>7
  <2>2. from \subseteq {"PENDING", "PARKED"}
    OBVIOUS
  <2> HIDE DEF to, q, from, row
  <2>3. next = Replaced(t, q, from, to) /\ mine = Those(t, q, from)
    BY DEF Replaced, Those
  <2>4. mine # {}
    BY <1>7
  <2> HIDE DEF mine, next
  <2>5. u = next
    BY <1>1, <1>3, <1>7, <2>1, <2>4
  <2> DEFINE v == Replaced(t, q, from, to)
  <2>6. Row(t, q, to) /\ Those(t, q, from) # {}
    BY <1>7, <2>1, <2>3, <2>4 DEF Row
  <2>7. Questioned(t, v) /\ QuestionsOK(v, n) /\ Shifted(t, v, q, to.state)
    BY <2>2, <2>6, QuestionReplaced
  <2> HIDE DEF v
  <2> QED BY <2>1, <2>3, <2>5, <2>7 DEF v, Shifted
<1>8. ASSUME op.op = "park_question", op.id \in Nat \ {0}, op.row \in Asking(t, "PENDING")
      PROVE  /\ Questioned(t, u) /\ QuestionsOK(u, n)
             /\ Asking(u, "PENDING") = {}
             /\ Asking(u, "PARKED") = Asking(t, "PARKED") \cup {op.row}
  <2>1. q = op.row /\ from = {"PENDING"} /\ to = row("PARKED", op.id)
    BY <1>8
  <2>2. PICK x \in InState(t, "PENDING") : QuestionOf(x) = op.row
    BY <1>8 DEF Asking
  <2>3. x \in t.questions /\ x.state = "PENDING"
    BY <2>2 DEF InState
  <2>4. Asking(t, "PENDING") = {op.row}
    BY <2>2 DEF Asking, QuestionsOK
  <2> HIDE DEF q, from, to, row, mine, next
  <2>5. /\ Questioned(t, u) /\ QuestionsOK(u, n)
        /\ \A s \in {"PENDING", "PARKED"} :
              Asking(u, s) = (Asking(t, s) \ {q}) \cup (IF "PARKED" = s THEN {q} ELSE {})
    BY <1>7, <1>8, <2>1, <2>2, <2>3
  <2> QED BY <2>1, <2>4, <2>5
<1>9. ASSUME op.op = "close_question", op.row.state \in {"ANSWERED", "CANCELLED"},
             op.row.q \in Asking(t, "PENDING") \cup Asking(t, "PARKED")
      PROVE  /\ Questioned(t, u) /\ QuestionsOK(u, n)
             /\ \A s \in {"PENDING", "PARKED"} : Asking(u, s) = Asking(t, s) \ {op.row.q}
  <2>1. q = op.row.q /\ from = {"PENDING", "PARKED"} /\ to = row(op.row.state, 0)
    BY <1>9
  <2>2. PICK x \in t.questions : QuestionOf(x) = op.row.q /\ x.state \in {"PENDING", "PARKED"}
    BY <1>9 DEF Asking, InState
  <2> HIDE DEF q, from, to, row, mine, next
  <2>3. /\ Questioned(t, u) /\ QuestionsOK(u, n)
        /\ \A s \in {"PENDING", "PARKED"} :
              Asking(u, s) = (Asking(t, s) \ {q}) \cup (IF op.row.state = s THEN {q} ELSE {})
    <3>1. QuestionOf(x) = q /\ x.state \in from
      BY <2>1, <2>2
    <3>2. op.row.state # "PARKED" /\ op.row.state # "PENDING"
      BY <1>9
    <3> QED BY <1>7, <1>9, <2>1, <3>1, <3>2
  <2> QED BY <1>9, <2>1, <2>3
<1>10. ASSUME op.op = "restore_question", Asking(t, "PENDING") = {}, op.row \in Asking(t, "PARKED")
       PROVE  Questioned(t, u) /\ QuestionsOK(u, n)
  <2>1. q = op.row /\ from = {"PARKED"} /\ to = row("PENDING", 0)
    BY <1>10
  <2>2. PICK x \in InState(t, "PARKED") : QuestionOf(x) = op.row
    BY <1>10 DEF Asking
  <2>3. x \in t.questions /\ x.state = "PARKED"
    BY <2>2 DEF InState
  <2> HIDE DEF q, from, to, row, mine, next
  <2> QED BY <1>4, <1>7, <1>10, <2>1, <2>2, <2>3
<1>11. ASSUME op.op = "set_question", Asking(t, "PENDING") = {}
       PROVE  Questioned(t, u) /\ QuestionsOK(u, n + 1)
  <2>1. to = [row("PENDING", 0) EXCEPT !.asked = seq]
    BY <1>11
  <2>2. DOMAIN to = QuestionFields /\ to.state = "PENDING" /\ to.asked = seq /\ to.order = 0
    BY <2>1 DEF QuestionFields
  <2>3. InState(t, "PENDING") = {}
    BY <1>4, <1>11
  <2> HIDE DEF to, row, q, from
  <2>4. Questioned(t, next) /\ next.questions = (t.questions \ mine) \cup {to}
    <3>1. DOMAIN next = RowFields /\ \A f \in RowFields \ {"questions"} : next[f] = t[f]
      BY DEF RowFields
    <3>2. next.questions = (t.questions \ mine) \cup {to}
      BY DEF RowFields
    <3>3. \A x \in mine : x.state \in {"PENDING", "PARKED"}
      BY <1>11 DEF from
    <3> HIDE DEF next, mine
    <3> QED BY <3>1, <3>2, <3>3 DEF Questioned
  <2> HIDE DEF mine, next
  <2>5. u = next
    BY <1>1, <1>3, <1>11, <2>3
  <2>6. Live(u) \subseteq Live(t) \cup {to}
    BY <2>4, <2>5 DEF Live
  <2>7. \A y \in Live(t) : y.asked \in 1 .. n /\ QuestionOf(y).asked = y.asked
    BY DEF QuestionsOK, QuestionOf
  <2>8. QuestionOf(to).asked = n + 1
    BY <2>2 DEF QuestionOf
  <2>9. \A y \in Live(t) : QuestionOf(y) # QuestionOf(to)
    BY <2>7, <2>8
  <2>10. InState(u, "PENDING") \subseteq {to} /\ InState(u, "PARKED") \subseteq InState(t, "PARKED")
    BY <2>2, <2>3, <2>4, <2>5 DEF InState
  <2>11. \A y \in u.questions : DOMAIN y = QuestionFields
    BY <2>2, <2>4, <2>5 DEF QuestionsOK
  <2>12. \A y \in Live(u) : y.asked \in 1 .. n + 1
    BY <2>2, <2>6, <2>7
  <2>13. \A y, z \in Live(u) : QuestionOf(y) = QuestionOf(z) => y = z
    BY <2>6, <2>9 DEF QuestionsOK
  <2>14. \E last \in Nat : \A y \in InState(u, "PARKED") : y.order \in 1 .. last
    BY <2>10 DEF QuestionsOK
  <2> QED BY <2>4, <2>5, <2>10, <2>11, <2>12, <2>13, <2>14 DEF QuestionsOK
<1> HIDE DEF q, from, mine, row, to, next
<1>12. op.op = "park_question" /\ op.id \in Nat \ {0} /\ op.row \in Asking(t, "PENDING") =>
          /\ Questioned(t, u) /\ QuestionsOK(u, n)
          /\ Asking(u, "PENDING") = {}
          /\ Asking(u, "PARKED") = Asking(t, "PARKED") \cup {op.row}
    BY <1>8
<1>13. (/\ op.op = "close_question" /\ op.row.state \in {"ANSWERED", "CANCELLED"}
        /\ op.row.q \in Asking(t, "PENDING") \cup Asking(t, "PARKED")) =>
          /\ Questioned(t, u) /\ QuestionsOK(u, n)
          /\ \A s \in {"PENDING", "PARKED"} : Asking(u, s) = Asking(t, s) \ {op.row.q}
    BY <1>9
<1>14. (/\ op.op = "restore_question" /\ Asking(t, "PENDING") = {}
        /\ op.row \in Asking(t, "PARKED")) =>
          /\ Questioned(t, u) /\ QuestionsOK(u, n)
    BY <1>10
<1>15. op.op = "set_question" /\ Asking(t, "PENDING") = {} =>
          /\ Questioned(t, u) /\ QuestionsOK(u, n + 1)
    BY <1>11
<1> QED BY <1>12, <1>13, <1>14, <1>15 DEF u

\* A list in which nothing is twice.
Distinct(q) == \A i, j \in DOMAIN q : q[i] = q[j] => i = j
PartedOf(env, done, out) ==
    /\ IsSeq(out) /\ Distinct(out)
    /\ \A i \in DOMAIN out : \E k \in 1 .. done : out[i] = env.q[k]
Parting == INSTANCE FoldRules WITH Op <- SiftingOp, P <- PartedOf

LEMMA AmongDistinct ==
    ASSUME NEW q, IsSeq(q), Distinct(q), NEW S
    PROVE  Distinct(Among(q, S))
<1> DEFINE env == [q |-> q, S |-> S]
           n == Len(q)
<1>1. env.q = q /\ env.S = S
    OBVIOUS
<1> HIDE DEF env
<1>2. ASSUME NEW e, NEW p
      PROVE  Among(p, e.S) = Parting!Along(e, <<>>, p)
    BY Zenon DEF Among, Parting!Along, SiftingOp, FoldLeft, Max, Parting!Greatest,
                 MapThenFoldSet, Parting!MapThenFoldSet
<1>3. Among(q, env.S) = Parting!Along(env, <<>>, q)
    BY <1>2
<1>4. PartedOf(env, 0, <<>>)
    BY OneIs DEF PartedOf, Distinct
<1>5. n \in Nat /\ DOMAIN q = 1 .. n
    BY SeqIs
<1> HIDE DEF n
<1>6. ASSUME NEW k \in 1 .. n, NEW out, PartedOf(env, k - 1, out)
      PROVE  PartedOf(env, k, SiftingOp(env, out, q[k]))
  <2>1. CASE q[k] \in env.S
    <3> DEFINE more == Append(out, q[k])
               l == Len(out)
    <3>1. /\ IsSeq(more) /\ DOMAIN more = 1 .. (l + 1) /\ more[l + 1] = q[k]
          /\ \A i \in DOMAIN out : more[i] = out[i]
      BY <1>6, AppendIs DEF PartedOf
    <3>2. l \in Nat /\ DOMAIN out = 1 .. l
      BY <1>6, SeqIs DEF PartedOf
    <3>3. SiftingOp(env, out, q[k]) = more
      BY <2>1 DEF SiftingOp
    <3> HIDE DEF more, l
    <3>4. \A i \in DOMAIN out : \E j \in 1 .. k - 1 : out[i] = q[j]
      BY <1>1, <1>6 DEF PartedOf
    <3>5. \A i \in DOMAIN out : out[i] # q[k]
      <4>1. \A j \in 1 .. k - 1 : j \in 1 .. n /\ j # k
        BY <1>5
      <4>2. \A j \in 1 .. k - 1 : q[j] # q[k]
        BY <1>5, <4>1 DEF Distinct
      <4> QED BY <3>4, <4>2
    <3>6. \A i \in DOMAIN more : i \in DOMAIN out \/ i = l + 1
      BY <3>1, <3>2
    <3>7. Distinct(more)
      BY <1>6, <3>1, <3>2, <3>5, <3>6 DEF PartedOf, Distinct
    <3>8. \A i \in DOMAIN more : \E j \in 1 .. k : more[i] = q[j]
      <4>1. k \in 1 .. k /\ \A j \in 1 .. k - 1 : j \in 1 .. k
        BY <1>5
      <4> QED BY <3>1, <3>4, <3>6, <4>1
    <3> QED BY <1>1, <3>1, <3>3, <3>7, <3>8 DEF PartedOf
  <2>2. CASE q[k] \notin env.S
    <3>1. \A j \in 1 .. k - 1 : j \in 1 .. k
      BY <1>5
    <3> QED BY <1>6, <2>2, <3>1 DEF PartedOf, SiftingOp
  <2> QED BY <2>1, <2>2
<1>7. Parting!Inductive
    BY Counting DEF Parting!Inductive
<1>8. PartedOf(env, n, Parting!Along(env, <<>>, q))
  <2>1. \A k \in 1 .. n : \A t : PartedOf(env, k - 1, t) => PartedOf(env, k, SiftingOp(env, t, q[k]))
    BY <1>6
  <2> QED BY <1>4, <1>5, <1>7, <2>1, Parting!FoldLeftRule
<1> QED BY <1>1, <1>3, <1>8 DEF PartedOf

LEMMA PendingIs ==
    ASSUME NEW r, NEW n \in Nat, QuestionsOK(r, n)
    PROVE  /\ Pending(r) = NoQuestion => Asking(r, "PENDING") = {}
           /\ Pending(r) # NoQuestion => Asking(r, "PENDING") = {Pending(r)}
           /\ \A q \in Asking(r, "PENDING") : q \notin Asking(r, "PARKED")
<1>1. ASSUME NEW x \in InState(r, "PENDING")
      PROVE  /\ Pending(r) = QuestionOf(x) /\ Asking(r, "PENDING") = {QuestionOf(x)}
             /\ QuestionOf(x) # NoQuestion
  <2>1. InState(r, "PENDING") = {x}
    BY DEF QuestionsOK
  <2>2. x.asked \in 1 .. n
    BY DEF QuestionsOK, Live, InState
  <2>3. QuestionOf(x).asked # NoQuestion.asked
    BY <2>2 DEF QuestionOf, NoQuestion
  <2> QED BY <2>1, <2>3 DEF Pending, Asking
<1>2. InState(r, "PENDING") = {} => Pending(r) = NoQuestion /\ Asking(r, "PENDING") = {}
    BY DEF Pending, Asking
<1>3. ASSUME NEW x \in InState(r, "PENDING"), NEW y \in InState(r, "PARKED"),
             QuestionOf(x) = QuestionOf(y)
      PROVE  FALSE
  <2>1. x \in Live(r) /\ y \in Live(r) /\ x.state # y.state
    BY DEF Live, InState
  <2> QED BY <1>3, <2>1 DEF QuestionsOK
<1> QED BY <1>1, <1>2, <1>3 DEF Asking

LEMMA ParkedIs ==
    ASSUME NEW r, NEW n \in Nat, QuestionsOK(r, n)
    PROVE  /\ IsSeq(Parked(r)) /\ Distinct(Parked(r))
           /\ \A i \in DOMAIN Parked(r) : Parked(r)[i] \in Asking(r, "PARKED")
<1> DEFINE parked == InState(r, "PARKED")
           orders == {q.order : q \in parked}
           all == [k \in 1 .. Newest(orders) |-> k]
           list == Among(all, orders)
           at(i) == CHOOSE q \in parked : q.order = list[i]
           p == [i \in DOMAIN list |-> QuestionOf(at(i))]
<1>1. Parked(r) = p
    BY Zenon DEF Parked
<1>2. PICK last \in Nat : \A x \in parked : x.order \in 1 .. last
    BY DEF QuestionsOK
<1>3. Newest(orders) \in Nat
  <2>1. orders \subseteq 1 .. last
    BY <1>2
  <2> HIDE DEF orders
  <2>2. orders # {} => Max(orders) \in orders
    BY <2>1, LargestIs
  <2>3. Newest(orders) \in {0, Max(orders)} /\ (orders = {} => Newest(orders) = 0)
    BY DEF Newest
  <2>4. \A k \in orders : k \in Nat
    BY <1>2, <2>1
  <2>5. CASE orders = {}
    BY <2>3, <2>5
  <2>6. CASE orders # {}
    BY <2>2, <2>3, <2>4, <2>6
  <2> QED BY <2>5, <2>6
<1>4. IsSeq(all) /\ Distinct(all)
  <2> DEFINE m == Newest(orders)
  <2>1. m \in Nat
    BY <1>3
  <2> HIDE DEF m
  <2>2. IsSeq([k \in 1 .. m |-> k]) /\ Distinct([k \in 1 .. m |-> k])
    BY <2>1, FunctionIsSeq DEF Distinct
  <2> QED BY <2>2 DEF m
<1> HIDE DEF all
<1>5. IsSeq(list) /\ Distinct(list) /\ \A i \in DOMAIN list : list[i] \in orders
  <2> HIDE DEF orders
  <2> QED BY <1>4, AmongIs, AmongDistinct
<1> HIDE DEF list
<1>6. \A i \in DOMAIN list : at(i) \in parked /\ at(i).order = list[i]
    BY <1>5
<1> HIDE DEF at
<1>7. IsSeq(p) /\ DOMAIN p = DOMAIN list
    BY <1>5, MapIsSeq
<1>8. \A i \in DOMAIN p : p[i] = QuestionOf(at(i)) /\ p[i] \in Asking(r, "PARKED")
    BY <1>6 DEF Asking
<1>9. Distinct(p)
  <2> SUFFICES ASSUME NEW i \in DOMAIN p, NEW j \in DOMAIN p, p[i] = p[j]
               PROVE  i = j
    BY DEF Distinct
  <2>1. at(i) \in Live(r) /\ at(j) \in Live(r)
    BY <1>6, <1>7 DEF InState, Live
  <2>2. QuestionOf(at(i)) = QuestionOf(at(j))
    BY <1>8
  <2>3. at(i) = at(j)
    BY <2>1, <2>2 DEF QuestionsOK
  <2>4. list[i] = list[j]
    BY <1>6, <1>7, <2>3
  <2> QED BY <1>5, <1>7, <2>4 DEF Distinct
<1> HIDE DEF p
<1> QED BY <1>1, <1>7, <1>8, <1>9

LEMMA QuestionedTrans ==
    ASSUME NEW t, NEW u, NEW v, Questioned(t, u), Questioned(u, v)
    PROVE  Questioned(t, v)
BY DEF Questioned, RowFields

LEMMA ReplayOne ==
    ASSUME NEW env, NEW t, NEW x
    PROVE  Replaying!Along(env, t, <<x>>) = ApplyOp(t, x, env.seq, env.covered)
<1>1. Replaying!Inductive
    BY Counting DEF Replaying!Inductive
<1>2. Replaying!Along(env, t, <<x>>) = ReplayingOp(env, t, x)
    BY <1>1, Replaying!AlongOf1
<1> QED BY <1>2 DEF ReplayingOp

LEMMA ReplayNone ==
    ASSUME NEW env, NEW t
    PROVE  Replaying!Along(env, t, <<>>) = t
<1> DEFINE none == <<>>
<1>1. DOMAIN none = {}
    BY OneIs
<1> HIDE DEF none
<1>2. Replaying!Inductive
    BY Counting DEF Replaying!Inductive
<1>3. Replaying!Along(env, t, none) = t
    BY <1>1, <1>2, Replaying!AlongOf0
<1> QED BY <1>3 DEF none

\* The question under way leaves, unless it stays.
LEMMA LeftReplay ==
    ASSUME NEW env, NEW n \in Nat, env.seq = n + 1, NEW t, DOMAIN t = RowFields,
           t.refused = "none", QuestionsOK(t, n),
           NEW prev, prev.question = Pending(t), NEW next, IsSeq(next.parked)
    PROVE  LET u == Replaying!Along(env, t, QuestionLeft(prev, next)) IN
           /\ Questioned(t, u) /\ QuestionsOK(u, n)
           /\ Asking(t, "PARKED") \subseteq Asking(u, "PARKED")
           /\ prev.question = NoQuestion \/ prev.question # next.question =>
                 Asking(u, "PENDING") = {}
<1> DEFINE q == prev.question
           at == ParkedAt(next, q)
           u == Replaying!Along(env, t, QuestionLeft(prev, next))
<1>1. \/ (q = NoQuestion \/ q = next.question) /\ QuestionLeft(prev, next) = <<>>
      \/ /\ q # NoQuestion /\ q # next.question /\ at # {}
         /\ QuestionLeft(prev, next) = <<Op("park_question", Min(at), q)>>
      \/ /\ q # NoQuestion /\ q # next.question
         /\ QuestionLeft(prev, next)
              = <<Op("close_question", 0, [q |-> q, state |-> "ANSWERED"])>>
  <2> DEFINE park == <<Op("park_question", Min(at), q)>>
             close == <<Op("close_question", 0, [q |-> q, state |-> "ANSWERED"])>>
             none == <<>>
  <2>1. QuestionLeft(prev, next) =
           CASE q = NoQuestion \/ q = next.question -> none
             [] q \notin {NoQuestion, next.question} /\ at # {} -> park
             [] OTHER -> close
    BY Zenon DEF QuestionLeft
  <2> HIDE DEF q, at, park, close, none
  <2>2. CASE q = NoQuestion \/ q = next.question
    BY <2>1, <2>2 DEF none
  <2>3. CASE ~(q = NoQuestion \/ q = next.question) /\ at # {}
    BY <2>1, <2>3 DEF park
  <2>4. CASE ~(q = NoQuestion \/ q = next.question) /\ at = {}
    BY <2>1, <2>4 DEF close
  <2> QED BY <2>2, <2>3, <2>4
<1>2. /\ q = NoQuestion => Asking(t, "PENDING") = {}
      /\ q # NoQuestion => Asking(t, "PENDING") = {q}
      /\ \A p \in Asking(t, "PENDING") : p \notin Asking(t, "PARKED")
    BY PendingIs
<1>3. Questioned(t, t)
    BY DEF Questioned
<1>4. CASE (q = NoQuestion \/ q = next.question) /\ QuestionLeft(prev, next) = <<>>
  <2>1. u = t
    BY <1>4, ReplayNone
  <2> HIDE DEF u
  <2> QED BY <1>2, <1>3, <1>4, <2>1 DEF u
<1>5. CASE /\ q # NoQuestion /\ q # next.question /\ at # {}
           /\ QuestionLeft(prev, next) = <<Op("park_question", Min(at), q)>>
  <2> DEFINE op == Op("park_question", Min(at), q)
             covered == env.covered
             v == ApplyOp(t, op, n + 1, covered)
  <2>1. u = v
    BY <1>5, ReplayOne
  <2>2. at \subseteq Nat \ {0}
    <3>1. DOMAIN next.parked = 1 .. Len(next.parked) /\ Len(next.parked) \in Nat
      BY SeqIs
    <3> QED BY <3>1 DEF ParkedAt
  <2>3. Min(at) \in at
    <3> HIDE DEF at
    <3> QED BY <1>5, <2>2, SmallestIs
  <2>4. op.op = "park_question" /\ op.id = Min(at) /\ op.row = q
    BY OpIs
  <2> HIDE DEF u, op, covered, at
  <2>5. op.id \in Nat \ {0} /\ op.row \in Asking(t, "PENDING")
    BY <1>2, <1>5, <2>2, <2>3, <2>4
  <2>6. /\ Questioned(t, v) /\ QuestionsOK(v, n) /\ Asking(v, "PENDING") = {}
        /\ Asking(v, "PARKED") = Asking(t, "PARKED") \cup {op.row}
    BY <2>4, <2>5, QuestionMoves
  <2> HIDE DEF v
  <2> QED BY <2>1, <2>6 DEF u
<1>6. CASE /\ q # NoQuestion /\ q # next.question
           /\ QuestionLeft(prev, next)
                = <<Op("close_question", 0, [q |-> q, state |-> "ANSWERED"])>>
  <2> DEFINE op == Op("close_question", 0, [q |-> q, state |-> "ANSWERED"])
             covered == env.covered
             v == ApplyOp(t, op, n + 1, covered)
  <2>1. u = v
    BY <1>6, ReplayOne
  <2>2. op.op = "close_question" /\ op.row.q = q /\ op.row.state = "ANSWERED"
    BY OpIs
  <2> HIDE DEF u, op, covered, at
  <2>3. op.row.q \in Asking(t, "PENDING") \cup Asking(t, "PARKED")
    BY <1>2, <1>6, <2>2
  <2>4. /\ Questioned(t, v) /\ QuestionsOK(v, n)
        /\ \A s \in {"PENDING", "PARKED"} : Asking(v, s) = Asking(t, s) \ {op.row.q}
    BY <2>2, <2>3, QuestionMoves
  <2> HIDE DEF v
  <2> QED BY <1>2, <1>6, <2>1, <2>2, <2>4 DEF u
<1> HIDE DEF q, at, u
<1> QED BY <1>1, <1>4, <1>5, <1>6 DEF u

\* Parked questions that are no longer parked are cancelled, one after the other.
LEMMA DroppedReplay ==
    ASSUME NEW env, NEW n \in Nat, env.seq = n + 1, NEW t, DOMAIN t = RowFields,
           t.refused = "none", QuestionsOK(t, n),
           NEW prev, IsSeq(prev.parked), Distinct(prev.parked),
           \A i \in DOMAIN prev.parked : prev.parked[i] \in Asking(t, "PARKED"), NEW next
    PROVE  LET u == Replaying!Along(env, t, QuestionsDropped(prev, next)) IN
           /\ Questioned(t, u) /\ QuestionsOK(u, n)
           /\ Asking(u, "PENDING") = Asking(t, "PENDING")
           /\ \A q \in Asking(t, "PARKED") : q \in Asking(u, "PARKED") \/ q # next.question
<1> DEFINE S == {p \in ToSet(prev.parked) : ParkedAt(next, p) = {} /\ p # next.question}
           list == Among(prev.parked, S)
           last == Len(list)
           ops == [i \in DOMAIN list |->
                      Op("close_question", 0, [q |-> list[i], state |-> "CANCELLED"])]
           At(k) == Replaying!LeftAt(env, t, ops, k)
           Good(k, u) == /\ Questioned(t, u) /\ QuestionsOK(u, n)
                         /\ Asking(u, "PENDING") = Asking(t, "PENDING")
                         /\ Asking(u, "PARKED") = Asking(t, "PARKED") \ {list[i] : i \in 1 .. k}
           H == {k \in 0 .. last : Good(k, At(k))}
<1>1. QuestionsDropped(prev, next) = ops
    BY Zenon DEF QuestionsDropped, Ops
<1>2. IsSeq(list) /\ Distinct(list) /\ \A i \in DOMAIN list : list[i] \in S
  <2> HIDE DEF S
  <2> QED BY AmongIs, AmongDistinct
<1>3. \A i \in DOMAIN list : list[i] # next.question /\ list[i] \in Asking(t, "PARKED")
  <2>1. \A p \in S : p # next.question /\ \E i \in DOMAIN prev.parked : p = prev.parked[i]
    BY DEF ToSet
  <2> HIDE DEF S, list
  <2> QED BY <1>2, <2>1
<1> HIDE DEF S, list
<1>4. last \in Nat /\ DOMAIN list = 1 .. last /\ DOMAIN ops = 1 .. last
    BY <1>2, SeqIs
<1> HIDE DEF last
<1>5. \A k \in 1 .. last : /\ ops[k].op = "close_question" /\ ops[k].row.q = list[k]
                           /\ ops[k].row.state = "CANCELLED"
    BY <1>4, OpIs
<1> HIDE DEF ops
<1>6. Replaying!Along(env, t, ops) = At(last)
    BY <1>4, Replaying!AlongIsIter DEF Replaying!LeftAt
<1>7. At(0) = t /\ \A k \in 1 .. last : At(k) = ReplayingOp(env, At(k - 1), ops[k])
  <2> HIDE DEF H
  <2>1. Replaying!Inductive
    BY Counting DEF Replaying!Inductive
  <2>2. last \in Nat /\ DOMAIN ops = 1 .. last
    BY <1>4
  <2> QED BY ONLY <2>1, <2>2, Replaying!LeftAtIs DEF At
<1> HIDE DEF At
<1>8. Good(0, t)
  <2>1. {list[i] : i \in 1 .. 0} = {}
    OBVIOUS
  <2> QED BY <2>1 DEF Questioned
<1>9. ASSUME NEW k \in 1 .. last, NEW u, Good(k - 1, u)
      PROVE  Good(k, ReplayingOp(env, u, ops[k]))
  <2> DEFINE op == ops[k]
             covered == env.covered
             v == ApplyOp(u, op, n + 1, covered)
  <2>1. ReplayingOp(env, u, op) = v
    BY DEF ReplayingOp
  <2>2. op.op = "close_question" /\ op.row.q = list[k] /\ op.row.state = "CANCELLED"
    BY <1>5
  <2>3. k \in DOMAIN list /\ \A i \in 1 .. k - 1 : i \in DOMAIN list /\ i # k
    BY <1>4
  <2>4. \A i \in 1 .. k - 1 : list[i] # list[k]
    BY <1>2, <2>3 DEF Distinct
  <2>5. list[k] \in Asking(u, "PARKED")
    BY <1>3, <1>9, <2>3, <2>4
  <2>6. list[k] \notin Asking(u, "PENDING")
    BY <1>9, <2>5, PendingIs
  <2>7. DOMAIN u = RowFields /\ u.refused = "none"
    BY <1>9 DEF Questioned, RowFields
  <2> HIDE DEF op, covered
  <2>8. /\ Questioned(u, v) /\ QuestionsOK(v, n)
        /\ \A s \in {"PENDING", "PARKED"} : Asking(v, s) = Asking(u, s) \ {op.row.q}
    BY <1>9, <2>2, <2>5, <2>7, QuestionMoves
  <2> HIDE DEF v
  <2>9. {list[i] : i \in 1 .. k} = {list[i] : i \in 1 .. k - 1} \cup {list[k]}
    <3>1. \A i : i \in 1 .. k <=> i \in 1 .. k - 1 \/ i = k
      BY <1>4
    <3> QED BY <3>1
  <2>10. Asking(v, "PARKED") = Asking(t, "PARKED") \ {list[i] : i \in 1 .. k}
    BY <1>9, <2>2, <2>8, <2>9
  <2>11. Asking(v, "PENDING") = Asking(t, "PENDING")
    BY <1>9, <2>2, <2>6, <2>8
  <2>12. Questioned(t, v)
    BY <1>9, <2>8, QuestionedTrans
  <2> QED BY <2>1, <2>8, <2>10, <2>11, <2>12 DEF op
<1> HIDE DEF Good
<1>10. 0 \in H
    BY <1>4, <1>7, <1>8
<1>11. ASSUME NEW k \in 1 .. last, k - 1 \in H PROVE k \in H
    BY <1>4, <1>7, <1>9, <1>11
<1>12. last \in H
  <2>1. Replaying!Inductive
    BY Counting DEF Replaying!Inductive
  <2> HIDE DEF H
  <2> QED BY <1>4, <1>10, <1>11, <2>1, Replaying!UpTo
<1> DEFINE u == Replaying!Along(env, t, QuestionsDropped(prev, next))
<1>13. Good(last, u)
    BY <1>1, <1>6, <1>12
<1> HIDE DEF u
<1>14. \A q \in Asking(t, "PARKED") : q \in Asking(u, "PARKED") \/ q # next.question
    BY <1>3, <1>4, <1>13 DEF Good
<1> QED BY <1>13, <1>14 DEF Good, u

LEMMA QuestionsReplay ==
    ASSUME NEW env, NEW n \in Nat, env.seq = n + 1, NEW t, DOMAIN t = RowFields,
           t.refused = "none", QuestionsOK(t, n),
           NEW prev, prev.question = Pending(t), prev.parked = Parked(t),
           NEW next, IsSeq(next.parked)
    PROVE  LET u == Replaying!Along(env, t, QuestionOps(prev, next)) IN
           /\ IsSeq(QuestionOps(prev, next))
           /\ Questioned(t, u) /\ QuestionsOK(u, n + 1)
<1> DEFINE L == QuestionLeft(prev, next)
           D == QuestionsDropped(prev, next)
           E == QuestionEntered(prev, next)
           a == Replaying!Along(env, t, L)
           b == Replaying!Along(env, a, D)
           c == Replaying!Along(env, b, E)
           ops == QuestionOps(prev, next)
<1>1. IsSeq(L) /\ IsSeq(E)
    BY OneIs DEF QuestionLeft, QuestionEntered
<1>2. IsSeq(D)
  <2> DEFINE S == {p \in ToSet(prev.parked) : ParkedAt(next, p) = {} /\ p # next.question}
             list == Among(prev.parked, S)
  <2>1. D = [i \in DOMAIN list |->
               Op("close_question", 0, [q |-> list[i], state |-> "CANCELLED"])]
    BY Zenon DEF QuestionsDropped, Ops
  <2>2. IsSeq(list)
    <3> HIDE DEF S
    <3> QED BY ParkedIs, AmongIs
  <2> HIDE DEF list
  <2> QED BY <2>1, <2>2, MapIsSeq
<1>3. ops = L \o D \o E
    BY DEF QuestionOps
<1> HIDE DEF L, D, E, ops
<1>4. IsSeq(L \o D) /\ IsSeq(ops)
    BY <1>1, <1>2, <1>3, BothAre
<1>5. Replaying!Along(env, t, ops) = c
    BY <1>1, <1>2, <1>3, <1>4, ReplayBoth
<1> HIDE DEF a, b, c
<1>6. /\ Questioned(t, a) /\ QuestionsOK(a, n)
      /\ Asking(t, "PARKED") \subseteq Asking(a, "PARKED")
      /\ prev.question = NoQuestion \/ prev.question # next.question => Asking(a, "PENDING") = {}
    BY LeftReplay DEF a, L
<1>7. /\ IsSeq(prev.parked) /\ Distinct(prev.parked)
      /\ \A i \in DOMAIN prev.parked : prev.parked[i] \in Asking(a, "PARKED")
    BY <1>6, ParkedIs
<1>8. /\ Questioned(a, b) /\ QuestionsOK(b, n)
      /\ Asking(b, "PENDING") = Asking(a, "PENDING")
      /\ \A q \in Asking(a, "PARKED") : q \in Asking(b, "PARKED") \/ q # next.question
  <2>1. DOMAIN a = RowFields /\ a.refused = "none"
    BY <1>6 DEF Questioned, RowFields
  <2> QED BY <1>6, <1>7, <2>1, DroppedReplay DEF b, D
<1>9. Questioned(b, c) /\ QuestionsOK(c, n + 1)
  <2> DEFINE q == next.question
             covered == env.covered
  <2>1. \/ (q = NoQuestion \/ q = prev.question) /\ E = <<>>
        \/ q # prev.question /\ q \in ToSet(prev.parked) /\ E = <<Op("restore_question", 0, q)>>
        \/ q # prev.question /\ E = <<Op("set_question", 0, q)>>
    BY DEF QuestionEntered, E
  <2>2. DOMAIN b = RowFields /\ b.refused = "none"
    BY <1>6, <1>8 DEF Questioned, RowFields
  <2>3. q # prev.question => Asking(b, "PENDING") = {}
    BY <1>6, <1>8
  <2>4. CASE E = <<>>
    <3>1. c = b
      BY <2>4, ReplayNone DEF c
    <3>2. Questioned(b, b) /\ QuestionsOK(b, n + 1)
      <4>1. 1 .. n \subseteq 1 .. n + 1
        OBVIOUS
      <4> QED BY <1>8, <2>2, <4>1 DEF Questioned, QuestionsOK
    <3> QED BY <3>1, <3>2
  <2>5. CASE q # prev.question /\ q \in ToSet(prev.parked) /\ E = <<Op("restore_question", 0, q)>>
    <3> DEFINE op == Op("restore_question", 0, q)
               v == ApplyOp(b, op, n + 1, covered)
    <3>1. c = v
      BY <2>5, ReplayOne DEF c
    <3>2. op.op = "restore_question" /\ op.row = q
      BY OpIs
    <3> HIDE DEF op, covered
    <3>3. q \in Asking(b, "PARKED")
      <4>1. \E i \in DOMAIN prev.parked : q = prev.parked[i]
        BY <2>5 DEF ToSet
      <4> QED BY <1>7, <1>8, <4>1
    <3>4. Questioned(b, v) /\ QuestionsOK(v, n)
      <4>1. /\ op.op = "restore_question" /\ Asking(b, "PENDING") = {}
            /\ op.row \in Asking(b, "PARKED")
        BY <2>3, <2>5, <3>2, <3>3
      <4> QED BY <1>8, <2>2, <4>1, QuestionMoves
    <3> HIDE DEF v
    <3>5. QuestionsOK(v, n + 1)
      <4>1. 1 .. n \subseteq 1 .. n + 1
        OBVIOUS
      <4> QED BY <3>4, <4>1 DEF QuestionsOK
    <3> QED BY <3>1, <3>4, <3>5
  <2>6. CASE q # prev.question /\ E = <<Op("set_question", 0, q)>>
    <3> DEFINE op == Op("set_question", 0, q)
               v == ApplyOp(b, op, n + 1, covered)
    <3>1. c = v
      BY <2>6, ReplayOne DEF c
    <3>2. op.op = "set_question" /\ op.row = q
      BY OpIs
    <3> HIDE DEF op, covered
    <3>3. Questioned(b, v) /\ QuestionsOK(v, n + 1)
      <4>1. op.op = "set_question" /\ Asking(b, "PENDING") = {}
        BY <2>3, <2>6, <3>2
      <4> QED BY <1>8, <2>2, <4>1, QuestionMoves
    <3> HIDE DEF v
    <3> QED BY <3>1, <3>3
  <2> QED BY <2>1, <2>4, <2>5, <2>6
<1>10. Questioned(t, c)
    BY <1>6, <1>8, <1>9, QuestionedTrans
<1> QED BY <1>4, <1>5, <1>9, <1>10 DEF ops

-----------------------------------------------------------------------------
(* Pending actions.                                                        *)

LEMMA SetToSeqIs ==
    ASSUME NEW S, IsFiniteSet(S)
    PROVE  /\ IsSeq(SetToSeq(S)) /\ Distinct(SetToSeq(S))
           /\ \A i \in DOMAIN SetToSeq(S) : SetToSeq(S)[i] \in S
           /\ \A x \in S : \E i \in DOMAIN SetToSeq(S) : SetToSeq(S)[i] = x
<1> DEFINE n == Cardinality(S)
           f == SetToSeq(S)
           R == {f[i] : i \in 1 .. n}
<1>1. n \in Nat /\ Finite!ExistsBijection(1 .. n, S)
    BY CountsAre, Finite!FS_CardinalityType
<1>2. PICK g \in [1 .. n -> S] : \A a, b \in 1 .. n : g[a] = g[b] => a = b
    BY <1>1 DEF Finite!ExistsBijection, Finite!Bijection, Finite!Injection, Finite!Surjection,
                Finite!IsInjective
<1>3. f \in [1 .. n -> S] /\ \A a, b \in 1 .. n : f[a] = f[b] => a = b
  <2>1. IsInjective(g)
    BY <1>2 DEF IsInjective
  <2>2. f \in [1 .. n -> S] /\ IsInjective(f)
    BY <1>2, <2>1 DEF SetToSeq
  <2> HIDE DEF f
  <2> QED BY <2>2 DEF IsInjective
<1> HIDE DEF f, n
<1>4. IsSeq(f)
    BY <1>1, <1>3, FunctionIsSeq
<1>5. R = S
  <2>1. R \subseteq S
    BY <1>3
  <2>2. Finite!ExistsBijection(1 .. n, R)
    <3>1. f \in [1 .. n -> R]
      BY <1>3
    <3>2. \A y \in R : \E i \in 1 .. n : f[i] = y
      OBVIOUS
    <3> HIDE DEF R
    <3> QED BY <1>3, <3>1, <3>2 DEF Finite!ExistsBijection, Finite!Bijection, Finite!Injection,
                              Finite!Surjection, Finite!IsInjective
  <2>3. Finite!IsFiniteSet(1 .. n) /\ Finite!Cardinality(1 .. n) = n
    <3>1. 1 \in Int /\ n \in Int /\ n - 1 + 1 = n
      BY <1>1
    <3> QED BY <1>1, <3>1, Finite!FS_Interval
  <2> HIDE DEF R
  <2>4. Finite!Cardinality(R) = n
    BY <2>2, <2>3, Finite!FS_Bijection
  <2>5. Finite!IsFiniteSet(S) /\ Finite!Cardinality(S) = n
    BY CountsAre DEF n
  <2>6. R \in SUBSET S
    BY <2>1
  <2> QED BY <2>4, <2>5, <2>6, Finite!FS_Subset
<1>6. DOMAIN f = 1 .. n
    BY <1>3
<1> QED BY <1>3, <1>4, <1>5, <1>6 DEF Distinct, f

\* Pending actions are finitely many, and of one kind each.
ActionFields == {"action", "goal", "asked", "status"}
ActionsOK(t) == IsFiniteSet(t.actions) /\ \A a \in t.actions : DOMAIN a = ActionFields
\* only actions changed, those that ended not among them, and nothing was refused
Acted(t, u) ==
    /\ DOMAIN u = RowFields
    /\ \A f \in RowFields \ {"actions"} : u[f] = t[f]
    /\ \A a \in t.actions : a.status # "PENDING" => a \in u.actions
Opened(x, seq) == [action |-> x.action, goal |-> x.goal, asked |-> seq]

LEMMA ActedTrans ==
    ASSUME NEW t, NEW u, NEW v, Acted(t, u), Acted(u, v)
    PROVE  Acted(t, v)
BY DEF Acted, RowFields

LEMMA FiniteLess ==
    ASSUME NEW S, IsFiniteSet(S), NEW T, NEW x
    PROVE  IsFiniteSet((S \ T) \cup {x}) /\ IsFiniteSet(S \cup {x}) /\ IsFiniteSet(S \ T)
<1>1. S \ T \in SUBSET S
    OBVIOUS
<1> DEFINE U == S \ T
<1> HIDE DEF U
<1>2. IsFiniteSet(U)
    BY <1>1, CountsAre, Finite!FS_Subset DEF U
<1>3. IsFiniteSet(U \cup {x}) /\ IsFiniteSet(S \cup {x})
    BY <1>2, CountsAre, Finite!FS_AddElement
<1> QED BY <1>2, <1>3 DEF U

LEMMA ActionMoves ==
    ASSUME NEW t, DOMAIN t = RowFields, t.refused = "none", ActionsOK(t), NEW op, NEW seq,
           NEW covered
    PROVE  LET u == ApplyOp(t, op, seq, covered) IN
           /\ op.op = "close_action" /\ op.row \in PendingActions(t) =>
                 /\ Acted(t, u) /\ ActionsOK(u)
                 /\ PendingActions(u) = PendingActions(t) \ {op.row}
           /\ (/\ op.op = "open_action"
               /\ \A x \in PendingActions(t) : ~(x.goal = op.row.goal /\ x.action = op.row.action)) =>
                 /\ Acted(t, u) /\ ActionsOK(u)
                 /\ PendingActions(u) = PendingActions(t) \cup {Opened(op.row, seq)}
<1> DEFINE u == ApplyOp(t, op, seq, covered)
           mine == {a \in t.actions : a.status = "PENDING" /\ ActionOf(a) = op.row}
           row(status, asked) == [action |-> op.row.action, goal |-> op.row.goal,
                                  asked |-> asked, status |-> status]
           same == \E a \in t.actions : /\ a.status = "PENDING" /\ a.goal = op.row.goal
                                        /\ a.action = op.row.action
           open == [t EXCEPT !.actions = @ \cup {row("PENDING", seq)}]
           close == [t EXCEPT !.actions = (@ \ mine) \cup {row("RESOLVED", op.row.asked)}]
<1>1. op.op \in {"open_action", "close_action"} => u = ApplyAction(t, op, seq)
  <2>1. op.op \in {"open_action", "close_action"} =>
           /\ ~(t.refused = "none" /\ op.op = "open_case")
           /\ ~(t.refused = "none" /\ op.op \in {"push_goal", "set_goal_status"})
           /\ ~(t.refused = "none" /\ op.op \in {"record_fact", "supersede_fact",
                                          "set_fact_confidence"})
           /\ t.refused = "none" /\ op.op \in {"open_action", "close_action"}
           /\ ~(t.refused # "none")
    OBVIOUS
  <2> QED BY <2>1, Zenon DEF ApplyOp
<1>2. ApplyAction(t, op, seq)
        = IF op.op = "open_action"
          THEN IF same THEN Refuse(t, "SECOND_OPEN_ACTION") ELSE open
          ELSE IF mine = {} THEN Refuse(t, "ACTION_NOT_OPEN") ELSE close
    BY Zenon DEF ApplyAction
<1> HIDE DEF u
<1>3. \A a \in t.actions : DOMAIN a = ActionFields /\ ActionOf(a).goal = a.goal
                           /\ ActionOf(a).action = a.action
    BY DEF ActionsOK, ActionOf
<1>4. ASSUME op.op = "close_action", op.row \in PendingActions(t)
      PROVE  /\ Acted(t, u) /\ ActionsOK(u)
             /\ PendingActions(u) = PendingActions(t) \ {op.row}
  <2> DEFINE gone == row("RESOLVED", op.row.asked)
  <2>1. u = close
    <3>1. mine # {}
      BY <1>4 DEF PendingActions
    <3> HIDE DEF mine, close, open
    <3> QED BY <1>1, <1>2, <1>4, <3>1
  <2>2. DOMAIN gone = ActionFields /\ gone.status = "RESOLVED"
    BY DEF ActionFields
  <2> HIDE DEF gone, mine
  <2>3. Acted(t, u) /\ u.actions = (t.actions \ mine) \cup {gone}
    <3>1. DOMAIN u = RowFields /\ \A f \in RowFields \ {"actions"} : u[f] = t[f]
      BY <2>1 DEF RowFields
    <3>2. u.actions = (t.actions \ mine) \cup {gone}
      BY <2>1 DEF RowFields, gone
    <3>3. \A a \in mine : a.status = "PENDING"
      BY DEF mine
    <3> QED BY <3>1, <3>2, <3>3 DEF Acted
  <2>4. ActionsOK(u)
    <3> DEFINE old == t.actions
    <3>1. IsFiniteSet(old)
      BY DEF ActionsOK
    <3> HIDE DEF old
    <3>2. IsFiniteSet((old \ mine) \cup {gone})
      BY <3>1, FiniteLess
    <3>3. IsFiniteSet(u.actions)
      BY <2>3, <3>2 DEF old
    <3> QED BY <2>2, <2>3, <3>3 DEF ActionsOK
  <2>5. PendingActions(u) = PendingActions(t) \ {op.row}
    <3>1. {b \in u.actions : b.status = "PENDING"} = {b \in t.actions : b.status = "PENDING"} \ mine
      BY <2>2, <2>3 DEF mine
    <3> QED BY <3>1 DEF PendingActions, mine
  <2> QED BY <2>3, <2>4, <2>5
<1>5. ASSUME op.op = "open_action",
             \A x \in PendingActions(t) : ~(x.goal = op.row.goal /\ x.action = op.row.action)
      PROVE  /\ Acted(t, u) /\ ActionsOK(u)
             /\ PendingActions(u) = PendingActions(t) \cup {Opened(op.row, seq)}
  <2> DEFINE new == row("PENDING", seq)
  <2>1. u = open
    <3>1. ~same
      BY <1>3, <1>5 DEF PendingActions
    <3> HIDE DEF same, close, open
    <3> QED BY <1>1, <1>2, <1>5, <3>1
  <2>2. DOMAIN new = ActionFields /\ new.status = "PENDING" /\ ActionOf(new) = Opened(op.row, seq)
    BY DEF ActionFields, ActionOf, Opened
  <2> HIDE DEF new
  <2>3. Acted(t, u) /\ u.actions = t.actions \cup {new}
    <3>1. DOMAIN u = RowFields /\ \A f \in RowFields \ {"actions"} : u[f] = t[f]
      BY <2>1 DEF RowFields
    <3>2. u.actions = t.actions \cup {new}
      BY <2>1 DEF RowFields, new
    <3> QED BY <3>1, <3>2 DEF Acted
  <2>4. ActionsOK(u)
    <3> DEFINE old == t.actions
    <3>1. IsFiniteSet(old)
      BY DEF ActionsOK
    <3> HIDE DEF old
    <3>2. IsFiniteSet(old \cup {new})
      BY <3>1, FiniteLess
    <3>3. IsFiniteSet(u.actions)
      BY <2>3, <3>2 DEF old
    <3> QED BY <2>2, <2>3, <3>3 DEF ActionsOK
  <2>5. PendingActions(u) = PendingActions(t) \cup {Opened(op.row, seq)}
    <3>1. {b \in u.actions : b.status = "PENDING"} = {b \in t.actions : b.status = "PENDING"} \cup {new}
      BY <2>2, <2>3
    <3> QED BY <2>2, <3>1 DEF PendingActions
  <2> QED BY <2>3, <2>4, <2>5
<1> HIDE DEF mine, row, same, open, close
<1>6. op.op = "close_action" /\ op.row \in PendingActions(t) =>
         /\ Acted(t, u) /\ ActionsOK(u)
         /\ PendingActions(u) = PendingActions(t) \ {op.row}
    BY <1>4
<1>7. (/\ op.op = "open_action"
       /\ \A x \in PendingActions(t) : ~(x.goal = op.row.goal /\ x.action = op.row.action)) =>
         /\ Acted(t, u) /\ ActionsOK(u)
         /\ PendingActions(u) = PendingActions(t) \cup {Opened(op.row, seq)}
    BY <1>5
<1> QED BY <1>6, <1>7 DEF u

LEMMA ActionOpsAre ==
    ASSUME NEW kind, NEW from, NEW to, IsFiniteSet(from)
    PROVE  LET ops == ActionOps(kind, from, to) IN
           /\ IsSeq(ops)
           /\ \E list : /\ DOMAIN list = DOMAIN ops /\ Distinct(list)
                        /\ {list[i] : i \in DOMAIN ops} = from \ to
                        /\ \A i \in DOMAIN ops : ops[i].op = kind /\ ops[i].row = list[i]
<1> DEFINE S == from \ to
           list == SetToSeq(S)
           ops == [i \in DOMAIN list |-> Op(kind, 0, list[i])]
<1>1. ActionOps(kind, from, to) = ops
    BY Zenon DEF ActionOps
<1>2. /\ IsSeq(list) /\ Distinct(list) /\ \A i \in DOMAIN list : list[i] \in S
      /\ \A x \in S : \E i \in DOMAIN list : list[i] = x
  <2>1. IsFiniteSet(S)
    BY FiniteLess
  <2> HIDE DEF S
  <2> QED BY <2>1, SetToSeqIs
<1> HIDE DEF list, S
<1>3. IsSeq(ops) /\ DOMAIN ops = DOMAIN list
    BY <1>2, MapIsSeq
<1>4. \A i \in DOMAIN ops : ops[i].op = kind /\ ops[i].row = list[i]
    BY OpIs
<1> HIDE DEF ops
<1>5. {list[i] : i \in DOMAIN ops} = S
    BY <1>2, <1>3
<1> QED BY <1>1, <1>2, <1>3, <1>4, <1>5 DEF S

\* The actions no longer pending are closed, one after the other.
LEMMA ClosesReplay ==
    ASSUME NEW env, NEW t, DOMAIN t = RowFields, t.refused = "none", ActionsOK(t),
           NEW from, from = PendingActions(t), IsFiniteSet(from), NEW to
    PROVE  LET u == Replaying!Along(env, t, ActionOps("close_action", from, to)) IN
           /\ Acted(t, u) /\ ActionsOK(u) /\ PendingActions(u) = from \cap to
<1> DEFINE kind == "close_action"
           ops == ActionOps(kind, from, to)
           last == Len(ops)
<1>0. kind = "close_action"
    OBVIOUS
<1> HIDE DEF kind
<1>1. /\ IsSeq(ops)
      /\ \E list : /\ DOMAIN list = DOMAIN ops /\ Distinct(list)
                   /\ {list[i] : i \in DOMAIN ops} = from \ to
                   /\ \A i \in DOMAIN ops : ops[i].op = kind /\ ops[i].row = list[i]
    BY ActionOpsAre
<1> HIDE DEF ops
<1>2. PICK list : /\ DOMAIN list = DOMAIN ops /\ Distinct(list)
                  /\ {list[i] : i \in DOMAIN ops} = from \ to
                  /\ \A i \in DOMAIN ops : ops[i].op = kind /\ ops[i].row = list[i]
    BY <1>1
<1> DEFINE At(k) == Replaying!LeftAt(env, t, ops, k)
           Good(k, u) == /\ Acted(t, u) /\ ActionsOK(u)
                         /\ PendingActions(u) = from \ {list[i] : i \in 1 .. k}
           H == {k \in 0 .. last : Good(k, At(k))}
<1>4. last \in Nat /\ DOMAIN ops = 1 .. last
    BY <1>1, SeqIs
<1> HIDE DEF last
<1>6. Replaying!Along(env, t, ops) = At(last)
    BY <1>4, Replaying!AlongIsIter DEF Replaying!LeftAt
<1>7. At(0) = t /\ \A k \in 1 .. last : At(k) = ReplayingOp(env, At(k - 1), ops[k])
  <2> HIDE DEF H
  <2>1. Replaying!Inductive
    BY Counting DEF Replaying!Inductive
  <2>2. last \in Nat /\ DOMAIN ops = 1 .. last
    BY <1>4
  <2> QED BY ONLY <2>1, <2>2, Replaying!LeftAtIs DEF At
<1> HIDE DEF At
<1>8. Good(0, t)
  <2>1. {list[i] : i \in 1 .. 0} = {}
    OBVIOUS
  <2> QED BY <2>1 DEF Acted
<1>9. ASSUME NEW k \in 1 .. last, NEW u, Good(k - 1, u)
      PROVE  Good(k, ReplayingOp(env, u, ops[k]))
  <2> DEFINE op == ops[k]
             covered == env.covered
             seq == env.seq
             v == ApplyOp(u, op, seq, covered)
  <2>1. ReplayingOp(env, u, op) = v
    BY DEF ReplayingOp
  <2>2. op.op = "close_action" /\ op.row = list[k] /\ list[k] \in from
    BY <1>0, <1>2, <1>4
  <2>3. k \in DOMAIN list /\ \A i \in 1 .. k - 1 : i \in DOMAIN list /\ i # k
    BY <1>2, <1>4
  <2>4. \A i \in 1 .. k - 1 : list[i] # list[k]
    BY <1>2, <2>3 DEF Distinct
  <2>5. list[k] \in PendingActions(u)
    BY <1>9, <2>2, <2>4
  <2>7. DOMAIN u = RowFields /\ u.refused = "none"
    BY <1>9 DEF Acted, RowFields
  <2> HIDE DEF op, covered, seq
  <2>8. Acted(u, v) /\ ActionsOK(v) /\ PendingActions(v) = PendingActions(u) \ {op.row}
    BY <1>9, <2>2, <2>5, <2>7, ActionMoves
  <2> HIDE DEF v
  <2>9. {list[i] : i \in 1 .. k} = {list[i] : i \in 1 .. k - 1} \cup {list[k]}
    <3>1. \A i : i \in 1 .. k <=> i \in 1 .. k - 1 \/ i = k
      BY <1>4
    <3> QED BY <3>1
  <2>10. PendingActions(v) = from \ {list[i] : i \in 1 .. k}
    BY <1>9, <2>2, <2>8, <2>9
  <2>12. Acted(t, v)
    BY <1>9, <2>8, ActedTrans
  <2> QED BY <2>1, <2>8, <2>10, <2>12 DEF op
<1> HIDE DEF Good
<1>10. 0 \in H
    BY <1>4, <1>7, <1>8
<1>11. ASSUME NEW k \in 1 .. last, k - 1 \in H PROVE k \in H
    BY <1>4, <1>7, <1>9, <1>11
<1>12. last \in H
  <2>1. Replaying!Inductive
    BY Counting DEF Replaying!Inductive
  <2> HIDE DEF H
  <2> QED BY <1>4, <1>10, <1>11, <2>1, Replaying!UpTo
<1> DEFINE u == Replaying!Along(env, t, ops)
<1>13. Good(last, u)
    BY <1>6, <1>12
<1> HIDE DEF u
<1>14. PendingActions(u) = from \cap to
    BY <1>2, <1>4, <1>13 DEF Good
<1> QED BY <1>13, <1>14 DEF Good, u, ops, kind

\* ... and then the others are opened: none is of the kind of one that stayed.
LEMMA OpensReplay ==
    ASSUME NEW env, NEW t, DOMAIN t = RowFields, t.refused = "none", ActionsOK(t),
           NEW old, NEW new, IsFiniteSet(new), OneEach(new), PendingActions(t) = old \cap new
    PROVE  LET u == Replaying!Along(env, t, ActionOps("open_action", new, old)) IN
           /\ Acted(t, u) /\ ActionsOK(u)
           /\ PendingActions(u) = (old \cap new) \cup {Opened(x, env.seq) : x \in new \ old}
<1> DEFINE kind == "open_action"
           ops == ActionOps(kind, new, old)
           last == Len(ops)
<1>0. kind = "open_action"
    OBVIOUS
<1> HIDE DEF kind
<1>1. /\ IsSeq(ops)
      /\ \E list : /\ DOMAIN list = DOMAIN ops /\ Distinct(list)
                   /\ {list[i] : i \in DOMAIN ops} = new \ old
                   /\ \A i \in DOMAIN ops : ops[i].op = kind /\ ops[i].row = list[i]
    BY ActionOpsAre
<1> HIDE DEF ops
<1>2. PICK list : /\ DOMAIN list = DOMAIN ops /\ Distinct(list)
                  /\ {list[i] : i \in DOMAIN ops} = new \ old
                  /\ \A i \in DOMAIN ops : ops[i].op = kind /\ ops[i].row = list[i]
    BY <1>1
<1> DEFINE At(k) == Replaying!LeftAt(env, t, ops, k)
           seq == env.seq
           Good(k, u) == /\ Acted(t, u) /\ ActionsOK(u)
                         /\ PendingActions(u)
                              = (old \cap new) \cup {Opened(list[i], seq) : i \in 1 .. k}
           H == {k \in 0 .. last : Good(k, At(k))}
<1>4. last \in Nat /\ DOMAIN ops = 1 .. last
    BY <1>1, SeqIs
<1> HIDE DEF last, seq
<1>6. Replaying!Along(env, t, ops) = At(last)
    BY <1>4, Replaying!AlongIsIter DEF Replaying!LeftAt
<1>7. At(0) = t /\ \A k \in 1 .. last : At(k) = ReplayingOp(env, At(k - 1), ops[k])
  <2> HIDE DEF H
  <2>1. Replaying!Inductive
    BY Counting DEF Replaying!Inductive
  <2>2. last \in Nat /\ DOMAIN ops = 1 .. last
    BY <1>4
  <2> QED BY ONLY <2>1, <2>2, Replaying!LeftAtIs DEF At
<1> HIDE DEF At
<1>8. Good(0, t)
  <2>1. {Opened(list[i], seq) : i \in 1 .. 0} = {}
    OBVIOUS
  <2> QED BY <2>1 DEF Acted
<1>9. ASSUME NEW k \in 1 .. last, NEW u, Good(k - 1, u)
      PROVE  Good(k, ReplayingOp(env, u, ops[k]))
  <2> DEFINE op == ops[k]
             covered == env.covered
             v == ApplyOp(u, op, seq, covered)
             x == list[k]
  <2>1. ReplayingOp(env, u, op) = v
    BY DEF ReplayingOp, seq
  <2>2. op.op = "open_action" /\ op.row = x /\ x \in new /\ x \notin old
    BY <1>0, <1>2, <1>4
  <2>3. k \in DOMAIN list /\ \A i \in 1 .. k - 1 : i \in DOMAIN list /\ i # k
    BY <1>2, <1>4
  <2>4. \A i \in 1 .. k - 1 : list[i] # x /\ list[i] \in new
    BY <1>2, <2>3 DEF Distinct
  <2> HIDE DEF x
  <2>5. ASSUME NEW y \in PendingActions(u), y.goal = x.goal, y.action = x.action
        PROVE  FALSE
    <3>1. CASE y \in old \cap new
      <4>1. y = x
        BY <2>2, <2>5, <3>1 DEF OneEach
      <4> QED BY <2>2, <3>1, <4>1
    <3>2. CASE \E i \in 1 .. k - 1 : y = Opened(list[i], seq)
      <4>1. PICK i \in 1 .. k - 1 : y = Opened(list[i], seq)
        BY <3>2
      <4>2. y.goal = list[i].goal /\ y.action = list[i].action
        BY <4>1 DEF Opened
      <4>3. list[i] = x
        BY <2>2, <2>4, <2>5, <4>2 DEF OneEach
      <4> QED BY <2>4, <4>3
    <3> QED BY <1>9, <3>1, <3>2
  <2>7. DOMAIN u = RowFields /\ u.refused = "none"
    BY <1>9 DEF Acted, RowFields
  <2> HIDE DEF op, covered
  <2>8. Acted(u, v) /\ ActionsOK(v) /\ PendingActions(v) = PendingActions(u) \cup {Opened(x, seq)}
    BY <1>9, <2>2, <2>5, <2>7, ActionMoves
  <2> HIDE DEF v
  <2>9. {Opened(list[i], seq) : i \in 1 .. k}
          = {Opened(list[i], seq) : i \in 1 .. k - 1} \cup {Opened(x, seq)}
    <3>1. \A i : i \in 1 .. k <=> i \in 1 .. k - 1 \/ i = k
      BY <1>4
    <3> QED BY <3>1 DEF x
  <2>10. PendingActions(v) = (old \cap new) \cup {Opened(list[i], seq) : i \in 1 .. k}
    BY <1>9, <2>8, <2>9
  <2>12. Acted(t, v)
    BY <1>9, <2>8, ActedTrans
  <2> QED BY <2>1, <2>8, <2>10, <2>12 DEF op
<1> HIDE DEF Good
<1>10. 0 \in H
    BY <1>4, <1>7, <1>8
<1>11. ASSUME NEW k \in 1 .. last, k - 1 \in H PROVE k \in H
    BY <1>4, <1>7, <1>9, <1>11
<1>12. last \in H
  <2>1. Replaying!Inductive
    BY Counting DEF Replaying!Inductive
  <2> HIDE DEF H
  <2> QED BY <1>4, <1>10, <1>11, <2>1, Replaying!UpTo
<1> DEFINE u == Replaying!Along(env, t, ops)
<1>13. Good(last, u)
    BY <1>6, <1>12
<1> HIDE DEF u
<1>14. {Opened(list[i], seq) : i \in 1 .. last} = {Opened(x, seq) : x \in new \ old}
    BY <1>2, <1>4
<1>15. PendingActions(u) = (old \cap new) \cup {Opened(x, seq) : x \in new \ old}
    BY <1>13, <1>14 DEF Good
<1> QED BY <1>13, <1>15 DEF Good, u, ops, kind, seq

-----------------------------------------------------------------------------
(* A transition, from the rows it was prepared from.                       *)

\* The tables hold conversations: what is rebuilt from them has the shape of a state.
RowsOK(r) ==
    /\ DOMAIN r = RowFields /\ r.seq \in Nat /\ r.refused = "none"
    /\ IsSeq(r.cases) /\ IsSeq(r.goals) /\ IsSeq(r.facts) /\ IsSeq(r.log)
    /\ \A g \in DOMAIN r.goals : /\ DOMAIN r.goals[g] = GoalFields
                                 /\ r.goals[g].parent \in {0} \cup DOMAIN r.goals
    /\ \A i \in DOMAIN r.facts : /\ DOMAIN r.facts[i] = FactFields
                                 /\ r.facts[i].code \in DOMAIN FactDef
    /\ \A a \in PendingActions(r) : a.goal \in DOMAIN r.goals
    /\ QuestionsOK(r, r.seq) /\ ActionsOK(r) /\ OneEach(PendingActions(r))

LEMMA HydratedIs ==
    ASSUME NEW r, RowsOK(r)
    PROVE  LET s == HydratePersistedState(r) IN
           /\ Shaped(s) /\ IsSeq(s.cases) /\ DOMAIN s.cases = DOMAIN r.cases
           /\ s.goals = r.goals /\ s.facts = r.facts /\ s.seq = r.seq
           /\ s.question = Pending(r) /\ s.parked = Parked(r) /\ s.actions = PendingActions(r)
           /\ IsFiniteSet(s.actions) /\ s.error = "none"
<1> DEFINE s == HydratePersistedState(r)
           cases == [c \in DOMAIN r.cases |-> [kind |-> r.cases[c].kind, ref |-> r.cases[c].hmac]]
           focus == Newest({g \in DOMAIN r.goals : r.goals[g].status = "ACTIVE"})
           topic == IF focus = 0 THEN "none" ELSE GoalDef[r.goals[focus].code].topic
           p == Parked(r)
           q == Pending(r)
           acts == PendingActions(r)
           u == [InitState EXCEPT
                   !.seq = r.seq, !.cases = cases, !.goals = r.goals, !.facts = r.facts,
                   !.question = q, !.parked = p, !.actions = acts, !.topic = topic]
<1>1. s = u
    BY DEF HydratePersistedState
<1>2. IsSeq(cases) /\ DOMAIN cases = DOMAIN r.cases
    BY MapIsSeq DEF RowsOK
<1>3. IsSeq(p)
    BY ParkedIs DEF RowsOK
<1>4. IsFiniteSet(acts)
  <2> DEFINE open == {b \in r.actions : b.status = "PENDING"}
  <2>1. open \in SUBSET r.actions
    OBVIOUS
  <2>2. Finite!IsFiniteSet(open)
    <3> HIDE DEF open
    <3> QED BY <2>1, CountsAre, Finite!FS_Subset DEF RowsOK, ActionsOK
  <2>3. acts = {ActionOf(a) : a \in open}
    BY DEF PendingActions
  <2> DEFINE f == [a \in open |-> ActionOf(a)]
  <2> HIDE DEF open
  <2>4. f \in Finite!Surjection(open, acts)
    BY <2>3 DEF Finite!Surjection
  <2> HIDE DEF f, acts
  <2>5. Finite!IsFiniteSet(acts)
    BY <2>2, <2>4, Finite!FS_Surjection
  <2> QED BY <2>5, CountsAre
<1> HIDE DEF cases, topic, p, q
<1>5. DOMAIN InitState = StateFields /\ InitState.error = "none"
    BY DEF InitState, StateFields
<1>6. DOMAIN u = StateFields /\ u.error = "none"
    BY <1>5 DEF StateFields
<1>7. /\ u.goals = r.goals /\ u.facts = r.facts /\ u.seq = r.seq /\ u.cases = cases
      /\ u.question = q /\ u.parked = p /\ u.actions = acts
    BY <1>5 DEF StateFields
<1> HIDE DEF u, acts
<1>8. Shaped(u)
    BY <1>3, <1>6, <1>7 DEF Shaped, RowsOK, acts
<1> HIDE DEF s
<1> QED BY <1>1, <1>2, <1>4, <1>6, <1>7, <1>8 DEF s, p, q, acts

LEMMA ReplayStopped ==
    ASSUME NEW env, NEW t, t.refused # "none", NEW ops, IsSeq(ops)
    PROVE  Replaying!Along(env, t, ops) = t
<1> DEFINE last == Len(ops)
           At(k) == Replaying!LeftAt(env, t, ops, k)
           H == {k \in 0 .. last : At(k) = t}
<1>1. last \in Nat /\ DOMAIN ops = 1 .. last
    BY SeqIs
<1> HIDE DEF last
<1>2. Replaying!Along(env, t, ops) = At(last)
    BY <1>1, Replaying!AlongIsIter DEF Replaying!LeftAt
<1>3. At(0) = t /\ \A k \in 1 .. last : At(k) = ReplayingOp(env, At(k - 1), ops[k])
  <2> HIDE DEF H
  <2>1. Replaying!Inductive
    BY Counting DEF Replaying!Inductive
  <2>2. last \in Nat /\ DOMAIN ops = 1 .. last
    BY <1>1
  <2> QED BY ONLY <2>1, <2>2, Replaying!LeftAtIs DEF At
<1> HIDE DEF At
<1>4. ASSUME NEW op PROVE ReplayingOp(env, t, op) = t
  <2>1. /\ ~(t.refused = "none" /\ op.op = "open_case")
        /\ ~(t.refused = "none" /\ op.op \in {"push_goal", "set_goal_status"})
        /\ ~(t.refused = "none" /\ op.op \in {"record_fact", "supersede_fact",
                                       "set_fact_confidence"})
        /\ ~(t.refused = "none" /\ op.op \in {"open_action", "close_action"})
    OBVIOUS
  <2> QED BY <2>1, Zenon DEF ReplayingOp, ApplyOp
<1>5. 0 \in H
    BY <1>1, <1>3
<1>6. ASSUME NEW k \in 1 .. last, k - 1 \in H PROVE k \in H
    BY <1>1, <1>3, <1>4, <1>6
<1>7. last \in H
  <2>1. Replaying!Inductive
    BY Counting DEF Replaying!Inductive
  <2> HIDE DEF H
  <2> QED BY <1>1, <1>5, <1>6, <2>1, Replaying!UpTo
<1> QED BY <1>2, <1>7

\* A difference, replayed on the rows it was taken from: no operation on a question
\* or an action is refused, and if none is at all these are in order afterwards.
LEMMA DifferenceReplay ==
    ASSUME NEW r, RowsOK(r), NEW C, NEW next, After(C, HydratePersistedState(r), next), NEW hmac
    PROVE  LET prev == HydratePersistedState(r)
               t == ApplyOps(r, DiffTransition(prev, next, hmac), r.seq + 1, C)
           IN /\ DOMAIN t = RowFields /\ t.seq = r.seq + 1 /\ t.refused \notin Misordered
              /\ t.refused = "none" =>
                    /\ QuestionsOK(t, r.seq + 1) /\ ActionsOK(t) /\ OneEach(PendingActions(t))
                    /\ t.log = r.log /\ t.rollbacks = r.rollbacks
                    /\ \A x \in r.questions : x.state \notin {"PENDING", "PARKED"} => x \in t.questions
                    /\ \A x \in r.actions : x.status # "PENDING" => x \in t.actions
<1> DEFINE prev == HydratePersistedState(r)
           n == r.seq
           env == [r |-> [r EXCEPT !.seq = n + 1], seq |-> n + 1, covered |-> C]
           base == [r EXCEPT !.seq = n + 1]
           E == Elsewheres(prev, next, hmac)
           Q == QuestionOps(prev, next)
           X == ActionOps("close_action", prev.actions, next.actions)
           Y == ActionOps("open_action", next.actions, prev.actions)
           ops == DiffTransition(prev, next, hmac)
           a == Replaying!Along(env, base, E)
           b == Replaying!Along(env, a, Q)
           c == Replaying!Along(env, b, X)
           d == Replaying!Along(env, c, Y)
           t == ApplyOps(r, ops, n + 1, C)
<1>1. env.r = base /\ env.seq = n + 1 /\ env.covered = C
    OBVIOUS
<1>2. n \in Nat /\ DOMAIN base = RowFields /\ base.seq = n + 1 /\ base.refused = "none"
      /\ base.questions = r.questions /\ base.actions = r.actions
      /\ base.log = r.log /\ base.rollbacks = r.rollbacks
    BY DEF RowsOK, RowFields
<1>3. /\ Shaped(prev) /\ IsSeq(prev.cases) /\ prev.question = Pending(r)
      /\ prev.parked = Parked(r) /\ prev.actions = PendingActions(r) /\ IsFiniteSet(prev.actions)
      /\ OneEach(prev.actions) /\ QuestionsOK(r, n) /\ ActionsOK(r)
    BY HydratedIs DEF RowsOK
<1>4. After(C, prev, next)
    OBVIOUS
<1> HIDE DEF prev
<1>5. IsFiniteSet(next.actions) /\ OneEach(next.actions) /\ IsSeq(next.parked)
    BY <1>3, <1>4 DEF After, Shaped
<1>6. ops = E \o Q \o X \o Y
    BY DiffIs
<1>7. AllHarmless(C, E)
    BY <1>3, <1>4, ElsewheresHarmless
<1>8. IsSeq(X) /\ IsSeq(Y)
    BY <1>3, <1>5, ActionOpsAre
<1>9. t = Replaying!Along(env, base, ops)
  <2>1. ApplyOps(r, ops, env.seq, env.covered)
          = Replaying!Along(env, [r EXCEPT !.seq = env.seq], ops)
    <3> HIDE DEF env, ops
    <3> QED BY ReplayingIs
  <2> HIDE DEF ops
  <2> QED BY <1>1, <2>1
<1> HIDE DEF base, ops, n
<1>10. Aside(base, a)
  <2>1. Aside(base, base)
    BY <1>2 DEF Aside, Misordered
  <2>2. env = [r |-> base, seq |-> n + 1, covered |-> C]
    BY DEF base
  <2> DEFINE seq == n + 1
  <2> HIDE DEF seq, E
  <2>3. Aside(base, Replaying!Along([r |-> base, seq |-> seq, covered |-> C], base, E))
    BY <1>7, <2>1, HarmlessAll
  <2> QED BY <2>2, <2>3 DEF seq
<1> HIDE DEF env, E, Q, X, Y, t
<1>11. CASE a.refused # "none"
  <2>1. IsSeq(Q)
    <3> DEFINE z == [base EXCEPT !.seq = n + 1]
    <3>1. Pending(base) = Pending(r) /\ Parked(base) = Parked(r) /\ QuestionsOK(base, n)
      BY <1>2, <1>3 DEF Pending, Parked, InState, QuestionsOK, Live
    <3> QED BY <1>1, <1>2, <1>3, <1>5, <3>1, QuestionsReplay DEF Q
  <2>2. b = a
    BY <1>11, <2>1, ReplayStopped
  <2>3. c = a
    BY <1>8, <1>11, <2>2, ReplayStopped
  <2>4. d = a
    BY <1>8, <1>11, <2>3, ReplayStopped
  <2>5. Replaying!Along(env, base, ops) = d
    <3>1. IsSeq(E) /\ IsSeq(E \o Q) /\ IsSeq(E \o Q \o X)
      BY <1>7, <1>8, <2>1, BothAre DEF AllHarmless
    <3> QED BY <1>6, <1>8, <2>1, <3>1, ReplayBoth
  <2> HIDE DEF a, d
  <2>6. t = a
    BY <1>9, <2>4, <2>5
  <2>7. DOMAIN t = RowFields /\ t.seq = r.seq + 1 /\ t.refused \notin Misordered
    BY <1>2, <1>10, <2>6 DEF Aside, n
  <2>8. t.refused # "none"
    BY <1>11, <2>6
  <2> QED BY <2>7, <2>8 DEF t, prev, ops, n
<1>12. CASE a.refused = "none"
  <2> HIDE DEF a
  <2>1. a.questions = r.questions /\ a.actions = r.actions /\ DOMAIN a = RowFields
        /\ a.seq = n + 1
    BY <1>2, <1>10 DEF Aside
  <2>2. Pending(a) = Pending(r) /\ Parked(a) = Parked(r) /\ QuestionsOK(a, n)
    BY <1>3, <2>1 DEF Pending, Parked, InState, QuestionsOK, Live
  <2>3. IsSeq(Q) /\ Questioned(a, b) /\ QuestionsOK(b, n + 1)
    BY <1>1, <1>2, <1>3, <1>5, <1>12, <2>1, <2>2, QuestionsReplay DEF Q
  <2> HIDE DEF b
  <2>4. /\ DOMAIN b = RowFields /\ b.refused = "none" /\ b.actions = r.actions /\ b.seq = n + 1
        /\ PendingActions(b) = prev.actions /\ ActionsOK(b)
    BY <1>3, <1>12, <2>1, <2>3 DEF Questioned, RowFields, PendingActions, ActionsOK
  <2>5. Acted(b, c) /\ ActionsOK(c) /\ PendingActions(c) = prev.actions \cap next.actions
    BY <1>3, <2>4, ClosesReplay DEF X
  <2> HIDE DEF c
  <2>6. DOMAIN c = RowFields /\ c.refused = "none"
    BY <2>4, <2>5 DEF Acted, RowFields
  <2>7. /\ Acted(c, d) /\ ActionsOK(d)
        /\ PendingActions(d) = (prev.actions \cap next.actions)
                                 \cup {Opened(x, env.seq) : x \in next.actions \ prev.actions}
    BY <1>5, <2>5, <2>6, OpensReplay DEF Y
  <2> HIDE DEF d
  <2>8. Acted(b, d)
    BY <2>5, <2>7, ActedTrans
  <2>9. Replaying!Along(env, base, ops) = d
    <3>1. IsSeq(E) /\ IsSeq(E \o Q) /\ IsSeq(E \o Q \o X)
      BY <1>7, <1>8, <2>3, BothAre DEF AllHarmless
    <3> QED BY <1>6, <1>8, <2>3, <3>1, ReplayBoth DEF a, b, c, d
  <2>10. OneEach(PendingActions(d))
    <3> SUFFICES ASSUME NEW x \in PendingActions(d), NEW y \in PendingActions(d),
                        x.action = y.action, x.goal = y.goal
                 PROVE  x = y
      BY DEF OneEach
    <3>1. \A z : Opened(z, env.seq).action = z.action /\ Opened(z, env.seq).goal = z.goal
      BY DEF Opened
    <3>2. PICK v \in next.actions :
             /\ v.action = x.action /\ v.goal = x.goal
             /\ \/ x = v /\ v \in prev.actions
                \/ x = Opened(v, env.seq) /\ v \notin prev.actions
      BY <2>7, <3>1
    <3>3. PICK w \in next.actions :
             /\ w.action = y.action /\ w.goal = y.goal
             /\ \/ y = w /\ w \in prev.actions
                \/ y = Opened(w, env.seq) /\ w \notin prev.actions
      BY <2>7, <3>1
    <3>4. v = w
      BY <1>5, <3>2, <3>3 DEF OneEach
    <3> QED BY <3>2, <3>3, <3>4
  <2>11. QuestionsOK(d, n + 1)
    <3>1. d.questions = b.questions
      BY <2>8 DEF Acted, RowFields
    <3> QED BY <2>3, <3>1 DEF QuestionsOK, Live, InState
  <2>12. /\ DOMAIN d = RowFields /\ d.seq = n + 1 /\ d.refused = "none"
         /\ d.log = r.log /\ d.rollbacks = r.rollbacks
    <3>1. a.log = r.log /\ a.rollbacks = r.rollbacks
      BY <1>2, <1>10 DEF Aside
    <3> QED BY <2>3, <2>4, <2>8, <3>1 DEF Acted, Questioned, RowFields
  <2>13. t = d
    BY <1>9, <2>9
  <2>14. t.refused \notin Misordered
    BY <2>12, <2>13 DEF Misordered
  <2>15. /\ \A x \in r.questions : x.state \notin {"PENDING", "PARKED"} => x \in d.questions
         /\ \A x \in r.actions : x.status # "PENDING" => x \in d.actions
    <3>1. d.questions = b.questions
      BY <2>8 DEF Acted, RowFields
    <3>2. \A x \in a.questions : x.state \notin {"PENDING", "PARKED"} => x \in b.questions
      BY <2>3 DEF Questioned
    <3>3. \A x \in b.actions : x.status # "PENDING" => x \in d.actions
      BY <2>8 DEF Acted
    <3> QED BY <2>1, <2>4, <3>1, <3>2, <3>3
  <2> QED BY <2>7, <2>10, <2>11, <2>12, <2>13, <2>14, <2>15 DEF t, prev, ops, n
<1> QED BY <1>11, <1>12

-----------------------------------------------------------------------------
(* What was written stays, but for the end of a closed goal.               *)

Retained(r, t) ==
    /\ t.log = r.log \/ \E key : t.log = Append(r.log, key)
    /\ \A i \in DOMAIN r.facts : SaysTheSame(r.facts[i], t.facts[i])
    /\ \A x \in r.questions : x.state \notin {"PENDING", "PARKED"} => x \in t.questions
    /\ \A x \in r.actions : x.status # "PENDING" => x \in t.actions

MessagesSaid == \A m \in DOMAIN Messages : SaidAll(Messages[m].events)

LEMMA MessagesAre == MessagesSaid
<1>1. ASSUME NEW ins, IsInput(ins) PROVE Inputs(ins)
  <2>1. IsSeq(ins) /\ \A k \in DOMAIN ins : ins[k] \in ToSet(ins)
    BY <1>1 DEF IsInput, IsSeq, ToSet
  <2> QED BY <1>1, <2>1 DEF IsInput, Inputs
<1>2. ASSUME NEW ins, IsPlain(ins) PROVE Plain(ins)
  <2>1. Inputs(ins) /\ \A k \in DOMAIN ins : ins[k] \in ToSet(ins)
    BY <1>1, <1>2 DEF IsPlain, ToSet
  <2> QED BY <1>2, <2>1 DEF IsPlain, Plain
<1>3. ASSUME NEW e, IsEvent(e) PROVE EventSaid(e)
    BY <1>1, <1>2, <1>3 DEF IsEvent, EventSaid
<1> SUFFICES ASSUME NEW m \in DOMAIN Messages PROVE SaidAll(Messages[m].events)
    BY DEF MessagesSaid
<1> DEFINE events == Messages[m].events
<1>4. events \in Seq(ToSet(events)) /\ \A e \in ToSet(events) : IsEvent(e)
    BY MessagesAssumption DEF MessagesAssumption
<1> HIDE DEF events
<1>5. IsSeq(events) /\ \A k \in DOMAIN events : events[k] \in ToSet(events)
    BY <1>4 DEF IsSeq, ToSet
<1>6. SaidAll(events)
    BY <1>3, <1>4, <1>5 DEF SaidAll
<1> QED BY <1>6 DEF events

\* Where a server stands that prepared message m from these rows.
PreparedFrom(r, m, p) ==
    LET previous == HydratePersistedState(r)
        next == Reduce(previous, Messages[m])
        hmac == SubjectResolver(r, next)
    IN /\ p.message = m /\ p.ops = DiffTransition(previous, next, hmac)
       /\ p.hash = CanonicalState(next, hmac)
\* a transition that is not stale was prepared from the rows there are
Submitted(r, p) ==
    /\ p.expected \in 0 .. r.seq
    /\ p.expected = r.seq => \E m \in DOMAIN Messages : PreparedFrom(r, m, p)

LEMMA NextAfter ==
    ASSUME Reduces, MessagesSaid, NEW r, RowsOK(r), NEW m \in DOMAIN Messages
    PROVE  LET prev == HydratePersistedState(r) IN
           After(Covered(Messages[m]), prev, Reduce(prev, Messages[m]))
<1> DEFINE prev == HydratePersistedState(r)
           E == Messages[m].events
           next == ApplyAll(prev, E)
<1>1. Reduce(prev, Messages[m]) = next
    BY DEF Reduce
<1>2. AnsweredIn(E) \subseteq Covered(Messages[m])
  <2> SUFFICES ASSUME NEW k \in DOMAIN E, NEW c \in Answered(E[k])
               PROVE  c \in Covered(Messages[m])
    BY DEF AnsweredIn
  <2>1. E[k].kind = "SIGNAL" /\ c \in {f.code : f \in ToSet(E[k].facts)}
    BY DEF Answered
  <2>2. E[k] \in ToSet(E)
    BY DEF ToSet
  <2> QED BY <2>1, <2>2 DEF Covered
<1>3. Shaped(prev)
    BY HydratedIs
<1> HIDE DEF prev
<1>4. After(AnsweredIn(E), prev, next)
    BY <1>3, AfterAll DEF MessagesSaid
<1> HIDE DEF next, E
<1>5. After(Covered(Messages[m]), prev, next)
    BY <1>2, <1>4 DEF After, Signed
<1> QED BY <1>1, <1>5 DEF prev

\* What the database answers a transition that is not stale.
LEMMA AcceptedIs ==
    ASSUME Reduces, MessagesSaid, NEW r, RowsOK(r), NEW p, NEW m \in DOMAIN Messages,
           PreparedFrom(r, m, p), NEW t, t = ApplyOps(r, p.ops, r.seq + 1, Covered(Messages[p.message])),
           t.refused = "none" => ConvStateCanonical(t) = p.hash, NEW key
    PROVE  /\ t.refused \notin Misordered
           /\ t.refused = "none" => LET u == [t EXCEPT !.log = Append(@, key)] IN
                 RowsOK(u) /\ Retained(r, u) /\ u.seq = r.seq + 1
<1> DEFINE prev == HydratePersistedState(r)
           next == Reduce(prev, Messages[m])
           hmac == SubjectResolver(r, next)
           C == Covered(Messages[m])
           u == [t EXCEPT !.log = Append(@, key)]
<1>1. t = ApplyOps(r, DiffTransition(prev, next, hmac), r.seq + 1, C) /\ p.hash = CanonicalState(next, hmac)
    BY DEF PreparedFrom
<1>2. After(C, prev, next)
    BY NextAfter
<1>3. /\ Shaped(prev) /\ prev.goals = r.goals /\ prev.facts = r.facts
    BY HydratedIs
<1> HIDE DEF next, hmac, C
<1>4. /\ DOMAIN t = RowFields /\ t.seq = r.seq + 1 /\ t.refused \notin Misordered
      /\ t.refused = "none" =>
            /\ QuestionsOK(t, r.seq + 1) /\ ActionsOK(t) /\ OneEach(PendingActions(t))
            /\ t.log = r.log /\ t.rollbacks = r.rollbacks
            /\ \A x \in r.questions : x.state \notin {"PENDING", "PARKED"} => x \in t.questions
            /\ \A x \in r.actions : x.status # "PENDING" => x \in t.actions
    BY <1>1, <1>2, DifferenceReplay
<1> HIDE DEF prev
<1>5. ASSUME t.refused = "none"
      PROVE  RowsOK(u) /\ Retained(r, u) /\ u.seq = r.seq + 1
  <2>1. ConvStateCanonical(t) = CanonicalState(next, hmac)
    BY <1>1, <1>5
  <2>2. /\ t.goals = next.goals /\ t.facts = next.facts
        /\ t.cases = [c \in DOMAIN next.cases |-> [kind |-> next.cases[c].kind, hmac |-> hmac[c]]]
        /\ Asked(PendingActions(t)) = Asked(next.actions)
    BY <2>1 DEF ConvStateCanonical, CanonicalState
  <2>3. /\ DOMAIN u = RowFields /\ u.log = Append(t.log, key)
        /\ \A f \in RowFields \ {"log"} : u[f] = t[f]
    BY <1>4 DEF RowFields
  <2> HIDE DEF u
  <2>4. /\ u.seq = r.seq + 1 /\ u.refused = "none" /\ u.cases = t.cases /\ u.goals = next.goals
        /\ u.facts = next.facts /\ u.questions = t.questions /\ u.actions = t.actions
    BY <1>4, <1>5, <2>2, <2>3 DEF RowFields
  <2>5. IsSeq(u.cases)
    <3>1. IsSeq(next.cases)
      <4>1. IsSeq(prev.cases)
        BY HydratedIs DEF prev
      <4> QED BY <1>2, <4>1 DEF After, Extends
    <3> QED BY <2>2, <2>4, <3>1, MapIsSeq
  <2>6. \A a \in PendingActions(u) : a.goal \in DOMAIN u.goals
    <3> SUFFICES ASSUME NEW a \in PendingActions(u) PROVE a.goal \in DOMAIN next.goals
      BY <2>4
    <3>1. [action |-> a.action, goal |-> a.goal] \in Asked(next.actions)
      BY <2>2, <2>4 DEF Asked, PendingActions
    <3>2. PICK b \in next.actions : b.goal = a.goal
      BY <3>1 DEF Asked
    <3> QED BY <1>2, <3>2 DEF After, Shaped
  <2>7. QuestionsOK(u, u.seq) /\ ActionsOK(u) /\ OneEach(PendingActions(u))
    BY <1>4, <1>5, <2>4 DEF QuestionsOK, Live, InState, ActionsOK, PendingActions
  <2>8. RowsOK(u)
    <3>1. IsSeq(u.log)
      BY <1>4, <1>5, <2>3, AppendIs DEF RowsOK
    <3> QED BY <1>2, <2>3, <2>4, <2>5, <2>6, <2>7, <3>1 DEF RowsOK, After, Shaped
  <2>9. \A i \in DOMAIN r.facts : SaysTheSame(r.facts[i], u.facts[i])
    <3> SUFFICES ASSUME NEW i \in DOMAIN prev.facts PROVE SaysTheSame(prev.facts[i], next.facts[i])
      BY <1>3, <2>4
    <3>1. /\ \A f \in {"code", "value", "owner", "at", "from"} : next.facts[i][f] = prev.facts[i][f]
          /\ i \notin InForce(prev) => next.facts[i] = prev.facts[i]
      BY <1>2 DEF After, Stand
    <3>2. prev.facts[i].status = "SUPERSEDED" => i \notin InForce(prev)
      BY DEF InForce
    <3> QED BY <3>1, <3>2 DEF SaysTheSame
  <2>10. Retained(r, u)
    BY <1>4, <1>5, <2>3, <2>4, <2>9 DEF Retained
  <2> QED BY <2>4, <2>8, <2>10
<1> QED BY <1>4, <1>5 DEF u

LEMMA VerdictIs ==
    ASSUME Reduces, MessagesSaid, NEW r, RowsOK(r), NEW p, Submitted(r, p)
    PROVE  LET v == Verdict(r, p) IN
           /\ v.answer \notin Misordered
           /\ v.answer # "none" => v.rows = r
           /\ v.answer = "none" =>
                 RowsOK(v.rows) /\ Retained(r, v.rows) /\ v.rows.seq = r.seq + 1
<1> DEFINE t == ApplyOps(r, p.ops, r.seq + 1, Covered(Messages[p.message]))
           u == [t EXCEPT !.log = Append(@, p.key)]
           v == Verdict(r, p)
           known == p.key \in ToSet(r.log)
           decided == IF t.refused # "none" THEN [answer |-> t.refused, rows |-> r]
                      ELSE IF ConvStateCanonical(t) # p.hash
                           THEN [answer |-> "HASH_MISMATCH", rows |-> r]
                           ELSE [answer |-> "none", rows |-> u]
           replayed == [answer |-> "REPLAYED", rows |-> r]
           moved == [answer |-> "MOVED", rows |-> r]
<1>1. v = CASE known -> replayed
            [] ~known /\ r.seq # p.expected -> moved
            [] OTHER -> decided
    BY Zenon DEF Verdict
<1>2. replayed.answer = "REPLAYED" /\ replayed.rows = r /\ moved.answer = "MOVED" /\ moved.rows = r
    OBVIOUS
<1> HIDE DEF v, known, decided, replayed, moved
<1>3. v = replayed \/ v = moved \/ (~known /\ r.seq = p.expected /\ v = decided)
    BY <1>1
<1>4. CASE v = replayed \/ v = moved
    BY <1>2, <1>4 DEF Misordered, v
<1>5. CASE r.seq = p.expected /\ v = decided
  <2>1. PICK m \in DOMAIN Messages : PreparedFrom(r, m, p)
    BY <1>5 DEF Submitted
  <2> HIDE DEF t
  <2>2. CASE t.refused # "none"
    <3>1. v.answer = t.refused /\ v.rows = r
      BY <1>5, <2>2 DEF decided
    <3>2. t.refused \notin Misordered
      <4>1. t.refused = "none" => ConvStateCanonical(t) = p.hash
        BY <2>2
      <4> QED BY <2>1, <4>1, AcceptedIs DEF t
    <3> QED BY <2>2, <3>1, <3>2 DEF v
  <2>3. CASE t.refused = "none" /\ ConvStateCanonical(t) # p.hash
    <3>1. v.answer = "HASH_MISMATCH" /\ v.rows = r
      BY <1>5, <2>3 DEF decided
    <3> QED BY <3>1 DEF Misordered, v
  <2>4. CASE t.refused = "none" /\ ConvStateCanonical(t) = p.hash
    <3>1. v.answer = "none" /\ v.rows = u
      <4> HIDE DEF u
      <4> QED BY <1>5, <2>4 DEF decided
    <3> DEFINE key == p.key
    <3> HIDE DEF key
    <3>2. LET w == [t EXCEPT !.log = Append(@, key)] IN
             RowsOK(w) /\ Retained(r, w) /\ w.seq = r.seq + 1
      BY <2>1, <2>4, AcceptedIs DEF t
    <3>3. RowsOK(u) /\ Retained(r, u) /\ u.seq = r.seq + 1
      BY <3>2 DEF key
    <3> HIDE DEF u
    <3> QED BY <3>1, <3>3 DEF Misordered, v
  <2> QED BY <2>2, <2>3, <2>4
<1> QED BY <1>3, <1>4, <1>5

\* A rollback writes too: facts are withdrawn, goals, questions and actions end.
LEMMA RollbackIs ==
    ASSUME RowsOK(rows), NEW to, RollbackToSeq(to)
    PROVE  /\ RowsOK(rows') /\ Retained(rows, rows') /\ rows'.seq = rows.seq + 1
           /\ refusal' = "none" /\ server' = server
<1> DEFINE seq == rows.seq + 1
           later(r) == r.asked > to
           goal(g) == IF g.status \in OpenStatuses /\ g.opened > to
                      THEN [g EXCEPT !.status = "ABANDONED", !.closed = seq,
                                     !.reason = Because("ROLLBACK", "none")] ELSE g
           question(q) == IF q.state \in {"PENDING", "PARKED"} /\ later(q)
                          THEN [q EXCEPT !.state = "CANCELLED", !.order = 0] ELSE q
           action(a) == IF a.status = "PENDING" /\ later(a)
                        THEN [a EXCEPT !.status = "CANCELLED"] ELSE a
           key == <<rows.seq, "rollback", to>>
           facts == [i \in DOMAIN rows.facts |-> Withdrawn(rows.facts[i], to, seq)]
           goals == [g \in DOMAIN rows.goals |-> goal(rows.goals[g])]
           questions == {question(q) : q \in rows.questions}
           actions == {action(a) : a \in rows.actions}
           r == [rows EXCEPT
                   !.seq = seq, !.log = Append(@, key), !.rollbacks = @ + 1, !.facts = facts,
                   !.goals = goals, !.questions = questions, !.actions = actions]
<1>1. rows' = r /\ refusal' = "none" /\ server' = server
  <2>1. DOMAIN rows = RowFields
    BY DEF RowsOK
  <2> QED BY <2>1, Zenon DEF RollbackToSeq
<1>2. \A i \in DOMAIN rows.facts :
         /\ DOMAIN facts[i] = FactFields /\ facts[i].code \in DOMAIN FactDef
         /\ SaysTheSame(rows.facts[i], facts[i])
    BY DEF RowsOK, Withdrawn, FactFields, SaysTheSame
<1>3. \A g \in DOMAIN rows.goals :
         DOMAIN goals[g] = GoalFields /\ goals[g].parent = rows.goals[g].parent
  <2> DEFINE why == Because("ROLLBACK", "none")
             at == seq
  <2>1. \A h : goal(h) = h \/ goal(h) = [h EXCEPT !.status = "ABANDONED", !.closed = at,
                                                 !.reason = why]
    OBVIOUS
  <2> HIDE DEF why, at, goal
  <2>2. ASSUME NEW h, DOMAIN h = GoalFields
        PROVE  DOMAIN goal(h) = GoalFields /\ goal(h).parent = h.parent
    <3> DEFINE k == [h EXCEPT !.status = "ABANDONED", !.closed = at, !.reason = why]
    <3>1. DOMAIN k = GoalFields /\ k.parent = h.parent
      BY <2>2 DEF GoalFields
    <3>2. goal(h) = h \/ goal(h) = k
      BY <2>1
    <3> HIDE DEF k
    <3> QED BY <2>2, <3>1, <3>2
  <2>3. \A g \in DOMAIN rows.goals : DOMAIN rows.goals[g] = GoalFields /\ goals[g] = goal(rows.goals[g])
    BY DEF RowsOK
  <2> HIDE DEF goals
  <2> QED BY <2>2, <2>3
<1>4. \A q \in rows.questions :
         /\ DOMAIN question(q) = QuestionFields
         /\ question(q) = q \/ question(q).state = "CANCELLED"
         /\ q.state \notin {"PENDING", "PARKED"} => question(q) = q
    BY DEF RowsOK, QuestionsOK, QuestionFields
<1>5. \A a \in rows.actions :
         /\ DOMAIN action(a) = ActionFields
         /\ action(a) = a \/ action(a).status = "CANCELLED"
         /\ a.status # "PENDING" => action(a) = a
    BY DEF RowsOK, ActionsOK, ActionFields
<1>6. IsSeq(facts) /\ IsSeq(goals) /\ DOMAIN facts = DOMAIN rows.facts
      /\ DOMAIN goals = DOMAIN rows.goals
  <2> HIDE DEF goal
  <2> QED BY MapIsSeq DEF RowsOK
<1>7. IsFiniteSet(actions)
  <2> DEFINE f == [a \in rows.actions |-> action(a)]
             S == rows.actions
  <2> HIDE DEF action
  <2>1. f \in Finite!Surjection(S, actions)
    BY DEF Finite!Surjection
  <2>2. Finite!IsFiniteSet(S)
    BY CountsAre DEF RowsOK, ActionsOK
  <2> HIDE DEF f, actions, S
  <2>3. Finite!IsFiniteSet(actions)
    BY <2>1, <2>2, Finite!FS_Surjection
  <2> QED BY <2>3, CountsAre
<1> HIDE DEF facts, goals, goal, question, action, key
<1>8. /\ DOMAIN r = RowFields /\ r.seq = seq /\ r.log = Append(rows.log, key) /\ r.facts = facts
      /\ r.goals = goals /\ r.questions = questions /\ r.actions = actions
      /\ r.cases = rows.cases /\ r.refused = rows.refused
  <2>1. DOMAIN rows = RowFields
    BY DEF RowsOK
  <2> HIDE DEF seq, questions, actions
  <2> QED BY <2>1 DEF RowFields
<1> HIDE DEF r
<1>9. Live(r) \subseteq Live(rows) /\ InState(r, "PENDING") \subseteq InState(rows, "PENDING")
      /\ InState(r, "PARKED") \subseteq InState(rows, "PARKED")
  <2>1. \A x \in r.questions : x.state \in {"PENDING", "PARKED"} => x \in rows.questions
    BY <1>4, <1>8
  <2> QED BY <2>1 DEF Live, InState
<1>10. QuestionsOK(r, r.seq)
  <2>1. \A x \in r.questions : DOMAIN x = QuestionFields
    BY <1>4, <1>8
  <2>2. \A x \in Live(r) : x.asked \in 1 .. r.seq
    <3>1. \A x \in Live(rows) : x.asked \in 1 .. rows.seq
      BY DEF RowsOK, QuestionsOK
    <3>2. rows.seq \in Nat
      BY DEF RowsOK
    <3> QED BY <1>8, <1>9, <3>1, <3>2
  <2> QED BY <1>9, <2>1, <2>2 DEF RowsOK, QuestionsOK
<1>11. PendingActions(r) \subseteq PendingActions(rows)
  <2>1. \A x \in r.actions : x.status = "PENDING" => x \in rows.actions
    BY <1>5, <1>8
  <2> QED BY <2>1 DEF PendingActions
<1>12. ActionsOK(r)
    BY <1>5, <1>7, <1>8 DEF ActionsOK
<1>13. RowsOK(r)
  <2>1. r.seq \in Nat
    BY <1>8 DEF RowsOK
  <2>2. \A a \in PendingActions(r) : a.goal \in DOMAIN r.goals
    BY <1>6, <1>8, <1>11 DEF RowsOK
  <2>3. OneEach(PendingActions(r))
    BY <1>11 DEF RowsOK, OneEach
  <2>4. \A g \in DOMAIN r.goals : /\ DOMAIN r.goals[g] = GoalFields
                                  /\ r.goals[g].parent \in {0} \cup DOMAIN r.goals
    BY <1>3, <1>6, <1>8 DEF RowsOK
  <2>5. IsSeq(r.log)
    BY <1>8, AppendIs DEF RowsOK
  <2> QED BY <1>2, <1>6, <1>8, <1>10, <1>12, <2>1, <2>2, <2>3, <2>4, <2>5 DEF RowsOK
<1>14. Retained(rows, r)
  <2>1. \A x \in rows.questions : x.state \notin {"PENDING", "PARKED"} => x \in r.questions
    BY <1>4, <1>8
  <2>2. \A x \in rows.actions : x.status # "PENDING" => x \in r.actions
    BY <1>5, <1>8
  <2> QED BY <1>2, <1>8, <2>1, <2>2 DEF Retained
<1> QED BY <1>1, <1>8, <1>13, <1>14

-----------------------------------------------------------------------------
(* The invariant.                                                          *)

ServersOK ==
    /\ DOMAIN server = Servers
    /\ \A w \in Servers : server[w] # Idle => Submitted(rows, server[w])
StoreOK == RowsOK(rows) /\ ServersOK /\ refusal \notin Misordered

LEMMA StoreInit ==
    ASSUME Init
    PROVE  StoreOK
<1>1. RowsOK(NoRows)
  <2> DEFINE e == <<>>
             none == {}
  <2>1. /\ DOMAIN NoRows = RowFields /\ NoRows.seq = 0 /\ NoRows.refused = "none"
        /\ NoRows.log = e /\ NoRows.cases = e /\ NoRows.goals = e /\ NoRows.facts = e
        /\ NoRows.questions = none /\ NoRows.actions = none
    BY DEF NoRows, RowFields
  <2>2. IsSeq(e) /\ DOMAIN e = {}
    BY OneIs
  <2>3. IsFiniteSet(none)
    BY CountsAre, Finite!FS_EmptySet
  <2>4. \A x : x \notin none
    OBVIOUS
  <2> HIDE DEF e, none
  <2>5. QuestionsOK(NoRows, 0)
    <3>1. Live(NoRows) = {} /\ InState(NoRows, "PENDING") = {} /\ InState(NoRows, "PARKED") = {}
      BY <2>1, <2>4 DEF Live, InState
    <3>2. 0 \in Nat
      OBVIOUS
    <3> QED BY <2>1, <2>4, <3>1, <3>2 DEF QuestionsOK
  <2>6. PendingActions(NoRows) = {}
    BY <2>1, <2>4 DEF PendingActions
  <2>7. ActionsOK(NoRows) /\ OneEach(PendingActions(NoRows))
    BY <2>1, <2>3, <2>4, <2>6 DEF ActionsOK, OneEach
  <2> QED BY <2>1, <2>2, <2>5, <2>6, <2>7 DEF RowsOK
<1>2. ServersOK
    BY DEF Init, ServersOK
<1> QED BY <1>1, <1>2 DEF Init, StoreOK, Misordered

\* Where the session moved on, what was prepared before is stale.
LEMMA SubmittedLater ==
    ASSUME NEW r, r.seq \in Nat, NEW t, t.seq = r.seq + 1, NEW p, Submitted(r, p)
    PROVE  Submitted(t, p)
BY DEF Submitted

LEMMA PrepareKeeps ==
    ASSUME StoreOK, NEW w \in Servers, NEW m \in DOMAIN Messages, PrepareTransition(w, m)
    PROVE  StoreOK' /\ rows' = rows
<1> DEFINE previous == HydratePersistedState(rows)
           next == Reduce(previous, Messages[m])
           hmac == SubjectResolver(rows, next)
           ops == DiffTransition(previous, next, hmac)
           fresh == \E i \in DOMAIN ops : Fresh(ops[i])
           key == <<rows.seq, m, IF fresh THEN w ELSE "no identifier">>
           hash == CanonicalState(next, hmac)
           p == [message |-> m, expected |-> rows.seq, ops |-> ops, key |-> key, hash |-> hash]
<1>1. server' = [server EXCEPT ![w] = p] /\ rows' = rows /\ refusal' = refusal
    BY Zenon DEF PrepareTransition
<1>2. Submitted(rows, p)
  <2>1. p.message = m /\ p.expected = rows.seq /\ p.ops = ops /\ p.hash = hash
    OBVIOUS
  <2> HIDE DEF p
  <2>2. PreparedFrom(rows, m, p)
    BY <2>1 DEF PreparedFrom
  <2>3. rows.seq \in 0 .. rows.seq
    BY DEF StoreOK, RowsOK
  <2> QED BY <2>1, <2>2, <2>3 DEF Submitted
<1> HIDE DEF p
<1>3. DOMAIN server' = Servers /\ \A v \in Servers : server'[v] = server[v] \/ server'[v] = p
    BY <1>1 DEF StoreOK, ServersOK
<1>4. ServersOK'
    BY <1>1, <1>2, <1>3 DEF StoreOK, ServersOK
<1> QED BY <1>1, <1>4 DEF StoreOK

LEMMA CommitKeeps ==
    ASSUME Reduces, MessagesSaid, StoreOK, NEW w \in Servers, CommitTransition(w)
    PROVE  StoreOK' /\ (rows' = rows \/ Retained(rows, rows'))
<1> DEFINE v == Verdict(rows, server[w])
<1>1. /\ rows' = v.rows /\ refusal' = v.answer
      /\ server' = server \/ server' = [server EXCEPT ![w] = Idle]
    BY DEF CommitTransition
<1>2. Submitted(rows, server[w]) /\ RowsOK(rows)
    BY DEF CommitTransition, StoreOK, ServersOK
<1>3. /\ v.answer \notin Misordered
      /\ v.answer # "none" => v.rows = rows
      /\ v.answer = "none" =>
            RowsOK(v.rows) /\ Retained(rows, v.rows) /\ v.rows.seq = rows.seq + 1
    BY <1>2, VerdictIs
<1> HIDE DEF v
<1>4. RowsOK(rows') /\ refusal' \notin Misordered /\ (rows' = rows \/ Retained(rows, rows'))
    BY <1>1, <1>2, <1>3
<1>5. \A p : Submitted(rows, p) => Submitted(rows', p)
    BY <1>1, <1>2, <1>3, SubmittedLater DEF RowsOK
<1>6. DOMAIN server' = Servers /\ \A u \in Servers : server'[u] = server[u] \/ server'[u] = Idle
    BY <1>1 DEF StoreOK, ServersOK
<1>7. ServersOK'
    BY <1>5, <1>6 DEF StoreOK, ServersOK
<1> QED BY <1>4, <1>7 DEF StoreOK

LEMMA RollbackKeeps ==
    ASSUME StoreOK, NEW to, RollbackToSeq(to)
    PROVE  StoreOK' /\ Retained(rows, rows')
<1>1. RowsOK(rows') /\ Retained(rows, rows') /\ rows'.seq = rows.seq + 1 /\ refusal' = "none"
      /\ server' = server /\ rows.seq \in Nat
    BY RollbackIs DEF StoreOK, RowsOK
<1>2. \A p : Submitted(rows, p) => Submitted(rows', p)
    BY <1>1, SubmittedLater
<1>3. ServersOK'
    BY <1>1, <1>2 DEF StoreOK, ServersOK
<1> QED BY <1>1, <1>3 DEF StoreOK, Misordered

\* A log that is kept or appended to is continued.
LEMMA Continued ==
    ASSUME NEW q, IsSeq(q), NEW u, u = q \/ \E x : u = Append(q, x)
    PROVE  IsPrefix(q, u)
<1>1. Len(q) \in Nat /\ Len(q) <= Len(u) /\ \A i \in 1 .. Len(q) : u[i] = q[i]
    BY SeqIs, AppendIs
<1>2. SubSeq(q, 1, Len(q)) = SubSeq(u, 1, Len(q))
    BY <1>1
<1> QED BY <1>1, <1>2 DEF IsPrefix

LEMMA RetainedStays ==
    ASSUME RowsOK(rows), rows' = rows \/ Retained(rows, rows')
    PROVE  SaidStays
<1>1. \A f : SaysTheSame(f, f)
    BY DEF SaysTheSame
<1>2. IsPrefix(rows.log, rows'.log)
    BY Continued DEF RowsOK, Retained
<1>3. \A x \in Ended : x \notin {"PENDING", "PARKED"}
    BY DEF Ended
<1> QED BY <1>1, <1>2, <1>3 DEF SaidStays, Retained

-----------------------------------------------------------------------------
(* What holds of every session, whatever the catalogue says.               *)

\* The invariant: the rows are well formed, whoever is not late prepared what it
\* submits from the rows there are, and no operation came out of order.
THEOREM StoreSound ==
    ASSUME Reduces
    PROVE  Spec => []StoreOK
<1>1. Init => StoreOK
    BY StoreInit
<1>2. StoreOK /\ [Next]_vars => StoreOK'
  <2>1. CASE UNCHANGED vars
    BY <2>1 DEF StoreOK, RowsOK, QuestionsOK, Live, InState, ActionsOK, PendingActions, OneEach,
          ServersOK, vars
  <2> QED BY <2>1, MessagesAre, PrepareKeeps, CommitKeeps, RollbackKeeps DEF Next
<1> QED BY <1>1, <1>2, PTL DEF Spec

\* No question or action is ever refused for the one it replaces, and no fact for want
\* of an authority that covers it: diffTransition puts the operations in an order the
\* constraints of 0020 accept.
THEOREM OrderAlwaysSuffices ==
    ASSUME Reduces
    PROVE  Spec => []OrderSuffices
<1>1. StoreOK => OrderSuffices
    BY DEF StoreOK, Misordered, OrderSuffices
<1> QED BY <1>1, StoreSound, PTL

\* Whatever is submitted, replayed or rolled back, the log is only continued, a fact
\* keeps what it said, what is superseded, answered, cancelled or settled stays so.
THEOREM SaidAlwaysStays ==
    ASSUME Reduces
    PROVE  Spec => [][SaidStays]_vars
<1>1. StoreOK /\ [Next]_vars => [SaidStays]_vars
  <2> SUFFICES ASSUME StoreOK, Next PROVE SaidStays
    OBVIOUS
  <2>1. rows' = rows \/ Retained(rows, rows')
    BY MessagesAre, PrepareKeeps, CommitKeeps, RollbackKeeps DEF Next
  <2> QED BY <2>1, RetainedStays DEF StoreOK
<1> QED BY <1>1, StoreSound, PTL DEF Spec
=============================================================================
