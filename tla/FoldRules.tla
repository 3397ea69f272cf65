------------------------------ MODULE FoldRules ------------------------------
(***************************************************************************)
(* Induction along a fold.  The reducer and the stores walk lists with     *)
(* FoldLeft; what holds of every intermediate result holds of the last     *)
(* one.  A module that needs it for one operation INSTANCEs this one with  *)
(* that operation and what is said of it; env is whatever else the         *)
(* operation reads.  So that an instance brings few names with it, the     *)
(* module extends no other theorem: that the natural numbers are inductive *)
(* is a hypothesis here, and a lemma where the rules are used.             *)
(***************************************************************************)
EXTENDS Integers, Folds

CONSTANTS
    Op(_, _, _),  \* Op(env, t, x): the result t with one more element x
    P(_, _, _)    \* P(env, done, t): what holds of t after the first elements

\* FoldLeft, whose next element is the one of the greatest index
Greatest(S) == CHOOSE x \in S : \A y \in S : x >= y
Along(env, base, seq) ==
    MapThenFoldSet(LAMBDA x, t : Op(env, t, x), base, LAMBDA i : seq[i],
                   LAMBDA S : Greatest(S), DOMAIN seq)

Inductive == \A M : 0 \in M /\ (\A n \in Nat : n \in M => n + 1 \in M) => Nat \subseteq M

-----------------------------------------------------------------------------
LEMMA GreatestOf ==
    ASSUME Inductive, NEW n \in Nat, NEW S, S \subseteq 0 .. n, S # {}
    PROVE  Greatest(S) \in S /\ \A y \in S : y <= Greatest(S)
<1> DEFINE Bounded(k) == \A T \in SUBSET (0 .. k) :
                            T # {} => \E x \in T : \A y \in T : y <= x
           M == {k \in Nat : Bounded(k)}
<1>1. 0 \in M
  <2>1. ASSUME NEW T \in SUBSET (0 .. 0), T # {} PROVE 0 \in T /\ \A y \in T : y <= 0
    <3>1. \A y \in 0 .. 0 : y = 0
      OBVIOUS
    <3>2. \A y \in T : y = 0 /\ y <= 0
      BY <3>1
    <3>3. PICK y : y \in T
      BY <2>1
    <3>4. 0 \in T
      BY <3>2, <3>3
    <3> QED BY <3>2, <3>4
  <2> QED BY <2>1
<1>2. ASSUME NEW k \in Nat, k \in M PROVE k + 1 \in M
  <2> SUFFICES ASSUME NEW T \in SUBSET (0 .. (k + 1)), T # {}
               PROVE  \E x \in T : \A y \in T : y <= x
    OBVIOUS
  <2>1. CASE k + 1 \in T
    BY <2>1
  <2>2. CASE k + 1 \notin T
    <3>1. T \in SUBSET (0 .. k)
      BY <2>2
    <3> QED BY <1>2, <3>1
  <2> QED BY <2>1, <2>2
<1>3. n \in M
  <2> HIDE DEF M
  <2> QED BY <1>1, <1>2 DEF Inductive
<1>4. PICK x \in S : \A y \in S : y <= x
    BY <1>3
<1>5. \A y \in S : x >= y
    BY <1>4
<1>6. Greatest(S) \in S /\ \A y \in S : Greatest(S) >= y
    BY <1>5 DEF Greatest
<1> QED BY <1>6

-----------------------------------------------------------------------------
(* Along a list: done is the number of its elements.                       *)

LeftStep(env, base, seq, g) ==
    [s \in SUBSET DOMAIN seq |->
        IF s = {} THEN base ELSE Op(env, g[s \ {Greatest(s)}], seq[Greatest(s)])]
LeftIter(env, base, seq) == CHOOSE g : g = LeftStep(env, base, seq, g)

LEMMA AlongIsIter ==
    ASSUME NEW env, NEW base, NEW seq
    PROVE  Along(env, base, seq) = LeftIter(env, base, seq)[DOMAIN seq]
BY DEF Along, MapThenFoldSet, LeftIter, LeftStep

\* The recursion of the fold has a solution.
LEMMA LeftExists ==
    ASSUME Inductive, NEW env, NEW base, NEW n \in Nat, NEW seq, DOMAIN seq = 1 .. n
    PROVE  \E g : g = LeftStep(env, base, seq, g)
<1> DEFINE Next(g, s) == IF s = {} THEN base
                         ELSE Op(env, g[s \ {Greatest(s)}], seq[Greatest(s)])
           Follows(g, k) == /\ g = [s \in SUBSET (1 .. k) |-> g[s]]
                            /\ \A s \in SUBSET (1 .. k) : g[s] = Next(g, s)
           M == {k \in Nat : \E g : Follows(g, k)}
<1>1. 0 \in M
  <2> DEFINE g == [s \in SUBSET (1 .. 0) |-> base]
  <2>1. \A s \in SUBSET (1 .. 0) : s = {}
    OBVIOUS
  <2>2. Follows(g, 0)
    BY <2>1
  <2> HIDE DEF Follows
  <2> QED BY <2>2
<1>2. ASSUME NEW k \in Nat, k \in M PROVE k + 1 \in M
  <2>1. PICK g : Follows(g, k)
    BY <1>2
  <2> DEFINE h == [s \in SUBSET (1 .. (k + 1)) |-> Next(g, s)]
  <2>2. ASSUME NEW s \in SUBSET (1 .. (k + 1)), s # {}
        PROVE  s \ {Greatest(s)} \in SUBSET (1 .. k)
    <3>1. s \subseteq 0 .. (k + 1) /\ k + 1 \in Nat
      OBVIOUS
    <3>2. Greatest(s) \in s /\ \A y \in s : y <= Greatest(s)
      BY <2>2, <3>1, GreatestOf
    <3>3. CASE k + 1 \in s
      <4>0. Greatest(s) \in 1 .. (k + 1) /\ k + 1 <= Greatest(s)
        BY <3>2, <3>3
      <4>1. Greatest(s) = k + 1
        BY <4>0
      <4> QED BY <4>1
    <3>4. CASE k + 1 \notin s
      <4>1. s \subseteq 1 .. k
        BY <3>4
      <4> QED BY <4>1
    <3> QED BY <3>3, <3>4
  <2>3. ASSUME NEW u \in SUBSET (1 .. k) PROVE u \in SUBSET (1 .. (k + 1)) /\ h[u] = g[u]
    <3>1. u \in SUBSET (1 .. (k + 1))
      OBVIOUS
    <3> QED BY <2>1, <3>1
  <2>4. ASSUME NEW s \in SUBSET (1 .. (k + 1)) PROVE h[s] = Next(h, s)
    BY <2>2, <2>3
  <2>5. h = [s \in SUBSET (1 .. (k + 1)) |-> h[s]]
    OBVIOUS
  <2> HIDE DEF h, Next
  <2>6. Follows(h, k + 1)
    BY <2>4, <2>5
  <2> HIDE DEF Follows
  <2> QED BY <2>6
<1>3. n \in M
  <2> HIDE DEF M
  <2> QED BY <1>1, <1>2 DEF Inductive
<1>4. PICK g : Follows(g, n)
    BY <1>3
<1> QED BY <1>4 DEF LeftStep

\* What the fold of the first k elements is, for each k.
LeftAt(env, base, seq, k) == LeftIter(env, base, seq)[1 .. k]

LEMMA LeftAtIs ==
    ASSUME Inductive, NEW env, NEW base, NEW n \in Nat, NEW seq, DOMAIN seq = 1 .. n
    PROVE  /\ Along(env, base, seq) = LeftAt(env, base, seq, n)
           /\ LeftAt(env, base, seq, 0) = base
           /\ \A k \in 1 .. n :
                 LeftAt(env, base, seq, k) = Op(env, LeftAt(env, base, seq, k - 1), seq[k])
<1> DEFINE D == 1 .. n
           g == LeftIter(env, base, seq)
<1>1. \A s \in SUBSET D : s # {} => Greatest(s) \in s /\ \A y \in s : y <= Greatest(s)
  <2>1. \A s \in SUBSET D : s \subseteq 0 .. n
    OBVIOUS
  <2> QED BY <2>1, GreatestOf
<1>2. g = [s \in SUBSET D |-> IF s = {} THEN base
                              ELSE Op(env, g[s \ {Greatest(s)}], seq[Greatest(s)])]
  <2>1. PICK h : h = LeftStep(env, base, seq, h)
    BY LeftExists
  <2> QED BY <2>1 DEF LeftIter, LeftStep
<1> HIDE DEF g
<1>3. g[1 .. 0] = base
  <2>1. 1 .. 0 = {} /\ {} \in SUBSET D
    OBVIOUS
  <2> QED BY <1>2, <2>1
<1>4. ASSUME NEW k \in 1 .. n
      PROVE  g[1 .. k] = Op(env, g[1 .. (k - 1)], seq[k])
  <2> DEFINE s == 1 .. k
  <2>1. s \in SUBSET D /\ k \in s /\ s \ {k} = 1 .. (k - 1)
    OBVIOUS
  <2>2. Greatest(s) = k
    <3>1. Greatest(s) \in s /\ k <= Greatest(s)
      <4> HIDE DEF s, D
      <4> QED BY <1>1, <2>1
    <3> QED BY <3>1
  <2>3. g[s] = Op(env, g[s \ {k}], seq[k])
    <3> HIDE DEF s, D
    <3> QED BY <1>2, <2>1, <2>2
  <2> QED BY <2>1, <2>3
<1> QED BY <1>3, <1>4, AlongIsIter DEF LeftAt, g

\* A fact of the first number that passes from each to the next holds of all.
LEMMA UpTo ==
    ASSUME Inductive, NEW n \in Nat, NEW H, 0 \in H, \A k \in 1 .. n : k - 1 \in H => k \in H
    PROVE  n \in H
<1> DEFINE M == {k \in Nat : k <= n => k \in H}
<1>1. 0 \in M
    OBVIOUS
<1>2. ASSUME NEW k \in Nat, k \in M PROVE k + 1 \in M
  <2>1. k + 1 <= n => k + 1 \in 1 .. n /\ (k + 1) - 1 = k
    OBVIOUS
  <2> QED BY <1>2, <2>1
<1>3. Nat \subseteq M
  <2> HIDE DEF M
  <2> QED BY <1>1, <1>2 DEF Inductive
<1> QED BY <1>3

THEOREM FoldLeftRule ==
    ASSUME Inductive, NEW env, NEW base, NEW n \in Nat, NEW seq, DOMAIN seq = 1 .. n,
           P(env, 0, base),
           \A k \in 1 .. n : \A t : P(env, k - 1, t) => P(env, k, Op(env, t, seq[k]))
    PROVE  P(env, n, Along(env, base, seq))
<1>1. /\ Along(env, base, seq) = LeftAt(env, base, seq, n)
      /\ LeftAt(env, base, seq, 0) = base
      /\ \A k \in 1 .. n :
            LeftAt(env, base, seq, k) = Op(env, LeftAt(env, base, seq, k - 1), seq[k])
    BY LeftAtIs
<1> DEFINE H == {k \in 0 .. n : P(env, k, LeftAt(env, base, seq, k))}
<1>2. 0 \in H
    BY <1>1
<1>3. ASSUME NEW k \in 1 .. n, k - 1 \in H PROVE k \in H
  <2>1. P(env, k, Op(env, LeftAt(env, base, seq, k - 1), seq[k]))
    BY <1>3
  <2> QED BY <1>1, <2>1
<1>4. n \in H
  <2> HIDE DEF H
  <2> QED BY <1>2, <1>3, UpTo
<1> QED BY <1>1, <1>4

\* Two folds whose steps agree agree, whatever they walk.
THEOREM FoldLeftAgrees ==
    ASSUME NEW e1, NEW e2, NEW base, NEW seq, \A t, x : Op(e1, t, x) = Op(e2, t, x)
    PROVE  Along(e1, base, seq) = Along(e2, base, seq)
<1>1. ASSUME NEW g
      PROVE  LeftStep(e1, base, seq, g) = LeftStep(e2, base, seq, g)
  <2>1. \A s \in SUBSET DOMAIN seq :
           (IF s = {} THEN base ELSE Op(e1, g[s \ {Greatest(s)}], seq[Greatest(s)]))
             = (IF s = {} THEN base ELSE Op(e2, g[s \ {Greatest(s)}], seq[Greatest(s)]))
    OBVIOUS
  <2> QED BY <2>1 DEF LeftStep
<1>2. LeftIter(e1, base, seq) = LeftIter(e2, base, seq)
  <2> HIDE DEF LeftStep
  <2> QED BY <1>1 DEF LeftIter
<1> QED BY <1>2, AlongIsIter

\* The fold of one element.
LEMMA AlongOf1 ==
    ASSUME Inductive, NEW env, NEW base, NEW x
    PROVE  Along(env, base, <<x>>) = Op(env, base, x)
<1> DEFINE seq == <<x>>
<1>1. DOMAIN seq = 1 .. 1 /\ seq[1] = x
    OBVIOUS
<1> HIDE DEF seq
<1>2. /\ Along(env, base, seq) = LeftAt(env, base, seq, 1)
      /\ LeftAt(env, base, seq, 0) = base
      /\ \A k \in 1 .. 1 :
            LeftAt(env, base, seq, k) = Op(env, LeftAt(env, base, seq, k - 1), seq[k])
  <2> DEFINE n == 1
  <2>1. n \in Nat /\ DOMAIN seq = 1 .. n
    BY <1>1
  <2> HIDE DEF n
  <2>2. /\ Along(env, base, seq) = LeftAt(env, base, seq, n)
        /\ LeftAt(env, base, seq, 0) = base
        /\ \A k \in 1 .. n :
              LeftAt(env, base, seq, k) = Op(env, LeftAt(env, base, seq, k - 1), seq[k])
    BY <2>1, LeftAtIs
  <2> QED BY <2>2 DEF n
<1>3. LeftAt(env, base, seq, 1) = Op(env, base, x)
    BY <1>1, <1>2
<1> QED BY <1>2, <1>3 DEF seq

\* The fold of three elements.
LEMMA AlongOf3 ==
    ASSUME Inductive, NEW env, NEW base, NEW x, NEW y, NEW z
    PROVE  Along(env, base, <<x, y, z>>) = Op(env, Op(env, Op(env, base, x), y), z)
<1> DEFINE seq == <<x, y, z>>
<1>1. DOMAIN seq = 1 .. 3 /\ seq[1] = x /\ seq[2] = y /\ seq[3] = z
    OBVIOUS
<1> HIDE DEF seq
<1>2. /\ Along(env, base, seq) = LeftAt(env, base, seq, 3)
      /\ LeftAt(env, base, seq, 0) = base
      /\ \A k \in 1 .. 3 :
            LeftAt(env, base, seq, k) = Op(env, LeftAt(env, base, seq, k - 1), seq[k])
  <2> DEFINE n == 3
  <2>1. n \in Nat /\ DOMAIN seq = 1 .. n
    BY <1>1
  <2> HIDE DEF n
  <2>2. /\ Along(env, base, seq) = LeftAt(env, base, seq, n)
        /\ LeftAt(env, base, seq, 0) = base
        /\ \A k \in 1 .. n :
              LeftAt(env, base, seq, k) = Op(env, LeftAt(env, base, seq, k - 1), seq[k])
    BY <2>1, LeftAtIs
  <2> QED BY <2>2 DEF n
<1>3. LeftAt(env, base, seq, 1) = Op(env, base, x)
    BY <1>1, <1>2
<1>4. LeftAt(env, base, seq, 2) = Op(env, Op(env, base, x), y)
    BY <1>1, <1>2, <1>3
<1>5. LeftAt(env, base, seq, 3) = Op(env, Op(env, Op(env, base, x), y), z)
    BY <1>1, <1>2, <1>4
<1> QED BY <1>2, <1>5 DEF seq

\* The fold of nothing, and of one list after another.
LEMMA AlongOf0 ==
    ASSUME Inductive, NEW env, NEW base, NEW seq, DOMAIN seq = {}
    PROVE  Along(env, base, seq) = base
<1> DEFINE n == 0
<1>1. n \in Nat /\ DOMAIN seq = 1 .. n
    OBVIOUS
<1> HIDE DEF n
<1>2. Along(env, base, seq) = LeftAt(env, base, seq, n)
    BY <1>1, AlongIsIter DEF LeftAt
<1>3. LeftAt(env, base, seq, 0) = base
    BY <1>1, LeftAtIs
<1> QED BY <1>2, <1>3 DEF n

LEMMA AlongBoth ==
    ASSUME Inductive, NEW env, NEW base, NEW m \in Nat, NEW n \in Nat,
           NEW p, DOMAIN p = 1 .. m, NEW q, DOMAIN q = 1 .. n,
           NEW r, DOMAIN r = 1 .. (m + n),
           \A k \in 1 .. m : r[k] = p[k], \A k \in 1 .. n : r[m + k] = q[k]
    PROVE  Along(env, base, r) = Along(env, Along(env, base, p), q)
<1> DEFINE mid == Along(env, base, p)
           all == m + n
           F(k) == LeftAt(env, base, p, k)
           G(k) == LeftAt(env, mid, q, k)
           T(k) == LeftAt(env, base, r, k)
           H == {k \in 0 .. m : T(k) = F(k)}
           J == {k \in 0 .. n : T(m + k) = G(k)}
<1>1. mid = F(m) /\ F(0) = base /\ \A k \in 1 .. m : F(k) = Op(env, F(k - 1), p[k])
  <2>1. mid = F(m)
    BY AlongIsIter DEF LeftAt
  <2>2. F(0) = base /\ \A k \in 1 .. m : F(k) = Op(env, F(k - 1), p[k])
    <3>1. Inductive /\ m \in Nat /\ DOMAIN p = 1 .. m
      OBVIOUS
    <3> QED BY ONLY <3>1, LeftAtIs DEF F
  <2> QED BY <2>1, <2>2
<1>2. /\ Along(env, mid, q) = G(n) /\ G(0) = mid
      /\ \A k \in 1 .. n : G(k) = Op(env, G(k - 1), q[k])
  <2> HIDE DEF mid, H, J, F, T
  <2>1. Along(env, mid, q) = G(n)
    BY AlongIsIter DEF LeftAt
  <2>2. G(0) = mid /\ \A k \in 1 .. n : G(k) = Op(env, G(k - 1), q[k])
    <3>1. Inductive /\ n \in Nat /\ DOMAIN q = 1 .. n
      OBVIOUS
    <3> QED BY ONLY <3>1, LeftAtIs DEF G
  <2> QED BY <2>1, <2>2
<1>3. all \in Nat /\ DOMAIN r = 1 .. all
    OBVIOUS
<1>4. /\ Along(env, base, r) = T(all) /\ T(0) = base
      /\ \A k \in 1 .. all : T(k) = Op(env, T(k - 1), r[k])
  <2> HIDE DEF all, mid, H, J, F, G
  <2>1. Along(env, base, r) = T(all)
    BY <1>3, AlongIsIter DEF LeftAt
  <2>2. T(0) = base /\ \A k \in 1 .. all : T(k) = Op(env, T(k - 1), r[k])
    <3>1. Inductive /\ all \in Nat /\ DOMAIN r = 1 .. all
      BY <1>3
    <3> QED BY ONLY <3>1, LeftAtIs DEF T
  <2> QED BY <2>1, <2>2
<1> HIDE DEF F, G, T, mid
<1>5. 0 \in H
    BY <1>1, <1>4
<1>6. ASSUME NEW k \in 1 .. m, k - 1 \in H PROVE k \in H
  <2>1. k \in 1 .. all /\ r[k] = p[k]
    OBVIOUS
  <2> QED BY <1>1, <1>4, <1>6, <2>1
<1>7. m \in H
  <2> HIDE DEF H
  <2> QED BY <1>5, <1>6, UpTo
<1>8. 0 \in J
    BY <1>1, <1>2, <1>7
<1>9. ASSUME NEW k \in 1 .. n, k - 1 \in J PROVE k \in J
  <2>1. m + k \in 1 .. all /\ r[m + k] = q[k] /\ (m + k) - 1 = m + (k - 1)
    OBVIOUS
  <2>2. T(m + k) = Op(env, T(m + (k - 1)), q[k])
    BY <1>4, <2>1
  <2> QED BY <1>2, <1>9, <2>2
<1>10. n \in J
  <2> HIDE DEF J
  <2> QED BY <1>8, <1>9, UpTo
<1> QED BY <1>2, <1>4, <1>10 DEF mid
=============================================================================
