------------------------------- MODULE Folding -------------------------------
(***************************************************************************)
(* What a left fold over a sequence keeps, for any Step.  The library's    *)
(* FoldLeft is a function on the subsets of the sequence's domain, defined *)
(* by recursion; its existence and what it preserves are proved here from  *)
(* the least element of a set of naturals.  A module that folds            *)
(* instantiates this one with its own step.                                *)
(***************************************************************************)
EXTENDS Integers, TLAPS

CONSTANT Step(_, _)

Highest(S) == CHOOSE x \in S : \A y \in S : x >= y

Folds(f, base, seq) ==
  f = [s \in SUBSET DOMAIN seq |->
         IF s = {} THEN base ELSE Step(f[s \ {Highest(s)}], seq[Highest(s)])]

\* FoldLeft(Step, base, seq), once its definitions are expanded.
Fold(base, seq) == (CHOOSE f : Folds(f, base, seq))[DOMAIN seq]
------------------------------------------------------------------------------
(* Every set of naturals that is not empty has a least element: what follows uses it as *)
(* induction.  It is a hypothesis here and a lemma, LeastNat, of the modules that fold, so *)
(* that an instance does not bring the theory of well-founded relations with it. *)

NatsHaveLeast == \A T \in SUBSET Nat : T # {} => \E n \in T : \A m \in T : n <= m

(* The last index of a beginning of a sequence is its highest. *)

LEMMA HighestIs ==
  ASSUME NEW n \in Nat, NEW s \in SUBSET (1 .. n + 1), n + 1 \in s
  PROVE  Highest(s) = n + 1
<1>1. \A y \in s : y \in Int /\ n + 1 >= y
  OBVIOUS
<1>2. Highest(s) \in s /\ \A y \in s : Highest(s) >= y
  BY <1>1 DEF Highest
<1>3. Highest(s) \in Int /\ n + 1 >= Highest(s) /\ Highest(s) >= n + 1
  BY <1>1, <1>2
<1> QED BY <1>3

(* Folds for a sequence of length m. *)

Fits(g, base, seq, m) ==
  g = [s \in SUBSET (1 .. m) |->
         IF s = {} THEN base ELSE Step(g[s \ {Highest(s)}], seq[Highest(s)])]

(* The function the recursion defines exists, by induction on the length: a set without *)
(* the last index has its value already. *)

LEMMA FoldingExists ==
  ASSUME NatsHaveLeast, NEW base, NEW seq, NEW n \in Nat
  PROVE  \E g : Fits(g, base, seq, n)
<1> DEFINE T == {m \in Nat : ~ \E g : Fits(g, base, seq, m)}
<1>1. SUFFICES ASSUME T # {} PROVE FALSE
  OBVIOUS
<1>2. PICK m \in T : \A k \in T : m <= k
  <2>1. T \in SUBSET Nat OBVIOUS
  <2> HIDE DEF T
  <2> QED BY <1>1, <2>1 DEF NatsHaveLeast
<1>3. CASE m = 0
  <2> DEFINE g == [s \in SUBSET (1 .. m) |-> base]
  <2>1. SUBSET (1 .. m) = {{}}
    BY <1>3
  <2>2. Fits(g, base, seq, m)
    BY <2>1 DEF Fits
  <2> QED BY <2>2
<1>4. CASE m # 0
  <2>1. m \in Nat /\ m - 1 \in Nat /\ m - 1 \notin T
    BY <1>2, <1>4
  <2>2. PICK h : Fits(h, base, seq, m - 1)
    BY <2>1
  <2> DEFINE val(s) == IF m \in s THEN Step(h[s \ {m}], seq[m]) ELSE h[s]
             g == [s \in SUBSET (1 .. m) |-> val(s)]
             body(s) == IF s = {} THEN base ELSE Step(g[s \ {Highest(s)}], seq[Highest(s)])
  <2>3. ASSUME NEW s \in SUBSET (1 .. m) PROVE val(s) = body(s)
    <3>1. CASE m \in s
      <4>1. Highest(s) = m
        <5>1. m = (m - 1) + 1 BY <2>1
        <5> QED BY <5>1, <2>1, <3>1, HighestIs
      <4>2. s \ {m} \in SUBSET (1 .. m) /\ m \notin s \ {m} BY <3>1
      <4>3. g[s \ {m}] = h[s \ {m}] BY <4>2
      <4> QED BY <3>1, <4>1, <4>3
    <3>2. CASE m \notin s
      <4>1. s \in SUBSET (1 .. m - 1)
        BY <2>1, <3>2
      <4>2. h[s] = IF s = {} THEN base ELSE Step(h[s \ {Highest(s)}], seq[Highest(s)])
        BY <2>2, <4>1 DEF Fits
      <4>3. s \ {Highest(s)} \in SUBSET (1 .. m) /\ m \notin s \ {Highest(s)}
        BY <3>2
      <4>4. g[s \ {Highest(s)}] = h[s \ {Highest(s)}]
        BY <4>3
      <4> QED BY <3>2, <4>2, <4>4
    <3> QED BY <3>1, <3>2
  <2>4. g = [s \in SUBSET (1 .. m) |-> body(s)]
    <3> HIDE DEF val, body
    <3> QED BY <2>3
  <2>5. Fits(g, base, seq, m)
    <3> HIDE DEF val, g
    <3> QED BY <2>4 DEF Fits
  <2> QED BY <2>5
<1> QED BY <1>3, <1>4

(* A chain of sets S[0], ..., S[n] such that the base is in the first and each step leads from *)
(* one to the next has the result of the fold in its last. *)

LEMMA FoldKeeps ==
  ASSUME NatsHaveLeast, NEW n \in Nat, NEW seq, DOMAIN seq = 1 .. n, NEW base, NEW S,
         base \in S[0],
         \A i \in 1 .. n : \A t \in S[i - 1] : Step(t, seq[i]) \in S[i]
  PROVE  Fold(base, seq) \in S[n]
<1> DEFINE f == CHOOSE f : Folds(f, base, seq)
<1>1. Folds(f, base, seq)
  <2>1. \A g : Fits(g, base, seq, n) <=> Folds(g, base, seq)
    BY DEF Fits, Folds
  <2>2. \E g : Folds(g, base, seq)
    BY <2>1, FoldingExists
  <2> QED BY <2>2
<1> HIDE DEF f
<1>2. \A s \in SUBSET (1 .. n) : f[s] = IF s = {} THEN base ELSE Step(f[s \ {Highest(s)}], seq[Highest(s)])
  BY <1>1 DEF Folds
<1> DEFINE T == {m \in Nat : m <= n /\ f[1 .. m] \notin S[m]}
<1>3. SUFFICES ASSUME T # {} PROVE FALSE
  <2>1. Fold(base, seq) = f[1 .. n]
    BY DEF Fold, f
  <2>2. CASE T = {}
    BY <2>1, <2>2
  <2> QED BY <2>2
<1>4. PICK m \in T : \A k \in T : m <= k
  <2>1. T \in SUBSET Nat OBVIOUS
  <2> HIDE DEF T
  <2> QED BY <1>3, <2>1 DEF NatsHaveLeast
<1>5. m # 0
  <2>1. 1 .. 0 = {} OBVIOUS
  <2>2. f[{}] = base BY <1>2
  <2> QED BY <2>1, <2>2
<1>6. m \in Nat /\ m - 1 \in Nat /\ m <= n /\ m \in 1 .. n /\ f[1 .. m - 1] \in S[m - 1]
  BY <1>4, <1>5
<1>7. f[1 .. m] = Step(f[1 .. m - 1], seq[m])
  <2> HIDE DEF T
  <2> DEFINE s == 1 .. m
  <2>1. s \in SUBSET (1 .. n) /\ s # {} /\ m \in s /\ s \ {m} = 1 .. m - 1
    <3>1. n \in Nat /\ m \in Nat /\ 1 <= m /\ m <= n
      BY <1>6
    <3>2. s \in SUBSET (1 .. n) /\ m \in s
      BY <3>1
    <3>3. s \ {m} = 1 .. m - 1
      BY <3>1
    <3> QED BY <3>2, <3>3
  <2>2. Highest(s) = m
    <3>1. m = (m - 1) + 1 BY <1>6
    <3>2. s \in SUBSET (1 .. (m - 1) + 1) /\ (m - 1) + 1 \in s BY <1>6
    <3> HIDE DEF s
    <3>3. Highest(s) = (m - 1) + 1 BY <1>6, <3>2, HighestIs
    <3> QED BY <3>1, <3>3
  <2> HIDE DEF s
  <2>3. f[s] = Step(f[s \ {m}], seq[m])
    BY <1>2, <2>1, <2>2
  <2> QED BY <2>1, <2>3 DEF s
<1>8. f[1 .. m] \in S[m]
  BY <1>6, <1>7
<1> QED BY <1>4, <1>8

(* The fold of a sequence is the last step from the fold of its front. *)

LEMMA FoldEmpty ==
  ASSUME NatsHaveLeast, NEW seq, DOMAIN seq = 1 .. 0, NEW base PROVE  Fold(base, seq) = base
<1> DEFINE S == [i \in 0 .. 0 |-> {base}]
<1>1. Fold(base, seq) \in S[0]
  <2>1. base \in S[0] /\ \A i \in 1 .. 0 : \A t \in S[i - 1] : Step(t, seq[i]) \in S[i]
    OBVIOUS
  <2> HIDE DEF S
  <2> QED BY <2>1, FoldKeeps
<1> QED BY <1>1

LEMMA FoldAppended ==
  ASSUME NatsHaveLeast, NEW n \in Nat, NEW seq, DOMAIN seq = 1 .. n + 1, NEW front, DOMAIN front = 1 .. n,
         \A i \in 1 .. n : front[i] = seq[i], NEW base
  PROVE  Fold(base, seq) = Step(Fold(base, front), seq[n + 1])
<1> DEFINE f == CHOOSE f : Folds(f, base, seq)
           S == [i \in 0 .. n |-> {f[1 .. i]}]
<1>1. Folds(f, base, seq)
  <2>1. n + 1 \in Nat /\ \A g : Fits(g, base, seq, n + 1) <=> Folds(g, base, seq)
    BY DEF Fits, Folds
  <2>2. \E g : Folds(g, base, seq)
    BY <2>1, FoldingExists
  <2> QED BY <2>2
<1>2. Fold(base, seq) = f[1 .. n + 1]
  BY DEF Fold
<1> HIDE DEF f
<1>3. \A s \in SUBSET (1 .. n + 1) : f[s] = IF s = {} THEN base ELSE Step(f[s \ {Highest(s)}], seq[Highest(s)])
  BY <1>1 DEF Folds
<1>4. ASSUME NEW i \in 1 .. n + 1 PROVE f[1 .. i] = Step(f[1 .. i - 1], seq[i])
  <2> DEFINE s == 1 .. i
             j == i - 1
  <2>1. s \in SUBSET (1 .. n + 1) /\ s # {} /\ i \in s /\ s \ {i} = 1 .. i - 1
    OBVIOUS
  <2>2. Highest(s) = i
    <3>1. j \in Nat /\ i = j + 1 /\ s \in SUBSET (1 .. j + 1) /\ j + 1 \in s
      OBVIOUS
    <3> HIDE DEF s, j
    <3>2. Highest(s) = j + 1
      BY <3>1, HighestIs
    <3> QED BY <3>1, <3>2
  <2> HIDE DEF s, j
  <2>3. f[s] = Step(f[s \ {i}], seq[i])
    BY <1>3, <2>1, <2>2
  <2> QED BY <2>1, <2>3 DEF s
<1>5. base \in S[0]
  <2>1. f[{}] = base
    BY <1>3
  <2>2. 1 .. 0 = {}
    OBVIOUS
  <2> QED BY <2>1, <2>2
<1>6. ASSUME NEW i \in 1 .. n, NEW t \in S[i - 1] PROVE Step(t, front[i]) \in S[i]
  <2>1. i - 1 \in 0 .. n /\ i \in 0 .. n /\ i \in 1 .. n + 1
    OBVIOUS
  <2>2. t = f[1 .. i - 1]
    BY <2>1
  <2>3. Step(t, front[i]) = f[1 .. i]
    BY <1>4, <2>1, <2>2
  <2> QED BY <2>1, <2>3
<1>7. S[n] = {f[1 .. n]}
  OBVIOUS
<1> HIDE DEF S
<1>8. Fold(base, front) \in S[n]
  BY <1>5, <1>6, FoldKeeps
<1>9. Fold(base, front) = f[1 .. n]
  BY <1>7, <1>8
<1>10. f[1 .. n + 1] = Step(f[1 .. n], seq[n + 1])
  <2>1. n + 1 \in 1 .. n + 1 /\ n + 1 - 1 = n
    OBVIOUS
  <2> QED BY <1>4, <2>1
<1> QED BY <1>2, <1>9, <1>10
==============================================================================
