---------------------------- MODULE BlockingProofs ----------------------------
(***************************************************************************)
(* For any clients, lists and calls: an element that was pushed is in one  *)
(* place, readers get entries once and in order and miss only those of the *)
(* same millisecond, calls and answers agree, and nil is the answer only   *)
(* when time is up.  What a step does to the lists and to the answers is   *)
(* stated over them as values, so that an action is one or two of these    *)
(* facts.                                                                  *)
(***************************************************************************)
EXTENDS Blocking, SequenceTheorems, FiniteSetTheorems, TLAPS

(* A sequence with one more at its end. *)

LEMMA Appended ==
  ASSUME NEW S, NEW q \in Seq(S), NEW x \in S
  PROVE  /\ Append(q, x) \in Seq(S) /\ Len(q) \in Nat /\ Len(Append(q, x)) = Len(q) + 1
         /\ DOMAIN q = 1 .. Len(q) /\ DOMAIN Append(q, x) = 1 .. Len(q) + 1
         /\ \A i \in DOMAIN q : Append(q, x)[i] = q[i]
         /\ Append(q, x)[Len(q) + 1] = x
<1>1. /\ Append(q, x) \in Seq(S) /\ Len(Append(q, x)) = Len(q) + 1
      /\ \A i \in 1 .. Len(q) : Append(q, x)[i] = q[i]
      /\ Append(q, x)[Len(q) + 1] = x
  BY AppendProperties
<1>2. Len(q) \in Nat /\ DOMAIN q = 1 .. Len(q) /\ DOMAIN Append(q, x) = 1 .. Len(Append(q, x))
  BY <1>1, LenProperties
<1> QED BY <1>1, <1>2

(* The beginnings of a sequence do not notice what comes at its end. *)

LEMMA AppendedFrom ==
  ASSUME NEW S, NEW q \in Seq(S), NEW x \in S, NEW i \in 1 .. Len(q) + 1
  PROVE  /\ SubSeq(Append(q, x), 1, i - 1) = SubSeq(q, 1, i - 1)
         /\ SubSeq(Append(q, x), 1, Len(q)) = q
<1>1. /\ Append(q, x) \in Seq(S) /\ Len(q) \in Nat /\ Len(Append(q, x)) = Len(q) + 1
      /\ DOMAIN q = 1 .. Len(q)
      /\ \A j \in DOMAIN q : Append(q, x)[j] = q[j]
  BY Appended
<1>2. ASSUME NEW n \in 0 .. Len(q) PROVE SubSeq(Append(q, x), 1, n) = SubSeq(q, 1, n)
  <2>1. \A j \in 1 .. n : q[j] = Append(q, x)[j] /\ q[j] \in S
    BY <1>1, ElementOfSeq
  <2>2. /\ SubSeq(q, 1, n) \in Seq(S) /\ Len(SubSeq(q, 1, n)) = IF 1 <= n THEN n - 1 + 1 ELSE 0
        /\ \A j \in 1 .. n - 1 + 1 : SubSeq(q, 1, n)[j] = q[1 + j - 1]
    BY <2>1, SubSeqProperties
  <2>3. /\ SubSeq(Append(q, x), 1, n) \in Seq(S)
        /\ Len(SubSeq(Append(q, x), 1, n)) = IF 1 <= n THEN n - 1 + 1 ELSE 0
        /\ \A j \in 1 .. n - 1 + 1 : SubSeq(Append(q, x), 1, n)[j] = Append(q, x)[1 + j - 1]
    BY <2>1, SubSeqProperties
  <2> DEFINE a == SubSeq(q, 1, n)
             b == SubSeq(Append(q, x), 1, n)
  <2>4. a \in Seq(S) /\ b \in Seq(S) /\ Len(a) = n /\ Len(b) = n
    BY <2>2, <2>3
  <2>5. \A j \in 1 .. n : a[j] = b[j]
    <3> HIDE DEF a, b
    <3> TAKE j \in 1 .. n
    <3>1. a[j] = q[j] /\ b[j] = Append(q, x)[j]
      <4>1. j \in 1 .. n - 1 + 1 /\ 1 + j - 1 = j OBVIOUS
      <4>2. a[j] = q[1 + j - 1] BY <2>2, <4>1 DEF a
      <4>3. b[j] = Append(q, x)[1 + j - 1] BY <2>3, <4>1 DEF b
      <4> QED BY <4>1, <4>2, <4>3
    <3> QED BY <2>1, <3>1
  <2> HIDE DEF a, b
  <2>6. a = b
    BY <2>4, <2>5, SeqEqual
  <2> QED BY <2>6 DEF a, b
<1>3. SubSeq(q, 1, Len(q)) = q
  BY SubSeqFull
<1>4. i - 1 \in 0 .. Len(q) /\ Len(q) \in 0 .. Len(q)
  BY <1>1
<1> QED BY <1>2, <1>3, <1>4

(* A sequence without its first, and without its last. *)

LEMMA FirstOut ==
  ASSUME NEW S, NEW s \in Seq(S), s # <<>>
  PROVE  /\ Tail(s) \in Seq(S) /\ DOMAIN s = 1 .. Len(s) /\ DOMAIN Tail(s) = 1 .. Len(s) - 1
         /\ Len(s) \in Nat \ {0} /\ Head(s) = s[1] /\ s[1] \in S
         /\ \A i \in DOMAIN Tail(s) : Tail(s)[i] = s[i + 1]
<1>1. Tail(s) \in Seq(S) /\ Len(Tail(s)) = Len(s) - 1 /\ \A i \in 1 .. Len(Tail(s)) : Tail(s)[i] = s[i + 1]
  BY HeadTailProperties
<1>2. Len(s) \in Nat /\ Len(s) # 0 /\ DOMAIN s = 1 .. Len(s) /\ DOMAIN Tail(s) = 1 .. Len(Tail(s))
  BY <1>1, LenProperties, EmptySeq
<1>3. Head(s) = s[1] /\ s[1] \in S
  BY <1>2, ElementOfSeq
<1> QED BY <1>1, <1>2, <1>3

LEMMA LastOut ==
  ASSUME NEW S, NEW s \in Seq(S), s # <<>>
  PROVE  /\ Front(s) \in Seq(S) /\ DOMAIN s = 1 .. Len(s) /\ DOMAIN Front(s) = 1 .. Len(s) - 1
         /\ Len(s) \in Nat \ {0} /\ Last(s) = s[Len(s)] /\ s[Len(s)] \in S
         /\ \A i \in DOMAIN Front(s) : Front(s)[i] = s[i]
<1>1. Len(s) \in Nat \ {0} /\ DOMAIN s = 1 .. Len(s) /\ s[Len(s)] \in S
  BY FirstOut, ElementOfSeq
<1>2. \A i \in 1 .. Len(s) - 1 : s[i] \in S
  BY <1>1, ElementOfSeq
<1>3. /\ SubSeq(s, 1, Len(s) - 1) \in Seq(S)
      /\ Len(SubSeq(s, 1, Len(s) - 1)) = IF 1 <= Len(s) - 1 THEN (Len(s) - 1) - 1 + 1 ELSE 0
      /\ \A i \in 1 .. (Len(s) - 1) - 1 + 1 : SubSeq(s, 1, Len(s) - 1)[i] = s[1 + i - 1]
  BY <1>1, <1>2, SubSeqProperties
<1>4. Front(s) = SubSeq(s, 1, Len(s) - 1) /\ Last(s) = s[Len(s)]
  BY DEF Front, Last
<1>5. Front(s) \in Seq(S) /\ Len(Front(s)) = Len(s) - 1 /\ \A i \in 1 .. Len(s) - 1 : Front(s)[i] = s[i]
  BY <1>1, <1>3, <1>4
<1>6. DOMAIN Front(s) = 1 .. Len(s) - 1
  BY <1>5, LenProperties
<1> QED BY <1>1, <1>4, <1>5, <1>6
------------------------------------------------------------------------------
(* The lists, as a value. *)

HeldIn(l) == UNION {Range(l[k]) : k \in List}

InOneList(l) ==
  \A a, b \in List : \A i \in DOMAIN l[a], j \in DOMAIN l[b] : l[a][i] = l[b][j] => a = b /\ i = j

LEMMA HeldMeans ==
  ASSUME NEW l, NEW v PROVE v \in HeldIn(l) <=> \E a \in List : \E i \in DOMAIN l[a] : l[a][i] = v
BY DEF HeldIn, Range

(* One place is taken out of a list: what was there is held no longer, and all else is. *)

Without(s, t, r) ==
  /\ r \in DOMAIN s /\ DOMAIN s \subseteq Nat /\ DOMAIN t \subseteq Nat
  /\ \E d \in Nat : \A i \in DOMAIN t :
       i + (IF i < r THEN 0 ELSE d) \in DOMAIN s \ {r} /\ t[i] = s[i + (IF i < r THEN 0 ELSE d)]
  /\ \A j \in DOMAIN s : j # r => \E i \in DOMAIN t : t[i] = s[j]

LEMMA TakenOut ==
  ASSUME NEW l, InOneList(l), NEW k \in List, NEW t, NEW r, DOMAIN l = List, Without(l[k], t, r)
  PROVE  /\ InOneList([l EXCEPT ![k] = t])
         /\ HeldIn([l EXCEPT ![k] = t]) = HeldIn(l) \ {l[k][r]} /\ l[k][r] \in HeldIn(l)
<1>0. PICK d \in Nat : \A i \in DOMAIN t :
        i + (IF i < r THEN 0 ELSE d) \in DOMAIN l[k] \ {r} /\ t[i] = l[k][i + (IF i < r THEN 0 ELSE d)]
  BY DEF Without
<1> DEFINE m == [l EXCEPT ![k] = t]
           Old(a, i) == IF a # k \/ i < r THEN i ELSE i + d
<1>1. m[k] = t /\ \A a \in List : a # k => m[a] = l[a]
  OBVIOUS
<1> HIDE DEF m
<1>2. ASSUME NEW a \in List, NEW i \in DOMAIN m[a]
      PROVE  Old(a, i) \in DOMAIN l[a] /\ m[a][i] = l[a][Old(a, i)] /\ ~(a = k /\ Old(a, i) = r)
  <2>1. CASE a # k
    BY <1>1, <2>1
  <2>2. CASE a = k
    <3>1. i \in DOMAIN t /\ i \in Nat /\ r \in Nat
      BY <1>1, <2>2 DEF Without
    <3>2. CASE i < r
      BY <1>0, <1>1, <2>2, <3>1, <3>2
    <3>3. CASE ~(i < r)
      BY <1>0, <1>1, <2>2, <3>1, <3>3
    <3> QED BY <3>2, <3>3
  <2> QED BY <2>1, <2>2
<1>3. InOneList(m)
  <2> SUFFICES ASSUME NEW a \in List, NEW b \in List, NEW i \in DOMAIN m[a], NEW j \in DOMAIN m[b],
                      m[a][i] = m[b][j]
               PROVE  a = b /\ i = j
    BY DEF InOneList
  <2>1. a = b /\ Old(a, i) = Old(b, j)
    BY <1>2 DEF InOneList
  <2>2. CASE a # k
    BY <2>1, <2>2
  <2>3. CASE a = k
    <3>1. i \in DOMAIN t /\ j \in DOMAIN t /\ i \in Nat /\ j \in Nat /\ r \in Nat
      BY <1>1, <2>1, <2>3 DEF Without
    <3>2. Old(k, i) # r /\ Old(k, j) # r /\ Old(k, i) = Old(k, j)
      BY <1>2, <2>1, <2>3
    <3> QED BY <2>1, <2>3, <3>1, <3>2
  <2> QED BY <2>2, <2>3
<1>4. ASSUME NEW v \in HeldIn(m) PROVE v \in HeldIn(l) /\ v # l[k][r]
  <2>1. PICK a \in List : \E i \in DOMAIN m[a] : m[a][i] = v
    BY HeldMeans
  <2>2. PICK i \in DOMAIN m[a] : m[a][i] = v
    BY <2>1
  <2>3. Old(a, i) \in DOMAIN l[a] /\ v = l[a][Old(a, i)] /\ ~(a = k /\ Old(a, i) = r)
    BY <1>2, <2>2
  <2>4. v \in HeldIn(l)
    BY <2>3, HeldMeans
  <2> HIDE DEF Old
  <2>5. v # l[k][r]
    BY <2>3 DEF InOneList, Without
  <2> QED BY <2>4, <2>5
<1>5. ASSUME NEW v \in HeldIn(l), v # l[k][r] PROVE v \in HeldIn(m)
  <2>1. PICK a \in List : \E i \in DOMAIN l[a] : l[a][i] = v
    BY HeldMeans
  <2>2. PICK i \in DOMAIN l[a] : l[a][i] = v
    BY <2>1
  <2>3. \E j \in DOMAIN m[a] : m[a][j] = v
    <3>1. CASE a # k
      BY <1>1, <2>2, <3>1
    <3>2. CASE a = k
      BY <1>1, <1>5, <2>2, <3>2 DEF Without
    <3> QED BY <3>1, <3>2
  <2> QED BY <2>3, HeldMeans
<1>6. l[k][r] \in HeldIn(l)
  BY HeldMeans DEF Without
<1>7. HeldIn(m) = HeldIn(l) \ {l[k][r]}
  BY <1>4, <1>5
<1> QED BY <1>3, <1>6, <1>7 DEF m

LEMMA HeadOut ==
  ASSUME NEW S, NEW l \in [List -> Seq(S)], InOneList(l), NEW k \in List, l[k] # <<>>
  PROVE  /\ [l EXCEPT ![k] = Tail(@)] \in [List -> Seq(S)] /\ InOneList([l EXCEPT ![k] = Tail(@)])
         /\ HeldIn([l EXCEPT ![k] = Tail(@)]) = HeldIn(l) \ {Head(l[k])}
         /\ Head(l[k]) \in HeldIn(l) /\ Head(l[k]) \in S
<1> DEFINE s == l[k]
           t == Tail(s)
<1>1. /\ t \in Seq(S) /\ DOMAIN s = 1 .. Len(s) /\ DOMAIN t = 1 .. Len(s) - 1
      /\ Len(s) \in Nat \ {0} /\ Head(s) = s[1] /\ s[1] \in S
      /\ \A i \in DOMAIN t : t[i] = s[i + 1]
  BY FirstOut
<1> HIDE DEF s, t
<1>2. \A i \in DOMAIN t : i + (IF i < 1 THEN 0 ELSE 1) \in DOMAIN s \ {1} /\ t[i] = s[i + (IF i < 1 THEN 0 ELSE 1)]
  <2> TAKE i \in DOMAIN t
  <2>1. (IF i < 1 THEN 0 ELSE 1) = 1 /\ i + 1 \in DOMAIN s \ {1}
    BY <1>1
  <2> QED BY <1>1, <2>1
<1>3. \A j \in DOMAIN s : j # 1 => \E i \in DOMAIN t : t[i] = s[j]
  <2> TAKE j \in DOMAIN s
  <2> HAVE j # 1
  <2>1. j - 1 \in DOMAIN t /\ (j - 1) + 1 = j
    BY <1>1
  <2> QED BY <1>1, <2>1
<1>4. /\ 1 \in DOMAIN s /\ 1 \in Nat /\ DOMAIN s \subseteq Nat /\ DOMAIN t \subseteq Nat /\ DOMAIN l = List
  BY <1>1
<1>5. /\ InOneList([l EXCEPT ![k] = t])
      /\ HeldIn([l EXCEPT ![k] = t]) = HeldIn(l) \ {s[1]} /\ s[1] \in HeldIn(l)
  <2>1. Without(s, t, 1)
    BY <1>2, <1>3, <1>4 DEF Without
  <2> QED BY <1>4, <2>1, TakenOut DEF s
<1>6. [l EXCEPT ![k] = t] = [l EXCEPT ![k] = Tail(@)]
  BY DEF s, t
<1>7. [l EXCEPT ![k] = t] \in [List -> Seq(S)]
  BY <1>1
<1> QED BY <1>1, <1>5, <1>6, <1>7 DEF s

LEMMA EndOut ==
  ASSUME NEW S, NEW l \in [List -> Seq(S)], InOneList(l), NEW k \in List, l[k] # <<>>
  PROVE  /\ [l EXCEPT ![k] = Front(@)] \in [List -> Seq(S)] /\ InOneList([l EXCEPT ![k] = Front(@)])
         /\ HeldIn([l EXCEPT ![k] = Front(@)]) = HeldIn(l) \ {Last(l[k])}
         /\ Last(l[k]) \in HeldIn(l) /\ Last(l[k]) \in S
<1> DEFINE s == l[k]
           t == Front(s)
           n == Len(s)
<1>1. /\ t \in Seq(S) /\ DOMAIN s = 1 .. n /\ DOMAIN t = 1 .. n - 1
      /\ n \in Nat \ {0} /\ Last(s) = s[n] /\ s[n] \in S
      /\ \A i \in DOMAIN t : t[i] = s[i]
  BY LastOut
<1> HIDE DEF s, t, n
<1>2. \A i \in DOMAIN t : i + (IF i < n THEN 0 ELSE 0) \in DOMAIN s \ {n} /\ t[i] = s[i + (IF i < n THEN 0 ELSE 0)]
  <2> TAKE i \in DOMAIN t
  <2>1. i + (IF i < n THEN 0 ELSE 0) = i /\ i \in DOMAIN s \ {n}
    BY <1>1
  <2> QED BY <1>1, <2>1
<1>3. \A j \in DOMAIN s : j # n => \E i \in DOMAIN t : t[i] = s[j]
  <2> TAKE j \in DOMAIN s
  <2> HAVE j # n
  <2>1. j \in DOMAIN t
    BY <1>1
  <2> QED BY <1>1, <2>1
<1>4. /\ n \in DOMAIN s /\ 0 \in Nat /\ DOMAIN s \subseteq Nat /\ DOMAIN t \subseteq Nat /\ DOMAIN l = List
  BY <1>1
<1>5. /\ InOneList([l EXCEPT ![k] = t])
      /\ HeldIn([l EXCEPT ![k] = t]) = HeldIn(l) \ {s[n]} /\ s[n] \in HeldIn(l)
  <2>1. Without(s, t, n)
    BY <1>2, <1>3, <1>4 DEF Without
  <2> QED BY <1>4, <2>1, TakenOut DEF s
<1>6. [l EXCEPT ![k] = t] = [l EXCEPT ![k] = Front(@)]
  BY DEF s, t
<1>7. [l EXCEPT ![k] = t] \in [List -> Seq(S)]
  BY <1>1
<1> QED BY <1>1, <1>5, <1>6, <1>7 DEF s

(* What nobody has had is pushed. *)

LEMMA OneMore ==
  ASSUME NEW S, NEW l \in [List -> Seq(S)], InOneList(l), NEW k \in List, NEW v \in S, v \notin HeldIn(l),
         NEW m \in [List -> Seq(S)], m[k] = Append(l[k], v), \A a \in List : a # k => m[a] = l[a]
  PROVE  InOneList(m) /\ HeldIn(m) = HeldIn(l) \cup {v}
<1> DEFINE n == Len(l[k]) + 1
<1>1. /\ m[k] \in Seq(S) /\ DOMAIN m[k] = DOMAIN l[k] \cup {n} /\ n \notin DOMAIN l[k]
      /\ \A i \in DOMAIN l[k] : m[k][i] = l[k][i]
      /\ m[k][n] = v
  <2> DEFINE q == l[k]
             p == Append(q, v)
  <2>1. /\ p \in Seq(S) /\ Len(q) \in Nat /\ DOMAIN q = 1 .. Len(q) /\ DOMAIN p = 1 .. Len(q) + 1
        /\ \A i \in DOMAIN q : p[i] = q[i]
        /\ p[Len(q) + 1] = v
    BY Appended
  <2>2. m[k] = p /\ n = Len(q) + 1
    OBVIOUS
  <2> HIDE DEF p, q, n
  <2>3. /\ m[k] \in Seq(S) /\ DOMAIN m[k] = DOMAIN q \cup {n} /\ n \notin DOMAIN q
        /\ \A i \in DOMAIN q : m[k][i] = q[i]
        /\ m[k][n] = v
    BY <2>1, <2>2
  <2> QED BY <2>3 DEF q
<1>2. \A a \in List : a # k => m[a] = l[a]
  OBVIOUS
<1> HIDE DEF n
<1>3. ASSUME NEW a \in List, NEW i \in DOMAIN m[a]
      PROVE  \/ i \in DOMAIN l[a] /\ m[a][i] = l[a][i] /\ m[a][i] # v
             \/ a = k /\ i = n /\ m[a][i] = v
  <2>1. CASE a = k /\ i = n
    BY <1>1, <2>1
  <2>2. CASE ~(a = k /\ i = n)
    <3>1. i \in DOMAIN l[a] /\ m[a][i] = l[a][i]
      BY <1>1, <1>2, <2>2
    <3> QED BY <3>1, HeldMeans
  <2> QED BY <2>1, <2>2
<1>4. InOneList(m)
  BY <1>3 DEF InOneList
<1>5. ASSUME NEW w \in HeldIn(m) PROVE w \in HeldIn(l) \cup {v}
  BY <1>3, HeldMeans
<1>6. ASSUME NEW w \in HeldIn(l) \cup {v} PROVE w \in HeldIn(m)
  <2>1. CASE w = v
    BY <1>1, <2>1, HeldMeans
  <2>2. CASE w \in HeldIn(l)
    <3>1. PICK a \in List : \E i \in DOMAIN l[a] : l[a][i] = w
      BY <2>2, HeldMeans
    <3>2. \E i \in DOMAIN m[a] : m[a][i] = w
      BY <1>1, <1>2, <3>1
    <3> QED BY <3>2, HeldMeans
  <2> QED BY <1>6, <2>1, <2>2
<1>7. HeldIn(m) = HeldIn(l) \cup {v}
  BY <1>5, <1>6
<1> QED BY <1>4, <1>7
------------------------------------------------------------------------------
(* The answers, as a value. *)

AllAnswers == [Client -> Seq(AnswerType)]

ElementsIn(q) == {i \in DOMAIN q : q[i].kind = "element"}
PoppedIn(g)   == UNION {{g[c][i].values[1] : i \in ElementsIn(g[c])} : c \in Client}

InOneAnswer(g) ==
  \A c, d \in Client : \A i \in ElementsIn(g[c]), j \in ElementsIn(g[d]) :
    g[c][i].values[1] = g[d][j].values[1] => c = d /\ i = j

\* An answer with an element has nothing else.
Single(g) == \A c \in Client : \A i \in ElementsIn(g[c]) : g[c][i] = Element(g[c][i].values[1])

LEMMA PoppedMeans ==
  ASSUME NEW g, NEW v
  PROVE  v \in PoppedIn(g) <=> \E c \in Client : \E i \in ElementsIn(g[c]) : g[c][i].values[1] = v
BY DEF PoppedIn

LEMMA ElementIs == ASSUME NEW v PROVE Element(v).kind = "element" /\ Element(v).values[1] = v
BY DEF Element

\* One client has got one more answer.
OneMoreAnswer(g, h, c, x) ==
  h \in AllAnswers /\ h[c] = Append(g[c], x) /\ \A d \in Client : d # c => h[d] = g[d]

LEMMA OneMoreIs ==
  ASSUME NEW g \in AllAnswers, NEW c \in Client, NEW x \in AnswerType
  PROVE  OneMoreAnswer(g, [g EXCEPT ![c] = Append(@, x)], c, x)
BY Appended DEF OneMoreAnswer, AllAnswers

(* A client is given one more answer. *)

Adds(g, h, c, x) ==
  LET n == Len(g[c]) + 1
  IN  /\ \A d \in Client : d # c => h[d] = g[d]
      /\ DOMAIN h[c] = DOMAIN g[c] \cup {n} /\ n \notin DOMAIN g[c] /\ h[c][n] = x
      /\ \A i \in DOMAIN g[c] : h[c][i] = g[c][i]

LEMMA Answering ==
  ASSUME NEW g \in AllAnswers, NEW c \in Client, NEW x \in AnswerType, NEW h, OneMoreAnswer(g, h, c, x)
  PROVE  Adds(g, h, c, x)
<1>1. g[c] \in Seq(AnswerType)
  BY DEF AllAnswers
<1> DEFINE q == g[c]
           p == Append(q, x)
           n == Len(q) + 1
<1>2. /\ Len(q) \in Nat /\ DOMAIN q = 1 .. Len(q) /\ DOMAIN p = 1 .. Len(q) + 1
      /\ \A i \in DOMAIN q : p[i] = q[i]
      /\ p[n] = x
  BY <1>1, Appended
<1>3. h[c] = p /\ \A d \in Client : d # c => h[d] = g[d]
  BY DEF OneMoreAnswer
<1> HIDE DEF p, q
<1>4. DOMAIN p = DOMAIN q \cup {n} /\ n \notin DOMAIN q
  BY <1>2
<1> QED BY <1>2, <1>3, <1>4 DEF Adds, q

(* An answer without an element leaves the elements where they are. *)

LEMMA OtherAnswer ==
  ASSUME NEW g \in AllAnswers, NEW c \in Client, NEW x \in AnswerType, x.kind # "element",
         InOneAnswer(g), Single(g), NEW h, Adds(g, h, c, x)
  PROVE  PoppedIn(h) = PoppedIn(g) /\ InOneAnswer(h) /\ Single(h)
<1>1. ASSUME NEW d \in Client, NEW i \in ElementsIn(h[d]) PROVE i \in ElementsIn(g[d]) /\ h[d][i] = g[d][i]
  <2>1. CASE d = c
    BY <1>1, <2>1 DEF ElementsIn, Adds
  <2>2. CASE d # c
    BY <1>1, <2>2 DEF ElementsIn, Adds
  <2> QED BY <2>1, <2>2
<1>2. ASSUME NEW d \in Client, NEW i \in ElementsIn(g[d]) PROVE i \in ElementsIn(h[d]) /\ h[d][i] = g[d][i]
  <2>1. CASE d = c
    BY <1>2, <2>1 DEF ElementsIn, Adds
  <2>2. CASE d # c
    BY <1>2, <2>2 DEF ElementsIn, Adds
  <2> QED BY <2>1, <2>2
<1>3. \A v : v \in PoppedIn(h) <=> v \in PoppedIn(g)
  BY <1>1, <1>2, PoppedMeans
<1>4. InOneAnswer(h)
  BY <1>1 DEF InOneAnswer
<1>5. Single(h)
  BY <1>1 DEF Single
<1> QED BY <1>3, <1>4, <1>5

(* An element nobody has popped is given to a client. *)

LEMMA ElementAnswer ==
  ASSUME NEW g \in AllAnswers, NEW c \in Client, NEW v, NEW x \in AnswerType, x = Element(v),
         v \notin PoppedIn(g), InOneAnswer(g), Single(g), NEW h, Adds(g, h, c, x)
  PROVE  PoppedIn(h) = PoppedIn(g) \cup {v} /\ InOneAnswer(h) /\ Single(h)
<1> DEFINE n == Len(g[c]) + 1
<1>0. x.kind = "element" /\ x.values[1] = v /\ x = Element(x.values[1])
  BY ElementIs
<1> HIDE DEF n
<1>1. ASSUME NEW d \in Client, NEW i \in ElementsIn(h[d])
      PROVE  \/ i \in ElementsIn(g[d]) /\ h[d][i] = g[d][i] /\ g[d][i].values[1] # v
             \/ d = c /\ i = n /\ h[d][i] = x
  <2>1. CASE d = c
    <3>1. CASE i = n
      BY <2>1, <3>1 DEF Adds, n
    <3>2. CASE i # n
      <4>1. i \in DOMAIN g[d] /\ h[d][i] = g[d][i]
        BY <1>1, <2>1, <3>2 DEF ElementsIn, Adds, n
      <4> QED BY <1>1, <4>1, PoppedMeans DEF ElementsIn
    <3> QED BY <3>1, <3>2
  <2>2. CASE d # c
    <3>1. h[d] = g[d]
      BY <2>2 DEF Adds, n
    <3> QED BY <1>1, <3>1, PoppedMeans
  <2> QED BY <2>1, <2>2
<1>2. ASSUME NEW d \in Client, NEW i \in ElementsIn(g[d]) PROVE i \in ElementsIn(h[d]) /\ h[d][i] = g[d][i]
  <2>1. CASE d = c
    BY <1>2, <2>1 DEF ElementsIn, Adds, n
  <2>2. CASE d # c
    BY <1>2, <2>2 DEF ElementsIn, Adds, n
  <2> QED BY <2>1, <2>2
<1>3. n \in ElementsIn(h[c]) /\ h[c][n] = x
  BY <1>0 DEF ElementsIn, Adds, n
<1>4. \A w : w \in PoppedIn(h) <=> w \in PoppedIn(g) \cup {v}
  <2> TAKE w
  <2>1. ASSUME w \in PoppedIn(h) PROVE w \in PoppedIn(g) \cup {v}
    BY <1>0, <1>1, <2>1, PoppedMeans
  <2>2. ASSUME w \in PoppedIn(g) PROVE w \in PoppedIn(h)
    BY <1>2, <2>2, PoppedMeans
  <2>3. v \in PoppedIn(h)
    BY <1>0, <1>3, PoppedMeans
  <2> QED BY <2>1, <2>2, <2>3
<1>5. InOneAnswer(h)
  BY <1>0, <1>1 DEF InOneAnswer
<1>6. Single(h)
  BY <1>0, <1>1 DEF Single
<1> QED BY <1>4, <1>5, <1>6
------------------------------------------------------------------------------
(* What a client has read, as a value. *)

EntriesOf(q) == {i \in DOMAIN q : q[i].kind = "entries"}

\* m is the last entry of the answers.
LastIs(q, m) ==
  /\ m \in Nat /\ \A i \in EntriesOf(q) : Last(q[i].values) \in 0 .. m
  /\ m = 0 \/ \E i \in EntriesOf(q) : Last(q[i].values) = m

\* The entries from one up to another.
Between(m, last) == [n \in 1 .. last - m |-> m + n]

\* An identifier of the stream s.
At(s, p) == IF p = 0 THEN 0 ELSE s[p]

\* The entries es of the stream s go on from m, but for those that have m's identifier.
GoesOn(s, m, es) ==
  /\ m \in 0 .. Len(s)
  /\ \E from \in m .. Len(s) :
       /\ \E last \in from + 1 .. Len(s) : es = Between(from, last)
       /\ \A p \in m + 1 .. from : At(s, p) = At(s, m)

\* Each answer goes on where those before it ended.
Told(q, s) ==
  /\ LastIs(q, LastIn(q)) /\ LastIn(q) <= Len(s)
  /\ \A i \in EntriesOf(q) : GoesOn(s, LastIn(SubSeq(q, 1, i - 1)), q[i].values)

LEMMA LastIsLast == ASSUME NEW q, NEW m, LastIs(q, m) PROVE LastIn(q) = m
<1> DEFINE S == {0} \cup {Last(q[i].values) : i \in EntriesOf(q)}
<1>1. m \in S /\ \A x \in S : x \in Nat /\ x <= m /\ m \in Nat
  BY DEF LastIs
<1>2. Max(S) \in S /\ \A x \in S : Max(S) >= x
  <2> HIDE DEF S
  <2>1. \E y \in S : \A x \in S : y >= x
    BY <1>1
  <2> QED BY <2>1 DEF Max
<1>3. Max(S) = m
  <2> HIDE DEF S
  <2>1. Max(S) \in Nat /\ Max(S) <= m /\ Max(S) >= m /\ m \in Nat
    BY <1>1, <1>2
  <2> QED BY <2>1
<1>4. LastIn(q) = Max(S)
  BY DEF LastIn, EntriesOf
<1> QED BY <1>3, <1>4

LEMMA NothingTold == LastIs(<<>>, 0) /\ LastIn(<<>>) = 0 /\ \A s \in Seq(Nat) : Told(<<>>, s)
<1>1. EntriesOf(<<>>) = {}
  BY DEF EntriesOf
<1>2. LastIs(<<>>, 0)
  BY <1>1 DEF LastIs
<1>3. LastIn(<<>>) = 0
  BY <1>2, LastIsLast
<1>4. \A s \in Seq(Nat) : 0 <= Len(s)
  BY LenProperties
<1> QED BY <1>1, <1>2, <1>3, <1>4 DEF Told

LEMMA GoesOnMore ==
  ASSUME NEW s \in Seq(Nat), NEW t \in Seq(Nat), Len(s) <= Len(t), \A p \in 1 .. Len(s) : t[p] = s[p],
         NEW m, NEW es, GoesOn(s, m, es)
  PROVE  GoesOn(t, m, es)
<1>1. Len(s) \in Nat /\ Len(t) \in Nat /\ m \in 0 .. Len(s)
  BY LenProperties DEF GoesOn
<1>2. PICK from \in m .. Len(s) :
        /\ \E last \in from + 1 .. Len(s) : es = Between(from, last)
        /\ \A p \in m + 1 .. from : At(s, p) = At(s, m)
  BY DEF GoesOn
<1>3. PICK last \in from + 1 .. Len(s) : es = Between(from, last)
  BY <1>2
<1>4. from \in m .. Len(t) /\ last \in from + 1 .. Len(t) /\ m \in 0 .. Len(t)
  BY <1>1
<1>5. \A p \in 0 .. Len(s) : At(t, p) = At(s, p)
  BY <1>1 DEF At
<1>6. ASSUME NEW p \in m + 1 .. from PROVE At(t, p) = At(t, m)
  <2>1. p \in 0 .. Len(s)
    BY <1>1
  <2> QED BY <1>1, <1>2, <1>5, <2>1
<1> QED BY <1>3, <1>4, <1>6 DEF GoesOn

LEMMA ToldMore ==
  ASSUME NEW q, NEW s \in Seq(Nat), NEW t \in Seq(Nat), Len(s) <= Len(t),
         \A p \in 1 .. Len(s) : t[p] = s[p], Told(q, s)
  PROVE  Told(q, t)
<1>1. Len(s) \in Nat /\ Len(t) \in Nat
  BY LenProperties
<1>2. LastIs(q, LastIn(q)) /\ LastIn(q) \in Nat /\ LastIn(q) <= Len(t)
  BY <1>1 DEF Told, LastIs
<1>3. \A i \in EntriesOf(q) : GoesOn(t, LastIn(SubSeq(q, 1, i - 1)), q[i].values)
  BY GoesOnMore DEF Told
<1> QED BY <1>2, <1>3 DEF Told

LEMMA BetweenIs ==
  ASSUME NEW m \in Nat, NEW last \in Nat, m < last
  PROVE  Between(m, last) \in Seq(Nat) /\ Last(Between(m, last)) = last /\ Between(m, last) # <<>>
<1> DEFINE s == Between(m, last)
<1>1. last - m \in Nat /\ s \in [1 .. last - m -> Nat]
  BY DEF Between
<1>2. s \in Seq(Nat) /\ DOMAIN s = 1 .. last - m
  BY <1>1, IsASeq
<1>3. Len(s) = last - m
  <2> HIDE DEF s
  <2>1. Len(s) \in Nat /\ DOMAIN s = 1 .. Len(s)
    BY <1>2, LenProperties
  <2> QED BY <1>1, <1>2, <2>1
<1>4. s[last - m] = last
  BY DEF Between
<1> HIDE DEF s
<1>5. s # <<>>
  BY <1>2, <1>3, LenProperties
<1> QED BY <1>2, <1>3, <1>4, <1>5 DEF Last, s

(* An answer without entries leaves a client where it is. *)

LEMMA ToldOther ==
  ASSUME NEW q \in Seq(AnswerType), NEW x \in AnswerType, x.kind # "entries", NEW s \in Seq(Nat), Told(q, s)
  PROVE  Told(Append(q, x), s) /\ LastIn(Append(q, x)) = LastIn(q)
<1> DEFINE p == Append(q, x)
<1>1. /\ p \in Seq(AnswerType) /\ Len(q) \in Nat /\ DOMAIN q = 1 .. Len(q) /\ DOMAIN p = 1 .. Len(q) + 1
      /\ \A i \in DOMAIN q : p[i] = q[i]
      /\ p[Len(q) + 1] = x
  BY Appended
<1>2. \A i \in 1 .. Len(q) + 1 : SubSeq(p, 1, i - 1) = SubSeq(q, 1, i - 1)
  BY AppendedFrom
<1> HIDE DEF p
<1>3. EntriesOf(p) = EntriesOf(q) /\ \A i \in EntriesOf(q) : p[i] = q[i] /\ i \in 1 .. Len(q) + 1
  BY <1>1 DEF EntriesOf
<1>4. LastIs(p, LastIn(q))
  BY <1>3 DEF Told, LastIs
<1>5. LastIn(p) = LastIn(q)
  BY <1>4, LastIsLast
<1>6. Told(p, s)
  BY <1>2, <1>3, <1>4, <1>5 DEF Told
<1> QED BY <1>5, <1>6 DEF p

(* The entries that follow the last bring it further. *)

LEMMA ToldEntries ==
  ASSUME NEW q \in Seq(AnswerType), NEW x \in AnswerType, NEW s \in Seq(Nat), Told(q, s),
         x.kind = "entries", GoesOn(s, LastIn(q), x.values)
  PROVE  Told(Append(q, x), s)
<1> DEFINE p == Append(q, x)
<1>01. PICK from \in LastIn(q) .. Len(s) : \E last \in from + 1 .. Len(s) : x.values = Between(from, last)
  BY DEF GoesOn
<1>00. PICK last \in from + 1 .. Len(s) : x.values = Between(from, last)
  BY <1>01
<1>0. /\ LastIn(q) \in Nat /\ from \in Nat /\ last \in Nat /\ from < last
      /\ LastIn(q) < last /\ last <= Len(s) /\ Len(s) \in Nat
  BY LenProperties DEF Told, LastIs
<1>1. /\ p \in Seq(AnswerType) /\ Len(q) \in Nat /\ DOMAIN q = 1 .. Len(q) /\ DOMAIN p = 1 .. Len(q) + 1
      /\ \A i \in DOMAIN q : p[i] = q[i]
      /\ p[Len(q) + 1] = x
  BY Appended
<1>2. /\ \A i \in 1 .. Len(q) + 1 : SubSeq(p, 1, i - 1) = SubSeq(q, 1, i - 1)
      /\ SubSeq(p, 1, Len(q)) = q
  BY <1>1, AppendedFrom
<1> HIDE DEF p
<1>3. /\ EntriesOf(p) = EntriesOf(q) \cup {Len(q) + 1}
      /\ \A i \in EntriesOf(q) : p[i] = q[i] /\ i \in 1 .. Len(q) + 1
  BY <1>1 DEF EntriesOf
<1>4. Last(x.values) = last
  BY <1>00, <1>0, BetweenIs
<1>5. LastIs(p, last)
  <2>1. \A i \in EntriesOf(q) : Last(p[i].values) \in 0 .. last
    <3>1. \A i \in EntriesOf(q) : Last(q[i].values) \in 0 .. LastIn(q)
      BY DEF Told, LastIs
    <3> QED BY <1>0, <1>3, <3>1
  <2>2. Len(q) + 1 \in EntriesOf(p) /\ Last(p[Len(q) + 1].values) = last /\ last \in 0 .. last
    BY <1>0, <1>1, <1>3, <1>4
  <2> QED BY <1>0, <1>3, <2>1, <2>2 DEF LastIs
<1>6. LastIn(p) = last
  BY <1>5, LastIsLast
<1>7. ASSUME NEW i \in EntriesOf(p)
      PROVE  GoesOn(s, LastIn(SubSeq(p, 1, i - 1)), p[i].values)
  <2>1. CASE i \in EntriesOf(q)
    BY <1>2, <1>3, <2>1 DEF Told
  <2>2. CASE i = Len(q) + 1
    <3>1. i - 1 = Len(q)
      BY <1>1, <2>2
    <3>2. SubSeq(p, 1, i - 1) = q
      BY <1>2, <3>1
    <3> QED BY <1>1, <2>2, <3>2
  <2> QED BY <1>3, <2>1, <2>2
<1> QED BY <1>0, <1>5, <1>6, <1>7 DEF Told, p
------------------------------------------------------------------------------
(* The invariant *)

ElementsOk(l, g, t, o) ==
  /\ InOneList(l)
  /\ HeldIn(l) \cap PoppedIn(g) = {} /\ (HeldIn(l) \cup PoppedIn(g)) \cap (t \cup o) = {} /\ t \cap o = {}
  /\ \E n \in Nat : HeldIn(l) \cup PoppedIn(g) \cup t \cup o = 1 .. n

AnswersOk(g, s) == g \in AllAnswers /\ InOneAnswer(g) /\ Single(g) /\ \A c \in Client : Told(g[c], s)

StreamOk   ==
  /\ Len(stream) <= MaxPushes
  /\ \A p \in DOMAIN stream :
       stream[p] \in 1 .. now + 1 /\ \A q \in DOMAIN stream : p <= q => stream[p] <= stream[q]
LeavingOk  == \A c \in Client : conn[c] = "gone" => "gone" \in around
ReadsWhere == \A c \in Client : wait[c].kind = "read" => wait[c].after = LastRead(c)

\* What the invariant adds to what is checked: an element answer holds one element, a
\* read that waits goes on from the client's last entry, identifiers never get smaller, and
\* elements are numbered in a row, so that the next push is of one nobody has.
IInv ==
  /\ TypeOK /\ StreamOk /\ LeavingOk /\ ReadsWhere /\ NoElementIsLost /\ AnswersMatchCalls
  /\ ElementsOk(lists, got, taken, lost) /\ AnswersOk(got, stream)

(* One answer more, with no element: nil, an error, or the entries that follow. *)

LEMMA OneAnswer ==
  ASSUME NEW s \in Seq(Nat), NEW g, AnswersOk(g, s), NEW c \in Client,
         NEW x \in AnswerType, x.kind # "element",
         x.kind = "entries" => GoesOn(s, LastIn(g[c]), x.values),
         NEW h, OneMoreAnswer(g, h, c, x)
  PROVE  /\ AnswersOk(h, s) /\ PoppedIn(h) = PoppedIn(g)
         /\ x.kind # "entries" => LastIn(h[c]) = LastIn(g[c])
<1>1. /\ g \in AllAnswers /\ InOneAnswer(g) /\ Single(g) /\ \A d \in Client : Told(g[d], s)
      /\ g[c] \in Seq(AnswerType)
  BY DEF AnswersOk, AllAnswers
<1>2. h \in AllAnswers /\ h[c] = Append(g[c], x) /\ \A d \in Client : d # c => h[d] = g[d]
  BY DEF OneMoreAnswer
<1>3. PoppedIn(h) = PoppedIn(g) /\ InOneAnswer(h) /\ Single(h)
  BY <1>1, Answering, OtherAnswer
<1>4. Told(Append(g[c], x), s) /\ (x.kind # "entries" => LastIn(Append(g[c], x)) = LastIn(g[c]))
  <2>1. CASE x.kind # "entries"
    BY <1>1, <2>1, ToldOther
  <2>2. CASE x.kind = "entries"
    BY <1>1, <2>2, ToldEntries
  <2> QED BY <2>1, <2>2
<1>5. AnswersOk(h, s)
  BY <1>1, <1>2, <1>3, <1>4 DEF AnswersOk
<1> QED BY <1>2, <1>3, <1>4, <1>5

(* One answer more, with an element nobody has been given. *)

LEMMA OneElement ==
  ASSUME NEW s \in Seq(Nat), NEW g, AnswersOk(g, s), NEW c \in Client,
         NEW v, NEW x \in AnswerType, x = Element(v), v \notin PoppedIn(g),
         NEW h, OneMoreAnswer(g, h, c, x)
  PROVE  AnswersOk(h, s) /\ PoppedIn(h) = PoppedIn(g) \cup {v}
<1>1. /\ g \in AllAnswers /\ InOneAnswer(g) /\ Single(g) /\ \A d \in Client : Told(g[d], s)
      /\ g[c] \in Seq(AnswerType)
  BY DEF AnswersOk, AllAnswers
<1>2. h \in AllAnswers /\ h[c] = Append(g[c], x) /\ \A d \in Client : d # c => h[d] = g[d]
  BY DEF OneMoreAnswer
<1>3. PoppedIn(h) = PoppedIn(g) \cup {v} /\ InOneAnswer(h) /\ Single(h)
  BY <1>1, Answering, ElementAnswer
<1>4. Told(Append(g[c], x), s)
  <2>1. x.kind # "entries"
    BY ElementIs
  <2> QED BY <1>1, <2>1, ToldOther
<1> QED BY <1>1, <1>2, <1>3, <1>4 DEF AnswersOk

LEMMA AnswerKinds ==
  /\ Nil \in AnswerType /\ Nil.kind = "nil" /\ Error \in AnswerType /\ Error.kind = "error"
  /\ \A es \in Seq(1 .. MaxPushes) : Entries(es) \in AnswerType /\ Entries(es).kind = "entries" /\ Entries(es).values = es
  /\ \A v \in 1 .. MaxPushes : Element(v) \in AnswerType
<1>1. <<>> \in Seq(1 .. MaxPushes)
  BY EmptySeq
<1>2. \A v \in 1 .. MaxPushes : <<v>> \in Seq(1 .. MaxPushes)
  OBVIOUS
<1> QED BY <1>1, <1>2 DEF Nil, Error, Entries, Element, AnswerType

(* Every set of naturals that is not empty has a least element. *)

LEMMA LeastNat ==
  ASSUME NEW T \in SUBSET Nat, T # {} PROVE \E n \in T : \A m \in T : n <= m
<1> DEFINE R == OpToRel(<, Nat)
<1>1. IsWellFoundedOn(R, Nat)
  BY NatLessThanWellFounded
<1>2. \A x, y \in Nat : <<y, x>> \in R <=> y < x
  BY DEF OpToRel
<1> HIDE DEF R
<1>3. PICK n \in T : \A m \in T : ~(<<m, n>> \in R)
  BY <1>1, WFMin
<1>4. n \in Nat /\ \A m \in T : m \in Nat /\ ~(m < n)
  BY <1>2, <1>3
<1>5. \A m \in T : n <= m
  BY <1>4
<1> QED BY <1>3, <1>5

(* The stream of a state the invariant admits. *)

LEMMA StreamFits ==
  ASSUME IInv
  PROVE  /\ stream \in Seq(Nat) /\ Len(stream) \in Nat /\ DOMAIN stream = 1 .. Len(stream)
         /\ Len(stream) <= MaxPushes /\ MaxPushes \in Nat
<1>1. stream \in Seq(1 .. MaxTime + 1) /\ 1 .. MaxTime + 1 \subseteq Nat
  BY ConstantsAssumption DEF IInv, TypeOK
<1>2. stream \in Seq(Nat)
  BY <1>1, SeqMonotonic
<1> QED BY <1>2, LenProperties, ConstantsAssumption DEF IInv, StreamOk

(* A function on 1 .. n is a sequence of n. *)

LEMMA AsSeq ==
  ASSUME NEW T, NEW n \in Nat, NEW e \in [1 .. n -> T]
  PROVE  e \in Seq(T) /\ DOMAIN e = 1 .. n /\ Len(e) = n
<1>1. e \in Seq(T) /\ DOMAIN e = 1 .. n
  BY SeqDef
<1>2. Len(e) \in Nat /\ DOMAIN e = 1 .. Len(e)
  BY <1>1, LenProperties
<1>3. Len(e) = n
  <2>1. 1 .. Len(e) = 1 .. n
    BY <1>1, <1>2
  <2> QED BY <1>2, <2>1
<1> QED BY <1>1, <1>3

(* The last place up to an identifier. *)

LEMMA PastId ==
  ASSUME stream \in Seq(Nat), NEW id \in Nat
  PROVE  /\ Max({0} \cup {p \in DOMAIN stream : stream[p] <= id}) \in 0 .. Len(stream)
         /\ \A p \in DOMAIN stream : stream[p] <= id => p <= Max({0} \cup {x \in DOMAIN stream : stream[x] <= id})
         /\ Max({0} \cup {p \in DOMAIN stream : stream[p] <= id}) # 0 =>
              stream[Max({0} \cup {p \in DOMAIN stream : stream[p] <= id})] <= id
<1> DEFINE S == {0} \cup {p \in DOMAIN stream : stream[p] <= id}
           T == {k \in Nat : \A x \in S : x <= k}
<1>1. Len(stream) \in Nat /\ DOMAIN stream = 1 .. Len(stream)
  BY LenProperties
<1>2. 0 \in S /\ S \subseteq 0 .. Len(stream)
  BY <1>1
<1>3. \A p \in DOMAIN stream : stream[p] <= id => p \in S
  OBVIOUS
<1>4. \A p \in S : p # 0 => p \in DOMAIN stream /\ stream[p] <= id
  OBVIOUS
<1> HIDE DEF S
<1>5. Len(stream) \in T
  BY <1>1, <1>2
<1>6. PICK k \in T : \A j \in T : k <= j
  <2>1. T \in SUBSET Nat /\ T # {}
    BY <1>5
  <2> HIDE DEF T
  <2> QED BY <2>1, LeastNat
<1>7. k \in S
  <2>1. SUFFICES ASSUME k \notin S PROVE FALSE
    OBVIOUS
  <2>2. k \in Nat /\ k # 0 /\ \A x \in S : x \in Nat /\ x <= k /\ x # k
    BY <1>2, <2>1
  <2>3. k - 1 \in Nat /\ \A x \in S : x <= k - 1
    BY <2>2
  <2>4. k - 1 \in T
    BY <2>3
  <2>5. k <= k - 1
    BY <1>6, <2>4
  <2> QED BY <2>2, <2>5
<1>8. \A x \in S : k >= x
  BY <1>2
<1>9. Max(S) = k
  <2>1. Max(S) \in S /\ \A x \in S : Max(S) >= x
    BY <1>7, <1>8 DEF Max
  <2> DEFINE top == Max(S)
  <2>2. top \in Nat /\ top \in S /\ \A x \in S : top >= x
    <3> HIDE DEF top
    <3>1. top \in S /\ \A x \in S : top >= x
      BY <2>1 DEF top
    <3>2. top \in 0 .. Len(stream)
      BY <1>2, <3>1
    <3> QED BY <3>1, <3>2
  <2> HIDE DEF top, T
  <2>3. k \in 0 .. Len(stream) /\ top >= k /\ k >= top
    BY <1>2, <1>7, <1>8, <2>2
  <2>4. top = k
    BY <2>2, <2>3
  <2> QED BY <2>4 DEF top
<1>10. /\ Max(S) \in 0 .. Len(stream) /\ \A p \in DOMAIN stream : stream[p] <= id => p <= Max(S)
       /\ Max(S) # 0 => stream[Max(S)] <= id
  BY <1>2, <1>3, <1>4, <1>7, <1>8, <1>9
<1> QED BY <1>10 DEF S

(* What is read on from an entry are entries that go on from it, past those with its identifier. *)

LEMMA NextEntries ==
  ASSUME IInv, NEW m \in 0 .. Len(stream), NEW count \in Nat
  PROVE  /\ EntriesAfter(Id(m), count) \in Seq(1 .. MaxPushes)
         /\ EntriesAfter(Id(m), count) # <<>> => GoesOn(stream, m, EntriesAfter(Id(m), count))
<1> DEFINE id   == Id(m)
           from == Max({0} \cup {p \in DOMAIN stream : stream[p] <= id})
           last == IF from + count < Len(stream) THEN from + count ELSE Len(stream)
           es   == [n \in 1 .. last - from |-> from + n]
<1>1. /\ stream \in Seq(Nat) /\ Len(stream) \in Nat /\ DOMAIN stream = 1 .. Len(stream)
      /\ Len(stream) <= MaxPushes /\ MaxPushes \in Nat
  BY StreamFits
<1>2. id \in Nat
  BY <1>1, ElementOfSeq DEF Id
<1>3. es = EntriesAfter(Id(m), count)
  BY DEF EntriesAfter
<1>4. /\ from \in 0 .. Len(stream) /\ \A p \in DOMAIN stream : stream[p] <= id => p <= from
      /\ from # 0 => stream[from] <= id
  BY <1>1, <1>2, PastId
<1>5. \A p \in 0 .. Len(stream) : At(stream, p) = Id(p)
  BY DEF At, Id
<1>6. m # 0 => id = stream[m]
  BY DEF Id
<1>7. m = 0 => id = 0
  BY DEF Id
<1> HIDE DEF id, from
<1>8. last \in from .. Len(stream) /\ last \in Nat
  BY <1>1, <1>4
<1>9. from >= m
  <2>1. CASE m = 0
    BY <1>4, <2>1
  <2>2. CASE m # 0
    <3>1. m \in DOMAIN stream /\ stream[m] <= id
      BY <1>1, <1>2, <1>6, <2>2
    <3> QED BY <1>4, <3>1
  <2> QED BY <2>1, <2>2
<1>10. ASSUME NEW p \in m + 1 .. from PROVE At(stream, p) = At(stream, m)
  <2>1. p \in DOMAIN stream /\ from \in DOMAIN stream /\ p <= from /\ from # 0 /\ p # 0 /\ m <= p
    BY <1>1, <1>4
  <2>2. /\ stream[p] \in Nat /\ stream[from] \in Nat /\ stream[p] <= stream[from] /\ stream[p] >= 1
        /\ m # 0 => stream[m] \in Nat /\ stream[m] <= stream[p]
    <3>1. StreamOk
      BY DEF IInv
    <3>2. now \in Nat
      BY ConstantsAssumption DEF IInv, TypeOK
    <3>3. \A x \in DOMAIN stream : stream[x] \in Nat /\ stream[x] >= 1
      BY <3>1, <3>2 DEF StreamOk
    <3>4. m # 0 => m \in DOMAIN stream
      BY <1>1
    <3> QED BY <2>1, <3>1, <3>3, <3>4 DEF StreamOk
  <2>3. stream[p] <= id
    BY <1>2, <1>4, <2>1, <2>2
  <2>4. m # 0 /\ id = stream[m]
    BY <1>6, <1>7, <2>2, <2>3
  <2>5. stream[p] = stream[m]
    BY <2>2, <2>3, <2>4
  <2> QED BY <2>1, <2>4, <2>5 DEF At
<1>11. es \in Seq(1 .. MaxPushes) /\ Len(es) = last - from
  <2>1. last - from \in Nat /\ \A n \in 1 .. last - from : from + n \in 1 .. MaxPushes
    BY <1>1, <1>4, <1>8
  <2>2. es \in [1 .. last - from -> 1 .. MaxPushes]
    BY <2>1
  <2> HIDE DEF es, last
  <2> QED BY <2>1, <2>2, AsSeq
<1>12. ASSUME es # <<>> PROVE GoesOn(stream, m, es)
  <2>1. last >= from + 1
    <3> HIDE DEF es, last
    <3>1. Len(es) # 0
      BY <1>11, <1>12, EmptySeq
    <3> QED BY <1>4, <1>8, <1>11, <3>1
  <2>2. last \in from + 1 .. Len(stream) /\ from \in m .. Len(stream)
    BY <1>4, <1>8, <1>9, <2>1
  <2>3. es = Between(from, last)
    BY DEF Between
  <2> HIDE DEF es, last
  <2> QED BY <1>10, <2>2, <2>3 DEF GoesOn
<1>13. /\ EntriesAfter(Id(m), count) \in Seq(1 .. MaxPushes)
       /\ EntriesAfter(Id(m), count) # <<>> => GoesOn(stream, m, EntriesAfter(Id(m), count))
  <2> HIDE DEF es
  <2> QED BY <1>3, <1>11, <1>12
<1> QED BY <1>13
------------------------------------------------------------------------------
(* What an answer to one client keeps, whatever becomes of its wait. *)

Kept(c) ==
  /\ lists' \in [List -> Seq(1 .. MaxPushes)] /\ lost' \subseteq 1 .. MaxPushes
  /\ ElementsOk(lists', got', taken, lost') /\ AnswersOk(got', stream)
  /\ lost' # {} => "gone" \in around
  /\ \A d \in Client : d # c => got'[d] = got[d]

Given(c) == conn[c] = "open" => Len(got'[c]) = Len(got[c]) + 1

LEMMA Typed ==
  ASSUME IInv
  PROVE  /\ lists \in [List -> Seq(1 .. MaxPushes)] /\ lost \subseteq 1 .. MaxPushes /\ taken \subseteq 1 .. MaxPushes
         /\ stream \in Seq(Nat) /\ Len(stream) \in Nat /\ got \in AllAnswers
         /\ conn \in [Client -> {"open", "gone", "destroyed"}] /\ calls \in [Client -> Nat]
         /\ wait \in [Client -> WaitType] /\ now \in Nat
         /\ \A c \in Client : got[c] \in Seq(AnswerType) /\ Len(got[c]) \in Nat
         /\ \A c \in Client : LastIn(got[c]) \in 0 .. Len(stream) /\ LastRead(c) \in Nat
<1>1. TypeOK /\ AnswersOk(got, stream)
  BY DEF IInv
<1>2. stream \in Seq(Nat) /\ Len(stream) \in Nat
  BY StreamFits
<1>3. \A c \in Client : got[c] \in Seq(AnswerType) /\ Len(got[c]) \in Nat
  BY <1>1, LenProperties DEF TypeOK
<1>4. \A c \in Client : LastIn(got[c]) \in 0 .. Len(stream) /\ LastRead(c) \in Nat
  <2> TAKE c \in Client
  <2>1. LastIn(got[c]) \in 0 .. Len(stream)
    BY <1>1, <1>2 DEF AnswersOk, Told, LastIs
  <2>2. \A p \in 1 .. Len(stream) : stream[p] \in Nat
    BY <1>2, ElementOfSeq
  <2> QED BY <1>2, <2>1, <2>2 DEF LastRead, Id
<1>5. /\ lists \in [List -> Seq(1 .. MaxPushes)] /\ lost \subseteq 1 .. MaxPushes /\ taken \subseteq 1 .. MaxPushes
      /\ got \in AllAnswers /\ now \in Nat
  BY <1>1, ConstantsAssumption DEF TypeOK, AllAnswers
<1>6. /\ conn \in [Client -> {"open", "gone", "destroyed"}] /\ calls \in [Client -> Nat]
      /\ wait \in [Client -> WaitType]
  BY <1>1 DEF TypeOK
<1> QED BY <1>2, <1>3, <1>4, <1>5, <1>6

LEMMA NothingKept ==
  ASSUME IInv, UNCHANGED <<lists, lost, got>>, NEW c \in Client PROVE Kept(c)
<1>1. ElementsOk(lists, got, taken, lost) /\ AnswersOk(got, stream) /\ (lost # {} => "gone" \in around)
  BY DEF IInv, NoElementIsLost
<1> QED BY <1>1, Typed DEF Kept

(* An answer without an element. *)

LEMMA AnswerKept ==
  ASSUME IInv, NEW c \in Client, NEW x \in AnswerType, x.kind # "element",
         x.kind = "entries" => GoesOn(stream, LastIn(got[c]), x.values),
         got' = [got EXCEPT ![c] = IF conn[c] = "open" THEN Append(@, x) ELSE @], UNCHANGED <<lists, lost>>
  PROVE  Kept(c) /\ Given(c)
<1>1. CASE conn[c] = "open"
  <2>1. PICK n \in Seq(Nat) : n = stream
    BY Typed
  <2>2. PICK g \in AllAnswers : g = got
    BY Typed
  <2>3. PICK h : h = [g EXCEPT ![c] = Append(@, x)]
    OBVIOUS
  <2>4. OneMoreAnswer(g, h, c, x) /\ got' = h
    BY <1>1, <2>2, <2>3, OneMoreIs
  <2>5. x.kind = "entries" => GoesOn(n, LastIn(g[c]), x.values)
    BY <2>1, <2>2
  <2>6. AnswersOk(g, n)
    BY <2>1, <2>2 DEF IInv
  <2>7. AnswersOk(h, n) /\ PoppedIn(h) = PoppedIn(g)
    BY <2>4, <2>5, <2>6, OneAnswer
  <2>8. ElementsOk(lists, h, taken, lost) /\ (lost # {} => "gone" \in around)
    BY <2>2, <2>7 DEF IInv, ElementsOk, NoElementIsLost
  <2>9. Len(h[c]) = Len(got[c]) + 1 /\ \A d \in Client : d # c => h[d] = got[d]
    BY <2>2, <2>4, Typed, Appended DEF OneMoreAnswer
  <2> QED BY <2>1, <2>4, <2>7, <2>8, <2>9, Typed DEF Kept, Given
<1>2. CASE conn[c] # "open"
  <2>1. got' = got
    BY <1>2, Typed DEF AllAnswers
  <2> QED BY <1>2, <2>1, NothingKept DEF Given
<1> QED BY <1>1, <1>2

LEMMA TellKept ==
  ASSUME IInv, NEW c \in Client, Tell(c, Nil) PROVE Kept(c) /\ Given(c)
<1>1. PICK x \in AnswerType : x = Nil /\ x.kind = "nil"
  BY AnswerKinds
<1> QED BY <1>1, AnswerKept DEF Tell

LEMMA ReadKept ==
  ASSUME IInv, NEW c \in Client, NEW w, w.after = LastRead(c), w.count \in Nat,
         EntriesAfter(w.after, w.count) # <<>>, ReadOn(c, w)
  PROVE  Kept(c) /\ Given(c)
<1> DEFINE es == EntriesAfter(LastRead(c), w.count)
<1>1. es \in Seq(1 .. MaxPushes) /\ GoesOn(stream, LastIn(got[c]), es)
  BY Typed, NextEntries DEF LastRead
<1>2. got' = [got EXCEPT ![c] = IF conn[c] = "open" THEN Append(@, Entries(es)) ELSE @] /\ UNCHANGED <<lists, lost>>
  BY DEF ReadOn
<1> HIDE DEF es
<1>3. PICK x \in AnswerType : x = Entries(es) /\ x.kind = "entries" /\ x.values = es
  BY <1>1, AnswerKinds
<1> QED BY <1>1, <1>2, <1>3, AnswerKept

(* An element that leaves its list for a client, or with it. *)

LEMMA HandKept ==
  ASSUME IInv, NEW c \in Client, conn[c] # "destroyed", NEW v \in HeldIn(lists), v \in 1 .. MaxPushes, Hand(c, v),
         lists' \in [List -> Seq(1 .. MaxPushes)], InOneList(lists'), HeldIn(lists') = HeldIn(lists) \ {v}
  PROVE  Kept(c) /\ Given(c)
<1>1. ElementsOk(lists, got, taken, lost) /\ AnswersOk(got, stream) /\ stream \in Seq(Nat)
  BY Typed DEF IInv
<1>2. v \notin PoppedIn(got) /\ v \notin taken /\ v \notin lost
  BY <1>1 DEF ElementsOk
<1>3. CASE conn[c] = "open"
  <2>1. PICK n \in Seq(Nat) : n = stream
    BY <1>1
  <2>2. PICK g \in AllAnswers : g = got
    BY Typed
  <2>3. PICK x \in AnswerType : x = Element(v)
    BY AnswerKinds
  <2>4. PICK h : h = [g EXCEPT ![c] = Append(@, x)]
    OBVIOUS
  <2>5. OneMoreAnswer(g, h, c, x) /\ got' = h /\ lost' = lost
    BY <1>3, <2>2, <2>3, <2>4, OneMoreIs DEF Hand
  <2>6. AnswersOk(h, n) /\ PoppedIn(h) = PoppedIn(g) \cup {v}
    BY <1>1, <1>2, <2>1, <2>2, <2>3, <2>5, OneElement
  <2>7. ElementsOk(lists', h, taken, lost)
    <3>1. PICK m \in Nat : HeldIn(lists) \cup PoppedIn(got) \cup taken \cup lost = 1 .. m
      BY <1>1 DEF ElementsOk
    <3>2. HeldIn(lists') \cup PoppedIn(h) \cup taken \cup lost = 1 .. m
      BY <2>2, <2>6, <3>1
    <3> QED BY <1>1, <1>2, <2>2, <2>6, <3>2 DEF ElementsOk
  <2>8. Len(h[c]) = Len(got[c]) + 1 /\ \A d \in Client : d # c => h[d] = got[d]
    BY <2>2, <2>5, Typed, Appended DEF OneMoreAnswer
  <2>9. lost # {} => "gone" \in around
    BY DEF IInv, NoElementIsLost
  <2> QED BY <2>1, <2>5, <2>6, <2>7, <2>8, <2>9, Typed DEF Kept, Given
<1>4. CASE conn[c] # "open"
  <2>1. got' = got /\ lost' = lost \cup {v}
    BY <1>4, Typed DEF Hand, AllAnswers
  <2>2. ElementsOk(lists', got, taken, lost \cup {v})
    <3>1. PICK n \in Nat : HeldIn(lists) \cup PoppedIn(got) \cup taken \cup lost = 1 .. n
      BY <1>1 DEF ElementsOk
    <3>2. HeldIn(lists') \cup PoppedIn(got) \cup taken \cup (lost \cup {v}) = 1 .. n
      BY <3>1
    <3> QED BY <1>1, <1>2, <3>2 DEF ElementsOk
  <2>3. "gone" \in around
    BY <1>4, Typed DEF IInv, LeavingOk
  <2> QED BY <1>1, <1>4, <2>1, <2>2, <2>3, Typed DEF Kept, Given
<1> QED BY <1>3, <1>4

LEMMA PopKept ==
  ASSUME IInv, NEW c \in Client, conn[c] # "destroyed", NEW w, w.keys \in Seq(List), PopFirst(c, w)
  PROVE  Kept(c) /\ Given(c)
<1>1. PICK i \in DOMAIN w.keys :
        /\ FirstFull(w, i) /\ Hand(c, Taken(w, w.keys[i]))
        /\ lists' = [lists EXCEPT ![w.keys[i]] = IF w.right THEN Front(@) ELSE Tail(@)]
  BY DEF PopFirst
<1>2. PICK k \in List : k = w.keys[i]
  BY ElementOfSeq, LenProperties
<1>3. lists[k] # <<>> /\ Hand(c, Taken(w, k)) /\ lists' = [lists EXCEPT ![k] = IF w.right THEN Front(@) ELSE Tail(@)]
  BY <1>1, <1>2 DEF FirstFull
<1>4. lists \in [List -> Seq(1 .. MaxPushes)] /\ InOneList(lists)
  BY Typed DEF IInv, ElementsOk
<1>5. CASE w.right
  <2>1. Hand(c, Last(lists[k])) /\ lists' = [lists EXCEPT ![k] = Front(@)]
    BY <1>3, <1>5 DEF Taken
  <2>2. /\ lists' \in [List -> Seq(1 .. MaxPushes)] /\ InOneList(lists')
        /\ HeldIn(lists') = HeldIn(lists) \ {Last(lists[k])}
        /\ Last(lists[k]) \in HeldIn(lists) /\ Last(lists[k]) \in 1 .. MaxPushes
    <3> DEFINE m == [lists EXCEPT ![k] = Front(@)]
    <3>1. /\ m \in [List -> Seq(1 .. MaxPushes)] /\ InOneList(m) /\ HeldIn(m) = HeldIn(lists) \ {Last(lists[k])}
          /\ Last(lists[k]) \in HeldIn(lists) /\ Last(lists[k]) \in 1 .. MaxPushes
      BY <1>3, <1>4, EndOut
    <3>2. lists' = m
      BY <2>1
    <3> HIDE DEF m
    <3> QED BY <3>1, <3>2
  <2> QED BY <2>1, <2>2, HandKept
<1>6. CASE ~w.right
  <2>1. Hand(c, Head(lists[k])) /\ lists' = [lists EXCEPT ![k] = Tail(@)]
    BY <1>3, <1>6 DEF Taken
  <2>2. /\ lists' \in [List -> Seq(1 .. MaxPushes)] /\ InOneList(lists')
        /\ HeldIn(lists') = HeldIn(lists) \ {Head(lists[k])}
        /\ Head(lists[k]) \in HeldIn(lists) /\ Head(lists[k]) \in 1 .. MaxPushes
    <3> DEFINE m == [lists EXCEPT ![k] = Tail(@)]
    <3>1. /\ m \in [List -> Seq(1 .. MaxPushes)] /\ InOneList(m) /\ HeldIn(m) = HeldIn(lists) \ {Head(lists[k])}
          /\ Head(lists[k]) \in HeldIn(lists) /\ Head(lists[k]) \in 1 .. MaxPushes
      BY <1>3, <1>4, HeadOut
    <3>2. lists' = m
      BY <2>1
    <3> HIDE DEF m
    <3> QED BY <3>1, <3>2
  <2> QED BY <2>1, <2>2, HandKept
<1> QED BY <1>5, <1>6
------------------------------------------------------------------------------
(* The steps *)

LEMMA NoWaitKind == NoWait.kind = "none"
BY DEF NoWait

LEMMA WaitsAre ==
  ASSUME NEW w \in WaitType
  PROVE  /\ w.kind = "pop" => w.keys \in Seq(List)
         /\ w.kind = "read" => w.after \in Nat /\ w.count \in Nat
         /\ w # NoWait => (w.kind = "pop" \/ w.kind = "read") /\ w.deadline \in Nat
<1>1. CASE w = NoWait
  BY <1>1, NoWaitKind
<1>2. CASE w \in [kind : {"pop"}, keys : Seq(List), right : BOOLEAN, deadline : Nat]
  BY <1>2
<1>3. CASE w \in [kind : {"read"}, after : Nat, count : Nat, deadline : Nat]
  BY <1>3
<1> QED BY <1>1, <1>2, <1>3 DEF WaitType

LEMMA ServeKept ==
  ASSUME IInv, NEW c \in Client, conn[c] # "destroyed", NEW w \in WaitType, w # NoWait,
         w.kind = "read" => w.after = LastRead(c), Ready(w), Serve(c, w)
  PROVE  Kept(c) /\ Given(c)
<1>1. CASE w.kind = "pop"
  BY <1>1, WaitsAre, PopKept DEF Serve
<1>2. CASE w.kind = "read"
  <2>1. w.kind # "pop"
    BY <1>2
  <2>2. ReadOn(c, w) /\ EntriesAfter(w.after, w.count) # <<>>
    BY <2>1 DEF Serve, Ready
  <2> QED BY <1>2, <2>2, WaitsAre, ReadKept
<1> QED BY <1>1, <1>2, WaitsAre

(* A step of one client, from what it does to the answers, its wait and its calls. *)

LEMMA StillOk ==
  ASSUME IInv, NEW c \in Client, Kept(c), UNCHANGED <<around, taken, stream, now, conn>>,
         wait' \in [Client -> WaitType], calls' \in [Client -> Nat],
         \A d \in Client : d # c => wait'[d] = wait[d] /\ calls'[d] = calls[d],
         wait'[c].kind = "read" => wait'[c].after = Id(LastIn(got'[c])),
         "bad option" \notin around /\ conn[c] = "open" =>
           Len(got'[c]) + (IF wait'[c] = NoWait THEN 0 ELSE 1) = calls'[c]
  PROVE  IInv'
<1>1. TypeOK'
  <2>1. TypeOK BY DEF IInv
  <2>2. /\ lists' \in [List -> Seq(1 .. MaxPushes)] /\ lost' \subseteq 1 .. MaxPushes
        /\ got' \in [Client -> Seq(AnswerType)]
    BY DEF Kept, AnswersOk, AllAnswers
  <2> QED BY <2>1, <2>2 DEF TypeOK
<1>2. StreamOk' /\ LeavingOk' /\ NoElementIsLost'
  BY DEF IInv, StreamOk, LeavingOk, NoElementIsLost, Kept
<1>3. ReadsWhere'
  <2> SUFFICES ASSUME NEW d \in Client, wait'[d].kind = "read" PROVE wait'[d].after = Id(LastIn(got'[d]))
    BY DEF ReadsWhere, LastRead, Id
  <2>1. CASE d # c
    BY <2>1 DEF IInv, ReadsWhere, LastRead, Kept
  <2>2. CASE d = c
    BY <2>2
  <2> QED BY <2>1, <2>2
<1>4. AnswersMatchCalls'
  <2> SUFFICES ASSUME "bad option" \notin around, NEW d \in Client, conn[d] = "open"
               PROVE  Len(got'[d]) + (IF wait'[d] = NoWait THEN 0 ELSE 1) = calls'[d]
    BY DEF AnswersMatchCalls
  <2>1. CASE d # c
    <3>1. got'[d] = got[d] /\ wait'[d] = wait[d] /\ calls'[d] = calls[d]
      BY <2>1 DEF Kept
    <3> QED BY <3>1 DEF IInv, AnswersMatchCalls
  <2>2. CASE d = c
    BY <2>2
  <2> QED BY <2>1, <2>2
<1>5. ElementsOk(lists', got', taken', lost') /\ AnswersOk(got', stream')
  BY DEF Kept
<1> QED BY <1>1, <1>2, <1>3, <1>4, <1>5 DEF IInv

LEMMA BeginKeeps ==
  ASSUME IInv, NEW c \in Client, MayCall(c), NEW w \in WaitType, w # NoWait,
         w.kind = "read" => w.after = LastRead(c), Begin(c, w)
  PROVE  IInv'
<1>1. conn[c] = "open" /\ wait[c] = NoWait
  BY DEF MayCall
<1>2. calls' \in [Client -> Nat] /\ calls'[c] = calls[c] + 1 /\ \A d \in Client : d # c => calls'[d] = calls[d]
  BY Typed DEF Begin
<1>3. UNCHANGED <<around, taken, stream, now, conn>>
  BY DEF Begin
<1>4. "bad option" \notin around => Len(got[c]) = calls[c]
  <2>1. SUFFICES ASSUME "bad option" \notin around PROVE Len(got[c]) = calls[c]
    OBVIOUS
  <2>2. Len(got[c]) + (IF wait[c] = NoWait THEN 0 ELSE 1) = calls[c]
    BY <1>1, <2>1 DEF IInv, AnswersMatchCalls
  <2>3. Len(got[c]) + 0 = calls[c]
    BY <1>1, <2>2
  <2> QED BY <2>3, Typed
<1>5. CASE Ready(w)
  <2>1. Serve(c, w) /\ wait' = wait
    BY <1>5 DEF Begin
  <2>2. Kept(c) /\ Len(got'[c]) = Len(got[c]) + 1
    BY <1>1, <1>5, <2>1, ServeKept DEF Given
  <2>3. Len(got'[c]) + (IF wait'[c] = NoWait THEN 0 ELSE 1) = Len(got[c]) + 1
    BY <1>1, <2>1, <2>2, Typed
  <2>4. wait' \in [Client -> WaitType] /\ wait'[c].kind # "read"
    BY <1>1, <2>1, Typed, NoWaitKind
  <2>5. "bad option" \notin around => Len(got'[c]) + (IF wait'[c] = NoWait THEN 0 ELSE 1) = calls'[c]
    BY <1>2, <1>4, <2>3
  <2>6. \A d \in Client : d # c => wait'[d] = wait[d] /\ calls'[d] = calls[d]
    BY <1>2, <2>1
  <2> QED BY <1>2, <1>3, <2>2, <2>4, <2>5, <2>6, StillOk
<1>6. CASE ~Ready(w)
  <2>1. wait' = [wait EXCEPT ![c] = w] /\ UNCHANGED <<lists, lost, got>>
    BY <1>6 DEF Begin
  <2>2. Kept(c)
    BY <2>1, NothingKept
  <2>3. /\ wait' \in [Client -> WaitType] /\ wait'[c] = w
        /\ \A d \in Client : d # c => wait'[d] = wait[d] /\ calls'[d] = calls[d]
    BY <1>2, <2>1, Typed
  <2>4. "bad option" \notin around => Len(got'[c]) + (IF wait'[c] = NoWait THEN 0 ELSE 1) = calls'[c]
    BY <1>2, <1>4, <2>1, <2>3, Typed
  <2>5. wait'[c].kind = "read" => wait'[c].after = Id(LastIn(got'[c]))
    BY <2>1, <2>3 DEF LastRead
  <2> QED BY <1>2, <1>3, <2>2, <2>3, <2>4, <2>5, StillOk
<1> QED BY <1>5, <1>6

(* A call begins with a wait that suits it. *)

Begins(c) ==
  \E w \in WaitType :
    w # NoWait /\ (w.kind = "read" => w.after = LastRead(c)) /\ MayCall(c) /\ Begin(c, w)

LEMMA BPopBegins ==
  ASSUME IInv, NEW c \in Client, NEW pop \in Pops, NEW timeout \in 0 .. MaxTime,
         BPop(c, pop.keys, pop.right, timeout)
  PROVE  Begins(c)
<1>1. pop.keys \in Seq(List) /\ pop.right \in BOOLEAN /\ now + timeout \in Nat
  BY Typed, ConstantsAssumption
<1>2. PICK w : w = WaitPop(pop.keys, pop.right, now + timeout)
  OBVIOUS
<1>3. w \in WaitType /\ w.kind = "pop" /\ w # NoWait
  <2>1. w.kind = "pop"
    BY <1>2 DEF WaitPop
  <2>2. w \in WaitType
    BY <1>1, <1>2 DEF WaitPop, WaitType
  <2> QED BY <2>1, <2>2, NoWaitKind
<1>4. MayCall(c) /\ Begin(c, w)
  BY <1>2 DEF BPop
<1> QED BY <1>3, <1>4 DEF Begins

LEMMA XReadBlockBegins ==
  ASSUME IInv, NEW c \in Client, NEW block \in 0 .. MaxTime, XReadBlock(c, 1, block)
  PROVE  Begins(c)
<1> DEFINE deadline == IF block = 0 THEN Never ELSE now + block
<1>1. deadline \in Nat /\ LastRead(c) \in Nat
  BY Typed, ConstantsAssumption DEF Never
<1>2. PICK w : w = WaitRead(LastRead(c), 1, deadline)
  OBVIOUS
<1>3. MayCall(c) /\ Begin(c, w)
  BY <1>2 DEF XReadBlock
<1> HIDE DEF deadline
<1>4. w.kind = "read" /\ w.after = LastRead(c)
  BY <1>2 DEF WaitRead
<1>5. w \in WaitType /\ w # NoWait
  BY <1>1, <1>2, <1>4, NoWaitKind DEF WaitRead, WaitType
<1> QED BY <1>3, <1>4, <1>5 DEF Begins

LEMMA BeginsKeeps == ASSUME IInv, NEW c \in Client, Begins(c) PROVE IInv'
BY BeginKeeps DEF Begins

LEMMA TickKeeps == ASSUME IInv, NEW c \in Client, Tick(c) PROVE IInv'
<1>1. wait[c] # NoWait /\ wait[c] \in WaitType /\ UNCHANGED <<around, taken, stream, now, conn, calls>>
  BY Typed DEF Tick
<1>2. CASE UNCHANGED <<lists, lost, got, wait>>
  <2>1. Kept(c)
    BY <1>2, NothingKept
  <2>2. wait'[c].kind = "read" => wait'[c].after = Id(LastIn(got'[c]))
    BY <1>2 DEF IInv, ReadsWhere, LastRead
  <2>3. "bad option" \notin around /\ conn[c] = "open" =>
          Len(got'[c]) + (IF wait'[c] = NoWait THEN 0 ELSE 1) = calls'[c]
    BY <1>1, <1>2 DEF IInv, AnswersMatchCalls
  <2> QED BY <1>1, <1>2, <2>1, <2>2, <2>3, Typed, StillOk
<1>3. ASSUME wait' = [wait EXCEPT ![c] = NoWait], Kept(c), Given(c) \/ conn[c] = "destroyed"
      PROVE  IInv'
  <2>1. /\ wait' \in [Client -> WaitType] /\ wait'[c] = NoWait
        /\ \A d \in Client : d # c => wait'[d] = wait[d] /\ calls'[d] = calls[d]
    BY <1>1, <1>3, Typed DEF WaitType
  <2>2. wait'[c].kind # "read"
    BY <2>1, NoWaitKind
  <2>3. "bad option" \notin around /\ conn[c] = "open" =>
          Len(got'[c]) + (IF wait'[c] = NoWait THEN 0 ELSE 1) = calls'[c]
    <3>1. SUFFICES ASSUME "bad option" \notin around, conn[c] = "open"
                   PROVE  Len(got'[c]) + (IF wait'[c] = NoWait THEN 0 ELSE 1) = calls'[c]
      OBVIOUS
    <3>2. Len(got[c]) + 1 = calls[c] /\ Len(got'[c]) = Len(got[c]) + 1
      BY <1>1, <1>3, <3>1 DEF IInv, AnswersMatchCalls, Given
    <3> QED BY <1>1, <2>1, <3>2, Typed
  <2> QED BY <1>1, <1>3, <2>1, <2>2, <2>3, Typed, StillOk
<1>4. CASE conn[c] = "destroyed"
  <2>1. wait' = [wait EXCEPT ![c] = NoWait] /\ UNCHANGED <<lists, lost, got>>
    BY <1>4 DEF Tick
  <2> QED BY <1>3, <1>4, <2>1, NothingKept
<1>5. CASE conn[c] # "destroyed" /\ Ready(wait[c])
  <2>1. Serve(c, wait[c]) /\ wait' = [wait EXCEPT ![c] = NoWait]
    BY <1>5 DEF Tick
  <2>2. wait[c].kind = "read" => wait[c].after = LastRead(c)
    BY DEF IInv, ReadsWhere
  <2> QED BY <1>1, <1>3, <1>5, <2>1, <2>2, ServeKept
<1>6. CASE conn[c] # "destroyed" /\ ~Ready(wait[c])
  <2>1. CASE now >= wait[c].deadline
    <3>1. Tell(c, Nil) /\ wait' = [wait EXCEPT ![c] = NoWait]
      BY <1>6, <2>1 DEF Tick
    <3> QED BY <1>3, <3>1, TellKept
  <2>2. CASE ~(now >= wait[c].deadline)
    BY <1>2, <1>6, <2>2 DEF Tick
  <2> QED BY <2>1, <2>2
<1> QED BY <1>4, <1>5, <1>6

(* XREAD without BLOCK answers once, or twice when an option is bad. *)

LEMMA XReadKeeps ==
  ASSUME IInv, NEW c \in Client, NEW bad \in BOOLEAN, XRead(c, 1, bad)
  PROVE  IInv' /\ Kept(c)
<1> DEFINE es == EntriesAfter(LastRead(c), IF bad THEN MaxPushes ELSE 1)
           answer == IF es = <<>> THEN Nil ELSE Entries(es)
<1>1. /\ conn[c] = "open" /\ wait[c] = NoWait /\ (bad => "bad option" \in around)
      /\ calls' = [calls EXCEPT ![c] = @ + 1]
      /\ UNCHANGED <<around, lists, taken, lost, stream, now, conn, wait>>
  BY DEF XRead, MayCall
<1>2. got' = [got EXCEPT ![c] = @ \o (IF bad THEN <<Error>> ELSE <<>>) \o <<answer>>]
  BY DEF XRead
<1>3. PICK n \in Seq(Nat) : n = stream
  BY Typed
<1>4. PICK g \in AllAnswers : g = got
  BY Typed
<1>5. AnswersOk(g, n) /\ ElementsOk(lists, g, taken, lost) /\ g[c] \in Seq(AnswerType)
  BY <1>3, <1>4, Typed DEF IInv
<1>6. es \in Seq(1 .. MaxPushes) /\ (es # <<>> => GoesOn(n, LastIn(g[c]), es))
  <2>1. PICK m \in Nat : m = IF bad THEN MaxPushes ELSE 1
    BY ConstantsAssumption
  <2>2. LastIn(got[c]) \in 0 .. Len(stream)
    BY Typed
  <2>3. /\ EntriesAfter(Id(LastIn(got[c])), m) \in Seq(1 .. MaxPushes)
        /\ EntriesAfter(Id(LastIn(got[c])), m) # <<>> =>
             GoesOn(stream, LastIn(got[c]), EntriesAfter(Id(LastIn(got[c])), m))
    BY <2>2, NextEntries
  <2> QED BY <1>3, <1>4, <2>1, <2>3 DEF LastRead
<1> HIDE DEF es
<1>7. PICK x \in AnswerType :
        /\ x = answer /\ x.kind # "element"
        /\ x.kind = "entries" => GoesOn(n, LastIn(g[c]), x.values)
  <2>1. CASE es = <<>>
    BY <2>1, AnswerKinds
  <2>2. CASE es # <<>>
    BY <1>6, <2>2, AnswerKinds
  <2> QED BY <2>1, <2>2
<1> HIDE DEF answer
<1>8. AnswersOk(got', n) /\ PoppedIn(got') = PoppedIn(g) /\ \A d \in Client : d # c => got'[d] = got[d]
  <2>1. CASE bad
    <3>1. PICK e \in AnswerType : e = Error /\ e.kind = "error"
      BY AnswerKinds
    <3>2. PICK h : h = [g EXCEPT ![c] = Append(@, e)]
      OBVIOUS
    <3>3. OneMoreAnswer(g, h, c, e)
      BY <3>2, OneMoreIs
    <3>4. AnswersOk(h, n) /\ PoppedIn(h) = PoppedIn(g) /\ LastIn(h[c]) = LastIn(g[c])
      BY <1>5, <3>1, <3>3, OneAnswer
    <3>5. h \in AllAnswers /\ h[c] = Append(g[c], e) /\ h[c] \in Seq(AnswerType)
      BY <3>3 DEF OneMoreAnswer, AllAnswers
    <3>6. PICK k : k = [h EXCEPT ![c] = Append(@, x)]
      OBVIOUS
    <3>7. OneMoreAnswer(h, k, c, x)
      BY <3>5, <3>6, OneMoreIs
    <3>8. AnswersOk(k, n) /\ PoppedIn(k) = PoppedIn(h)
      BY <1>7, <3>4, <3>7, OneAnswer
    <3>9. got' = k
      <4>1. g[c] \o <<e>> = Append(g[c], e)
        BY <1>5, AppendIsConcat
      <4>2. Append(g[c], e) \o <<x>> = Append(h[c], x)
        BY <3>5, AppendIsConcat
      <4>3. got' = [g EXCEPT ![c] = Append(h[c], x)]
        BY <1>2, <1>4, <1>7, <2>1, <3>1, <4>1, <4>2
      <4> QED BY <3>2, <3>6, <4>3
    <3> QED BY <1>4, <3>3, <3>4, <3>7, <3>8, <3>9 DEF OneMoreAnswer
  <2>2. CASE ~bad
    <3>1. PICK h : h = [g EXCEPT ![c] = Append(@, x)]
      OBVIOUS
    <3>2. OneMoreAnswer(g, h, c, x)
      BY <3>1, OneMoreIs
    <3>3. got' = h
      <4>1. g[c] \o <<>> = g[c]
        BY <1>5, ConcatEmptySeq
      <4>2. g[c] \o <<x>> = Append(g[c], x)
        BY <1>5, AppendIsConcat
      <4> QED BY <1>2, <1>4, <1>7, <2>2, <3>1, <4>1, <4>2
    <3>4. AnswersOk(h, n) /\ PoppedIn(h) = PoppedIn(g)
      BY <1>5, <1>7, <3>2, OneAnswer
    <3> QED BY <1>4, <3>2, <3>3, <3>4 DEF OneMoreAnswer
  <2> QED BY <2>1, <2>2
<1>9. ~bad => Len(got'[c]) = Len(got[c]) + 1
  <2>1. SUFFICES ASSUME ~bad PROVE Len(got'[c]) = Len(got[c]) + 1
    OBVIOUS
  <2>2. g[c] \o <<>> = g[c] /\ g[c] \o <<x>> = Append(g[c], x)
    BY <1>5, AppendIsConcat, ConcatEmptySeq
  <2>3. got'[c] = Append(got[c], x)
    BY <1>2, <1>4, <1>7, <2>1, <2>2 DEF AllAnswers
  <2> QED BY <1>4, <1>5, <2>3, Appended
<1>10. Kept(c)
  <2>1. ElementsOk(lists, got', taken, lost) /\ (lost # {} => "gone" \in around)
    BY <1>5, <1>8 DEF IInv, ElementsOk, NoElementIsLost
  <2> QED BY <1>1, <1>3, <1>8, <2>1, Typed DEF Kept
<1>11. calls' \in [Client -> Nat] /\ calls'[c] = calls[c] + 1 /\ \A d \in Client : d # c => calls'[d] = calls[d]
  <2>1. calls' = [calls EXCEPT ![c] = @ + 1]
    BY <1>1
  <2>2. calls \in [Client -> Nat]
    BY Typed
  <2> QED BY <2>1, <2>2
<1>12. "bad option" \notin around /\ conn[c] = "open" =>
         Len(got'[c]) + (IF wait'[c] = NoWait THEN 0 ELSE 1) = calls'[c]
  <2>1. SUFFICES ASSUME "bad option" \notin around
                 PROVE  Len(got'[c]) + (IF wait'[c] = NoWait THEN 0 ELSE 1) = calls'[c]
    OBVIOUS
  <2>2. Len(got[c]) + (IF wait[c] = NoWait THEN 0 ELSE 1) = calls[c]
    BY <1>1, <2>1 DEF IInv, AnswersMatchCalls
  <2>3. Len(got'[c]) = Len(got[c]) + 1 /\ Len(got[c]) \in Nat
    BY <1>1, <1>9, <2>1, Typed
  <2>4. wait[c] = NoWait /\ wait'[c] = NoWait
    BY <1>1
  <2>5. Len(got[c]) + 0 = calls[c]
    BY <2>2, <2>4
  <2>6. Len(got'[c]) + 0 = calls'[c]
    BY <1>11, <2>3, <2>5
  <2> QED BY <2>4, <2>6
<1>13. wait'[c].kind # "read" /\ \A d \in Client : d # c => wait'[d] = wait[d] /\ calls'[d] = calls[d]
  BY <1>1, <1>11, NoWaitKind
<1> QED BY <1>1, <1>10, <1>11, <1>12, <1>13, Typed, StillOk

(* The others push, pop, add, leave and wait. *)

LEMMA PushedIs == Pushed = HeldIn(lists) \cup PoppedIn(got) \cup taken \cup lost
BY DEF Pushed, Held, Popped, Answered, HeldIn, PoppedIn, ElementsIn

LEMMA PushedInARow ==
  ASSUME IInv
  PROVE  Cardinality(Pushed) \in Nat /\ Pushed = 1 .. Cardinality(Pushed)
<1>1. PICK n \in Nat : Pushed = 1 .. n
  BY PushedIs DEF IInv, ElementsOk
<1>2. Cardinality(1 .. n) = n
  BY FS_Interval
<1> QED BY <1>1, <1>2

LEMMA PushKeeps == ASSUME IInv, NEW k \in List, Push(k) PROVE IInv'
<1>1. PICK v : v = Cardinality(Pushed) + 1
  OBVIOUS
<1>2. /\ v + Len(stream) <= MaxPushes
      /\ lists' = [lists EXCEPT ![k] = Append(@, v)]
      /\ UNCHANGED <<around, taken, lost, stream, now, conn, wait, calls, got>>
  BY <1>1 DEF Push
<1>3. PICK n \in Nat : n = Cardinality(Pushed) /\ HeldIn(lists) \cup PoppedIn(got) \cup taken \cup lost = 1 .. n
  BY PushedIs, PushedInARow
<1>4. v = n + 1 /\ v \in 1 .. MaxPushes /\ v \notin 1 .. n
  BY <1>1, <1>2, <1>3, Typed, ConstantsAssumption
<1>5. lists \in [List -> Seq(1 .. MaxPushes)] /\ InOneList(lists) /\ v \notin HeldIn(lists)
  BY <1>3, <1>4, Typed DEF IInv, ElementsOk
<1>6. /\ lists' \in [List -> Seq(1 .. MaxPushes)] /\ InOneList(lists')
      /\ HeldIn(lists') = HeldIn(lists) \cup {v}
  <2>1. PICK S : S = 1 .. MaxPushes
    OBVIOUS
  <2>2. v \in S /\ lists \in [List -> Seq(S)]
    BY <1>4, <1>5, <2>1
  <2>3. PICK m : m = [lists EXCEPT ![k] = Append(@, v)]
    OBVIOUS
  <2>4. m \in [List -> Seq(S)] /\ m[k] = Append(lists[k], v) /\ \A a \in List : a # k => m[a] = lists[a]
    BY <2>2, <2>3, AppendProperties
  <2>5. InOneList(m) /\ HeldIn(m) = HeldIn(lists) \cup {v}
    BY <1>5, <2>2, <2>4, OneMore
  <2>6. lists' = m
    BY <1>2, <2>3
  <2> QED BY <2>1, <2>4, <2>5, <2>6
<1>7. ElementsOk(lists', got, taken, lost)
  <2>1. HeldIn(lists') \cup PoppedIn(got) \cup taken \cup lost = 1 .. n + 1
    <3>1. 1 .. n + 1 = (1 .. n) \cup {n + 1}
      OBVIOUS
    <3> QED BY <1>3, <1>4, <1>6, <3>1
  <2>2. v \notin PoppedIn(got) /\ v \notin taken /\ v \notin lost
    BY <1>3, <1>4
  <2>3. n + 1 \in Nat
    OBVIOUS
  <2> QED BY <1>6, <2>1, <2>2, <2>3 DEF IInv, ElementsOk
<1>8. TypeOK'
  BY <1>2, <1>6 DEF IInv, TypeOK
<1>9. /\ StreamOk' /\ LeavingOk' /\ NoElementIsLost' /\ AnswersOk(got', stream')
      /\ ElementsOk(lists', got', taken', lost')
  BY <1>2, <1>7 DEF IInv, StreamOk, LeavingOk, NoElementIsLost
<1>10. ReadsWhere' /\ AnswersMatchCalls'
  BY <1>2 DEF IInv, ReadsWhere, LastRead, Id, AnswersMatchCalls
<1> QED BY <1>8, <1>9, <1>10 DEF IInv

LEMMA LPopKeeps == ASSUME IInv, NEW k \in List, LPop(k) PROVE IInv'
<1>1. PICK v : v = Head(lists[k])
  OBVIOUS
<1>2. /\ lists[k] # <<>> /\ taken' = taken \cup {v}
      /\ lists' = [lists EXCEPT ![k] = Tail(@)]
      /\ UNCHANGED <<around, lost, stream, now, conn, wait, calls, got>>
  BY <1>1 DEF LPop
<1>3. /\ lists' \in [List -> Seq(1 .. MaxPushes)] /\ InOneList(lists')
      /\ HeldIn(lists') = HeldIn(lists) \ {v} /\ v \in HeldIn(lists) /\ v \in 1 .. MaxPushes
  <2> DEFINE m == [lists EXCEPT ![k] = Tail(@)]
  <2>1. lists \in [List -> Seq(1 .. MaxPushes)] /\ InOneList(lists)
    BY Typed DEF IInv, ElementsOk
  <2>2. /\ m \in [List -> Seq(1 .. MaxPushes)] /\ InOneList(m) /\ HeldIn(m) = HeldIn(lists) \ {Head(lists[k])}
        /\ Head(lists[k]) \in HeldIn(lists) /\ Head(lists[k]) \in 1 .. MaxPushes
    BY <1>2, <2>1, HeadOut
  <2>3. lists' = m
    BY <1>2
  <2> HIDE DEF m
  <2> QED BY <1>1, <2>2, <2>3
<1>4. ElementsOk(lists', got, taken', lost)
  <2>1. ElementsOk(lists, got, taken, lost)
    BY DEF IInv
  <2>2. PICK n \in Nat : HeldIn(lists) \cup PoppedIn(got) \cup taken \cup lost = 1 .. n
    BY <2>1 DEF ElementsOk
  <2>3. HeldIn(lists') \cup PoppedIn(got) \cup taken' \cup lost = 1 .. n
    BY <1>2, <1>3, <2>2
  <2>4. v \notin PoppedIn(got) /\ v \notin taken /\ v \notin lost
    BY <1>3, <2>1 DEF ElementsOk
  <2>5. /\ HeldIn(lists) \cap PoppedIn(got) = {} /\ taken \cap lost = {}
        /\ (HeldIn(lists) \cup PoppedIn(got)) \cap (taken \cup lost) = {}
    BY <2>1 DEF ElementsOk
  <2>6. /\ HeldIn(lists') \cap PoppedIn(got) = {} /\ taken' \cap lost = {}
        /\ (HeldIn(lists') \cup PoppedIn(got)) \cap (taken' \cup lost) = {}
    BY <1>2, <1>3, <2>4, <2>5
  <2> QED BY <1>3, <2>2, <2>3, <2>6 DEF ElementsOk
<1>5. TypeOK'
  BY <1>2, <1>3 DEF IInv, TypeOK
<1>6. /\ StreamOk' /\ LeavingOk' /\ NoElementIsLost' /\ AnswersOk(got', stream')
      /\ ElementsOk(lists', got', taken', lost')
  BY <1>2, <1>4 DEF IInv, StreamOk, LeavingOk, NoElementIsLost
<1>7. ReadsWhere' /\ AnswersMatchCalls'
  BY <1>2 DEF IInv, ReadsWhere, LastRead, Id, AnswersMatchCalls
<1> QED BY <1>5, <1>6, <1>7 DEF IInv

LEMMA XAddKeeps == ASSUME IInv, XAdd PROVE IInv'
<1>1. PICK n \in Nat : n = Len(stream)
  BY Typed
<1>2. /\ stream' = Append(stream, now + 1) /\ UNCHANGED <<around, lists, taken, lost, now, conn, wait, calls, got>>
      /\ Cardinality(Pushed) + Len(stream) < MaxPushes
  BY DEF XAdd
<1>3. now + 1 \in 1 .. MaxTime + 1 /\ now + 1 \in Nat /\ n + 1 <= MaxPushes
  <2>1. now \in 0 .. MaxTime
    BY DEF IInv, TypeOK
  <2> QED BY <1>1, <1>2, <2>1, PushedInARow, ConstantsAssumption
<1>4. /\ stream' \in Seq(1 .. MaxTime + 1) /\ stream' \in Seq(Nat) /\ Len(stream') = n + 1
      /\ DOMAIN stream = 1 .. n /\ DOMAIN stream' = 1 .. n + 1
      /\ \A i \in DOMAIN stream : stream'[i] = stream[i]
      /\ stream'[n + 1] = now + 1
  <2>1. stream \in Seq(1 .. MaxTime + 1) /\ stream \in Seq(Nat)
    BY Typed DEF IInv, TypeOK
  <2>2. Append(stream, now + 1) \in Seq(Nat)
    BY <1>3, <2>1, AppendProperties
  <2> QED BY <1>1, <1>2, <1>3, <2>1, <2>2, Appended
<1>5. StreamOk'
  <2>1. \A i \in 1 .. n + 1 : i \in 1 .. n \/ i = n + 1
    OBVIOUS
  <2>2. \A i \in 1 .. n : stream[i] \in 1 .. now + 1 /\ \A q \in 1 .. n : i <= q => stream[i] <= stream[q]
    BY <1>4 DEF IInv, StreamOk
  <2>3. ASSUME NEW p \in 1 .. n + 1
        PROVE  stream'[p] \in 1 .. now + 1 /\ \A q \in 1 .. n + 1 : p <= q => stream'[p] <= stream'[q]
    <3>1. now + 1 \in 1 .. now + 1
      BY <1>3
    <3>2. CASE p = n + 1
      <4>1. \A q \in 1 .. n + 1 : p <= q => q = n + 1
        BY <3>2
      <4> QED BY <1>3, <1>4, <3>1, <3>2, <4>1
    <3>3. CASE p \in 1 .. n
      <4>1. stream'[p] = stream[p] /\ stream[p] \in 1 .. now + 1
        BY <1>4, <2>2, <3>3
      <4>2. ASSUME NEW q \in 1 .. n + 1, p <= q PROVE stream'[p] <= stream'[q]
        <5>1. CASE q \in 1 .. n
          BY <1>4, <2>2, <3>3, <4>1, <4>2, <5>1
        <5>2. CASE q = n + 1
          BY <1>4, <4>1, <5>2
        <5> QED BY <2>1, <5>1, <5>2
      <4> QED BY <4>1, <4>2
    <3> QED BY <2>1, <3>2, <3>3
  <2> QED BY <1>2, <1>3, <1>4, <2>3 DEF StreamOk
<1>6. AnswersOk(got', stream')
  <2>1. PICK s \in Seq(Nat) : s = stream
    BY Typed
  <2>2. PICK t \in Seq(Nat) : t = stream'
    BY <1>4
  <2>3. Len(s) <= Len(t) /\ \A p \in 1 .. Len(s) : t[p] = s[p]
    BY <1>1, <1>4, <2>1, <2>2
  <2>4. AnswersOk(got, s)
    BY <2>1 DEF IInv
  <2>5. AnswersOk(got, t)
    BY <2>3, <2>4, ToldMore DEF AnswersOk
  <2> QED BY <1>2, <2>2, <2>5
<1>7. TypeOK'
  BY <1>2, <1>4 DEF IInv, TypeOK
<1>8. LeavingOk' /\ NoElementIsLost' /\ ElementsOk(lists', got', taken', lost')
  BY <1>2 DEF IInv, LeavingOk, NoElementIsLost
<1>9. ReadsWhere' /\ AnswersMatchCalls'
  <2>1. \A c \in Client : LastRead(c)' = LastRead(c)
    <3> TAKE c \in Client
    <3>1. LastIn(got[c]) \in 0 .. n /\ got' = got
      BY <1>1, <1>2, Typed
    <3>2. \A p \in 0 .. n : (IF p = 0 THEN 0 ELSE stream'[p]) = IF p = 0 THEN 0 ELSE stream[p]
      BY <1>4
    <3> QED BY <3>1, <3>2 DEF LastRead, Id
  <2> QED BY <1>2, <2>1 DEF IInv, ReadsWhere, AnswersMatchCalls
<1> QED BY <1>5, <1>6, <1>7, <1>8, <1>9 DEF IInv

(* A socket that is left or destroyed, and the clock. *)

LEMMA CircumstanceKeeps ==
  ASSUME IInv, UNCHANGED <<around, lists, taken, lost, stream, wait, calls, got>>, now' \in 0 .. MaxTime, now' >= now,
         conn' \in [Client -> {"open", "gone", "destroyed"}],
         \A c \in Client : conn'[c] = "open" => conn[c] = "open",
         \A c \in Client : conn'[c] = "gone" => conn[c] = "gone" \/ "gone" \in around
  PROVE  IInv'
<1>1. TypeOK'
  BY DEF IInv, TypeOK
<1>2. LeavingOk' /\ NoElementIsLost'
  BY DEF IInv, LeavingOk, NoElementIsLost
<1>5. StreamOk'
  <2>1. now \in Nat /\ now' \in Nat
    BY Typed
  <2>2. \A p \in DOMAIN stream : stream[p] \in 1 .. now + 1 => stream[p] \in 1 .. now' + 1
    BY <2>1
  <2> QED BY <2>2 DEF IInv, StreamOk
<1>3. AnswersOk(got', stream') /\ ElementsOk(lists', got', taken', lost')
  BY DEF IInv
<1>4. ReadsWhere' /\ AnswersMatchCalls'
  BY DEF IInv, ReadsWhere, LastRead, Id, AnswersMatchCalls
<1> QED BY <1>1, <1>2, <1>3, <1>4, <1>5 DEF IInv

LEMMA LeaveKeeps == ASSUME IInv, NEW c \in Client, Leave(c) PROVE IInv'
<1>1. /\ conn' = [conn EXCEPT ![c] = IF "gone" \in around THEN "gone" ELSE "destroyed"]
      /\ UNCHANGED <<around, lists, taken, lost, stream, now, wait, calls, got>>
  BY DEF Leave
<1>2. now' \in 0 .. MaxTime /\ now' >= now /\ conn \in [Client -> {"open", "gone", "destroyed"}]
  BY <1>1 DEF IInv, TypeOK
<1> QED BY <1>1, <1>2, CircumstanceKeeps

LEMMA DestroyKeeps == ASSUME IInv, NEW c \in Client, Destroy(c) PROVE IInv'
<1>1. /\ conn' = [conn EXCEPT ![c] = "destroyed"]
      /\ UNCHANGED <<around, lists, taken, lost, stream, now, wait, calls, got>>
  BY DEF Destroy
<1>2. now' \in 0 .. MaxTime /\ now' >= now /\ conn \in [Client -> {"open", "gone", "destroyed"}]
  BY <1>1 DEF IInv, TypeOK
<1> QED BY <1>1, <1>2, CircumstanceKeeps

LEMMA ClockKeeps == ASSUME IInv, Clock PROVE IInv'
<1>1. now' = now + 1 /\ now < MaxTime /\ UNCHANGED <<around, lists, taken, lost, stream, conn, wait, calls, got>>
  BY DEF Clock
<1>2. now' \in 0 .. MaxTime /\ now' >= now /\ conn' \in [Client -> {"open", "gone", "destroyed"}]
  BY <1>1, ConstantsAssumption DEF IInv, TypeOK
<1> QED BY <1>1, <1>2, CircumstanceKeeps
------------------------------------------------------------------------------
(* From the invariant to what is checked *)

LEMMA InitIInv == Init => IInv
<1> SUFFICES ASSUME Init PROVE IInv
  OBVIOUS
<1>1. /\ around \in Surroundings
      /\ lists = [k \in List |-> <<>>] /\ taken = {} /\ lost = {} /\ stream = <<>> /\ now = 0
      /\ conn = [c \in Client |-> "open"] /\ wait = [c \in Client |-> NoWait]
      /\ calls = [c \in Client |-> 0] /\ got = [c \in Client |-> <<>>]
  BY DEF Init
<1>2. Len(<<>>) = 0 /\ DOMAIN <<>> = {} /\ \A S : <<>> \in Seq(S)
  BY EmptySeq
<1>3. TypeOK
  <2>1. NoWait \in WaitType
    BY DEF WaitType
  <2>2. <<>> \in Seq(1 .. MaxPushes) /\ <<>> \in Seq(AnswerType)
    BY <1>2
  <2>3. lists \in [List -> Seq(1 .. MaxPushes)] /\ stream \in Seq(1 .. MaxTime + 1) /\ got \in [Client -> Seq(AnswerType)]
    BY <1>1, <2>2
  <2>4. /\ conn \in [Client -> {"open", "gone", "destroyed"}] /\ calls \in [Client -> Nat]
        /\ wait \in [Client -> WaitType] /\ around \in SUBSET Circumstances
        /\ taken \cup lost \subseteq 1 .. MaxPushes
    BY <1>1, <2>1, ConstantsAssumption
  <2>5. now \in 0 .. MaxTime
    BY <1>1, ConstantsAssumption
  <2> QED BY <2>3, <2>4, <2>5 DEF TypeOK
<1>4. StreamOk /\ LeavingOk /\ NoElementIsLost
  BY <1>1, <1>2, ConstantsAssumption DEF StreamOk, LeavingOk, NoElementIsLost
<1>5. ReadsWhere
  BY <1>1, NoWaitKind DEF ReadsWhere
<1>6. AnswersMatchCalls
  <2>1. \A c \in Client : got[c] = <<>> /\ wait[c] = NoWait /\ calls[c] = 0
    BY <1>1
  <2>2. 0 + 0 = 0
    OBVIOUS
  <2> QED BY <1>2, <2>1, <2>2 DEF AnswersMatchCalls
<1>7. \A c \in Client : ElementsIn(got[c]) = {}
  BY <1>1, <1>2 DEF ElementsIn
<1>8. ElementsOk(lists, got, taken, lost)
  <2>1. HeldIn(lists) = {} /\ InOneList(lists)
    BY <1>1, <1>2 DEF HeldIn, InOneList, Range
  <2>2. PoppedIn(got) = {}
    BY <1>7 DEF PoppedIn
  <2>3. HeldIn(lists) \cup PoppedIn(got) \cup taken \cup lost = 1 .. 0 /\ 0 \in Nat
    <3>1. 1 .. 0 = {}
      OBVIOUS
    <3> QED BY <1>1, <2>1, <2>2, <3>1
  <2> QED BY <1>1, <2>1, <2>2, <2>3 DEF ElementsOk
<1>9. AnswersOk(got, stream)
  <2>1. \A c \in Client : Told(got[c], stream)
    BY <1>1, <1>2, NothingTold
  <2>2. InOneAnswer(got) /\ Single(got)
    BY <1>7 DEF InOneAnswer, Single
  <2> QED BY <1>3, <2>1, <2>2 DEF AnswersOk, AllAnswers, TypeOK
<1> QED BY <1>3, <1>4, <1>5, <1>6, <1>8, <1>9 DEF IInv

LEMMA NextIInv == IInv /\ [Next]_vars => IInv'
<1> SUFFICES ASSUME IInv, [Next]_vars PROVE IInv'
  OBVIOUS
<1>1. ASSUME NEW c \in Client, NEW pop \in Pops, NEW timeout \in 0 .. MaxTime,
             BPop(c, pop.keys, pop.right, timeout)
      PROVE  IInv'
  BY <1>1, BPopBegins, BeginsKeeps
<1>2. ASSUME NEW c \in Client, NEW block \in 0 .. MaxTime, XReadBlock(c, 1, block) PROVE IInv'
  BY <1>2, XReadBlockBegins, BeginsKeeps
<1>3. ASSUME NEW c \in Client, NEW bad \in BOOLEAN, XRead(c, 1, bad) PROVE IInv'
  BY <1>3, XReadKeeps
<1>4. ASSUME NEW c \in Client, Tick(c) PROVE IInv'
  BY <1>4, TickKeeps
<1>5. ASSUME NEW c \in Client, Leave(c) PROVE IInv'
  BY <1>5, LeaveKeeps
<1>6. ASSUME NEW c \in Client, Destroy(c) PROVE IInv'
  BY <1>6, DestroyKeeps
<1>7. ASSUME NEW k \in List, LPop(k) PROVE IInv'
  BY <1>7, LPopKeeps
<1>8. ASSUME NEW k \in List, Push(k) PROVE IInv'
  BY <1>8, PushKeeps
<1>9. CASE XAdd
  BY <1>9, XAddKeeps
<1>10. CASE Clock
  BY <1>10, ClockKeeps
<1>11. CASE UNCHANGED vars
  BY <1>11 DEF vars, IInv, TypeOK, StreamOk, LeavingOk, ReadsWhere, LastRead, Id, NoElementIsLost, AnswersMatchCalls
<1> QED BY <1>1, <1>2, <1>3, <1>4, <1>5, <1>6, <1>7, <1>8, <1>9, <1>10, <1>11 DEF Next

LEMMA SpecIInv == Spec => []IInv
BY InitIInv, NextIInv, PTL DEF Spec

LEMMA IInvElements == IInv => ElementsAreInOnePlace
<1> SUFFICES ASSUME IInv PROVE ElementsAreInOnePlace
  OBVIOUS
<1>1. Held = HeldIn(lists) /\ Popped = PoppedIn(got) /\ \A c \in Client : Answered(c) = ElementsIn(got[c])
  BY DEF Held, HeldIn, Popped, PoppedIn, Answered, ElementsIn
<1>2. ElementsOk(lists, got, taken, lost) /\ InOneAnswer(got)
  BY DEF IInv, AnswersOk
<1>3. ASSUME NEW c \in Client, NEW d \in Client, NEW i \in Answered(c), NEW j \in Answered(d),
             got[c][i].values = got[d][j].values
      PROVE  c = d /\ i = j
  BY <1>1, <1>2, <1>3 DEF InOneAnswer
<1>4. \A k, l \in List : \A i \in DOMAIN lists[k], j \in DOMAIN lists[l] :
        lists[k][i] = lists[l][j] => k = l /\ i = j
  BY <1>2 DEF ElementsOk, InOneList
<1>5. Held \cap Popped = {} /\ (Held \cup Popped) \cap (taken \cup lost) = {} /\ taken \cap lost = {}
  BY <1>1, <1>2 DEF ElementsOk
<1> QED BY <1>3, <1>4, <1>5, PushedInARow DEF ElementsAreInOnePlace

LEMMA IInvReaders == IInv => ReadersMissTwinsOnly
BY DEF IInv, AnswersOk, Told, GoesOn, At, Id, EntriesOf, Between, ReadersMissTwinsOnly

\* The variables have their types; an element that was pushed is in one list, one client's
\* answer, or with somebody else, whoever races for it; it is lost only with a client that
\* left unnoticed; and a client that reads on sees entries in order and none twice, and misses
\* none but those added behind the last it got in the same millisecond.
THEOREM Delivery == Spec => []DeliveredOnce
<1>1. IInv => DeliveredOnce
  BY IInvElements, IInvReaders DEF IInv, DeliveredOnce
<1> QED BY <1>1, SpecIInv, PTL

\* A client has as many answers as it made calls, the one it waits for left out.
THEOREM AnswersAndCalls == Spec => []AnswersMatchCalls
<1>1. IInv => AnswersMatchCalls
  BY DEF IInv
<1> QED BY <1>1, SpecIInv, PTL

(* An answer that is nil comes from a timer that found its time up. *)

LEMMA LastAppended == ASSUME NEW q \in Seq(AnswerType), NEW x \in AnswerType PROVE Last(Append(q, x)) = x
BY Appended DEF Last

\* What a blocking call is given when there is something for it is not nil.
LEMMA ServeIsNotNil ==
  ASSUME IInv, NEW c \in Client, NEW w \in WaitType, w # NoWait,
         w.kind = "read" => w.after = LastRead(c), Ready(w), Serve(c, w), got'[c] # got[c]
  PROVE  Last(got'[c]) # Nil
<1>1. CASE w.kind = "pop"
  <2>1. PICK i \in DOMAIN w.keys : FirstFull(w, i) /\ Hand(c, Taken(w, w.keys[i]))
    BY <1>1 DEF Serve, PopFirst
  <2>2. PICK k \in List : k = w.keys[i]
    BY <1>1, WaitsAre, ElementOfSeq, LenProperties
  <2>3. lists[k] # <<>> /\ lists[k] \in Seq(1 .. MaxPushes)
    BY <2>1, <2>2, Typed DEF FirstFull
  <2>4. PICK v \in 1 .. MaxPushes : v = Taken(w, k)
    <3>1. Taken(w, k) = Last(lists[k]) \/ Taken(w, k) = Head(lists[k])
      BY DEF Taken
    <3>2. PICK S : S = 1 .. MaxPushes
      OBVIOUS
    <3>3. Last(lists[k]) \in S /\ Head(lists[k]) \in S
      <4>1. PICK s \in Seq(S) : s = lists[k] /\ s # <<>>
        BY <2>3, <3>2
      <4>2. Head(s) = s[1] /\ s[1] \in S
        BY <4>1, FirstOut
      <4>3. Last(s) = s[Len(s)] /\ s[Len(s)] \in S
        BY <4>1, LastOut
      <4> QED BY <4>1, <4>2, <4>3
    <3> QED BY <3>1, <3>2, <3>3
  <2>5. PICK x \in AnswerType : x = Element(v) /\ x.kind = "element"
    BY AnswerKinds, ElementIs
  <2>6. got'[c] = IF conn[c] = "open" THEN Append(got[c], x) ELSE got[c]
    BY <2>1, <2>2, <2>4, <2>5, Typed DEF Hand, AllAnswers
  <2>7. Last(got'[c]) = x
    BY <2>6, Typed, LastAppended
  <2> QED BY <2>5, <2>7, AnswerKinds
<1>2. CASE w.kind = "read"
  <2>1. w.kind # "pop"
    BY <1>2
  <2>2. PICK es : es = EntriesAfter(w.after, w.count)
    OBVIOUS
  <2>3. es \in Seq(1 .. MaxPushes)
    <3>1. w.count \in Nat /\ LastIn(got[c]) \in 0 .. Len(stream) /\ w.after = Id(LastIn(got[c]))
      BY <1>2, WaitsAre, Typed DEF LastRead
    <3> QED BY <2>2, <3>1, NextEntries
  <2>4. PICK x \in AnswerType : x = Entries(es) /\ x.kind = "entries"
    BY <2>3, AnswerKinds
  <2>5. got'[c] = IF conn[c] = "open" THEN Append(got[c], x) ELSE got[c]
    BY <2>1, <2>2, <2>4, Typed DEF Serve, ReadOn, AllAnswers
  <2>6. Last(got'[c]) = x
    BY <2>5, Typed, LastAppended
  <2> QED BY <2>4, <2>6, AnswerKinds
<1> QED BY <1>1, <1>2, WaitsAre

NilInTime(c) ==
  (wait[c] # NoWait /\ got'[c] # got[c] /\ Last(got'[c]) = Nil) => ~Ready(wait[c]) /\ now >= wait[c].deadline

LEMMA TickNil == ASSUME IInv, NEW c \in Client, Tick(c) PROVE NilInTime(c)
<1> SUFFICES ASSUME wait[c] # NoWait, got'[c] # got[c], Last(got'[c]) = Nil
             PROVE  ~Ready(wait[c]) /\ now >= wait[c].deadline
  BY DEF NilInTime
<1>1. conn[c] # "destroyed"
  BY DEF Tick
<1>2. ~Ready(wait[c])
  <2>1. SUFFICES ASSUME Ready(wait[c]) PROVE FALSE
    OBVIOUS
  <2>2. Serve(c, wait[c])
    BY <1>1, <2>1 DEF Tick
  <2>3. wait[c] \in WaitType /\ (wait[c].kind = "read" => wait[c].after = LastRead(c))
    BY Typed DEF IInv, ReadsWhere
  <2> QED BY <2>1, <2>2, <2>3, ServeIsNotNil
<1>3. now >= wait[c].deadline
  BY <1>1, <1>2 DEF Tick
<1> QED BY <1>2, <1>3

LEMMA TickLeaves ==
  ASSUME IInv, NEW c \in Client, Tick(c), NEW d \in Client, d # c PROVE got'[d] = got[d]
<1>1. CASE UNCHANGED got
  BY <1>1
<1>2. CASE conn[c] # "destroyed" /\ Ready(wait[c])
  <2>1. Serve(c, wait[c]) /\ wait[c] # NoWait
    BY <1>2 DEF Tick
  <2>2. wait[c] \in WaitType /\ (wait[c].kind = "read" => wait[c].after = LastRead(c))
    BY Typed DEF IInv, ReadsWhere
  <2> QED BY <1>2, <2>1, <2>2, ServeKept DEF Kept
<1>3. CASE Tell(c, Nil)
  BY <1>3, TellKept DEF Kept
<1>4. UNCHANGED got \/ (conn[c] # "destroyed" /\ Ready(wait[c])) \/ Tell(c, Nil)
  BY DEF Tick
<1> QED BY <1>1, <1>2, <1>3, <1>4

(* Everybody else's steps leave a waiting client's answers alone. *)

LEMMA OthersAnswers ==
  ASSUME IInv, NEW c \in Client, NEW d \in Client, d # c, Kept(c) PROVE NilInTime(d)
BY DEF Kept, NilInTime

LEMMA BeginNil ==
  ASSUME IInv, NEW c \in Client, Begins(c), NEW d \in Client
  PROVE  NilInTime(d)
<1>0. PICK w \in WaitType :
        w # NoWait /\ (w.kind = "read" => w.after = LastRead(c)) /\ MayCall(c) /\ Begin(c, w)
  BY DEF Begins
<1>1. wait[c] = NoWait /\ conn[c] = "open"
  BY <1>0 DEF MayCall
<1>2. Kept(c)
  <2>1. CASE Ready(w)
    BY <1>0, <1>1, <2>1, ServeKept DEF Begin
  <2>2. CASE ~Ready(w)
    BY <1>0, <2>2, NothingKept DEF Begin
  <2> QED BY <2>1, <2>2
<1>3. CASE d = c
  BY <1>1, <1>3 DEF NilInTime
<1>4. CASE d # c
  BY <1>2, <1>4, OthersAnswers
<1> QED BY <1>3, <1>4

LEMMA QuietNil ==
  ASSUME NEW d \in Client, UNCHANGED got PROVE NilInTime(d)
BY DEF NilInTime

\* A blocking call is answered nil only by a timer that found nothing for it and its
\* deadline passed.
THEOREM NilOnlyLate == Spec => NilMeansNothingInTime
<1>1. ASSUME IInv, [Next]_vars, NEW d \in Client PROVE NilInTime(d)
  <2>1. ASSUME NEW c \in Client, NEW pop \in Pops, NEW timeout \in 0 .. MaxTime,
               BPop(c, pop.keys, pop.right, timeout)
        PROVE  NilInTime(d)
    BY <1>1, <2>1, BPopBegins, BeginNil
  <2>2. ASSUME NEW c \in Client, NEW block \in 0 .. MaxTime, XReadBlock(c, 1, block) PROVE NilInTime(d)
    BY <1>1, <2>2, XReadBlockBegins, BeginNil
  <2>3. ASSUME NEW c \in Client, NEW bad \in BOOLEAN, XRead(c, 1, bad) PROVE NilInTime(d)
    <3>1. CASE d = c
      BY <2>3, <3>1 DEF XRead, MayCall, NilInTime
    <3>2. CASE d # c
      BY <1>1, <2>3, <3>2, XReadKeeps, OthersAnswers
    <3> QED BY <3>1, <3>2
  <2>4. ASSUME NEW c \in Client, Tick(c) PROVE NilInTime(d)
    <3>1. CASE d = c
      BY <1>1, <2>4, <3>1, TickNil
    <3>2. CASE d # c
      <4>1. got'[d] = got[d]
        BY <1>1, <2>4, <3>2, TickLeaves
      <4> QED BY <4>1 DEF NilInTime
    <3> QED BY <3>1, <3>2
  <2>5. ASSUME \/ \E c \in Client : Leave(c) \/ Destroy(c)
               \/ \E k \in List : LPop(k) \/ Push(k)
               \/ XAdd \/ Clock \/ UNCHANGED vars
        PROVE  NilInTime(d)
    <3>1. UNCHANGED got
      BY <2>5 DEF Leave, Destroy, LPop, Push, XAdd, Clock, vars
    <3> QED BY <3>1, QuietNil
  <2> QED BY <1>1, <2>1, <2>2, <2>3, <2>4, <2>5 DEF Next
<1>2. IInv /\ [Next]_vars =>
        [\A c \in Client :
           (wait[c] # NoWait /\ got'[c] # got[c] /\ Last(got'[c]) = Nil) =>
             ~Ready(wait[c]) /\ now >= wait[c].deadline]_vars
  BY <1>1 DEF NilInTime
<1> QED BY <1>2, SpecIInv, PTL DEF Spec, NilMeansNothingInTime
==============================================================================
