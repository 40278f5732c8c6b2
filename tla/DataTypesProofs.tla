---------------------------- MODULE DataTypesProofs ----------------------------
(***************************************************************************)
(* What holds of DataTypes for all constants: a behaviour is of one family  *)
(* of commands, so each family has an inductive invariant of its own, which *)
(* is carried to Spec at the end of its part.                               *)
(***************************************************************************)
EXTENDS DataTypes, FiniteSetTheorems, FunctionTheorems, SequenceTheorems, TLAPS
------------------------------------------------------------------------------
(* Every set of naturals that is not empty has a least element: folds are reasoned about *)
(* with it, as with an induction. *)

LEMMA LeastNat ==
  ASSUME NEW T \in SUBSET Nat, T # {} PROVE \E n \in T : \A m \in T : n <= m
<1> DEFINE R == OpToRel(<, Nat)
<1>1. IsWellFoundedOn(R, Nat)
  BY NatLessThanWellFounded
<1>2. \A x, y \in Nat : <<y, x>> \in R <=> y < x
  BY DEF OpToRel
<1> HIDE DEF R
<1>3. PICK n \in T : \A m \in T : ~(<<m, n>> \in R)
  BY <1>1, WFMin
<1>4. n \in Nat /\ \A m \in T : m \in Nat /\ ~(m < n)
  BY <1>2, <1>3
<1>5. \A m \in T : n <= m
  BY <1>4
<1> QED BY <1>3, <1>5
------------------------------------------------------------------------------
(* Streams.  The list of a group and the maps of its consumers. *)

Offering == INSTANCE Folding WITH Step <- St!Offer

Pending == [id : Nat, by : Consumer]

(* Lists: where an identifier is, and what is left when a place is taken out. *)

LEMMA PlaceOfIs ==
  ASSUME NEW S, NEW s \in Seq(S), NEW id
  PROVE  \/ St!PlaceOf(id, s) = 0 /\ \A i \in 1 .. Len(s) : s[i].id # id
         \/ St!PlaceOf(id, s) \in 1 .. Len(s) /\ s[St!PlaceOf(id, s)].id = id
<1> DEFINE I == {i \in 1 .. Len(s) : s[i].id = id}
<1>1. St!PlaceOf(id, s) = IF I # {} THEN St!Min(I) ELSE 0
  BY DEF St!PlaceOf, St!SelectInSeq
<1>2. I \subseteq Nat
  BY LenProperties
<1>3. CASE I = {}
  BY <1>1, <1>3
<1>4. CASE I # {}
  <2> HIDE DEF I
  <2>1. \E x \in I : \A y \in I : x <= y
    BY <1>2, <1>4, LeastNat
  <2>2. St!Min(I) \in I
    BY <2>1 DEF St!Min
  <2> QED BY <1>1, <1>4, <2>2 DEF I
<1> QED BY <1>3, <1>4

LEMMA RemoveAtIs ==
  ASSUME NEW S, NEW s \in Seq(S), NEW i \in 1 .. Len(s)
  PROVE  /\ St!RemoveAt(s, i) \in Seq(S) /\ Len(St!RemoveAt(s, i)) = Len(s) - 1
         /\ \A j \in 1 .. Len(s) - 1 : St!RemoveAt(s, i)[j] = s[IF j < i THEN j ELSE j + 1]
<1>1. Len(s) \in Nat /\ i \in Nat /\ \A j \in 1 .. Len(s) : s[j] \in S
  BY LenProperties, ElementOfSeq
<1> DEFINE a == SubSeq(s, 1, i - 1)
           b == SubSeq(s, i + 1, Len(s))
<1>2. a \in Seq(S) /\ Len(a) = i - 1 /\ \A j \in 1 .. i - 1 : a[j] = s[j]
  <2>1. 1 \in Int /\ i - 1 \in Int /\ \A j \in 1 .. i - 1 : s[j] \in S
    BY <1>1
  <2>2. /\ a \in Seq(S) /\ Len(a) = IF 1 <= i - 1 THEN (i - 1) - 1 + 1 ELSE 0
        /\ \A j \in 1 .. (i - 1) - 1 + 1 : a[j] = s[1 + j - 1]
    BY <2>1, SubSeqProperties
  <2> HIDE DEF a
  <2> QED BY <1>1, <2>2
<1>3. b \in Seq(S) /\ Len(b) = Len(s) - i /\ \A j \in 1 .. Len(s) - i : b[j] = s[i + j]
  <2>1. i + 1 \in Int /\ Len(s) \in Int /\ \A j \in i + 1 .. Len(s) : s[j] \in S
    BY <1>1
  <2>2. /\ b \in Seq(S) /\ Len(b) = IF i + 1 <= Len(s) THEN Len(s) - (i + 1) + 1 ELSE 0
        /\ \A j \in 1 .. Len(s) - (i + 1) + 1 : b[j] = s[(i + 1) + j - 1]
    BY <2>1, SubSeqProperties
  <2> HIDE DEF b
  <2> QED BY <1>1, <2>2
<1>4. St!RemoveAt(s, i) = a \o b
  BY DEF St!RemoveAt
<1> HIDE DEF a, b
<1>5. /\ a \o b \in Seq(S) /\ Len(a \o b) = Len(a) + Len(b)
      /\ \A j \in 1 .. Len(a) + Len(b) : (a \o b)[j] = IF j <= Len(a) THEN a[j] ELSE b[j - Len(a)]
  BY <1>2, <1>3, ConcatProperties
<1>6. ASSUME NEW j \in 1 .. Len(s) - 1
      PROVE  (a \o b)[j] = s[IF j < i THEN j ELSE j + 1]
  <2>1. CASE j < i
    BY <1>1, <1>2, <1>3, <1>5, <2>1
  <2>2. CASE ~(j < i)
    <3>1. (a \o b)[j] = b[j - (i - 1)] /\ j - (i - 1) \in 1 .. Len(s) - i
      BY <1>1, <1>2, <1>3, <1>5, <2>2
    <3>2. b[j - (i - 1)] = s[i + (j - (i - 1))] /\ i + (j - (i - 1)) = j + 1
      BY <1>1, <1>3, <3>1
    <3> QED BY <2>2, <3>1, <3>2
  <2> QED BY <2>1, <2>2
<1> QED BY <1>1, <1>2, <1>3, <1>4, <1>5, <1>6
------------------------------------------------------------------------------
(* Who waits for what: the list p, the consumers' maps h, and the last identifier read *)

WaitsOk(p, h, last) ==
  /\ \A i \in 1 .. Len(p) :
       p[i].id <= last /\ p[i].by \in DOMAIN h /\ p[i].id \in h[p[i].by]
  /\ \A i, j \in 1 .. Len(p) : i # j => p[i].id # p[j].id
  /\ \A c \in DOMAIN h : \A x \in h[c] : \E i \in 1 .. Len(p) : p[i].id = x

Maps(h) == DOMAIN h \subseteq Consumer /\ h \in [DOMAIN h -> SUBSET Nat]

LEMMA HandedOverWaits ==
  ASSUME NEW p \in Seq(Pending), NEW h, Maps(h), NEW last \in Nat, WaitsOk(p, h, last),
         NEW id \in Nat, id > last, NEW c \in DOMAIN h
  PROVE  /\ Append(p, [id |-> id, by |-> c]) \in Seq(Pending)
         /\ Maps([h EXCEPT ![c] = @ \cup {id}])
         /\ WaitsOk(Append(p, [id |-> id, by |-> c]), [h EXCEPT ![c] = @ \cup {id}], id)
<1> DEFINE e == [id |-> id, by |-> c]
           q == Append(p, e)
           m == [h EXCEPT ![c] = @ \cup {id}]
<1>1. /\ Len(p) \in Nat /\ e \in Pending /\ e.id = id /\ e.by = c
      /\ \A i \in 1 .. Len(p) : p[i] \in Pending /\ p[i].id \in Nat
  <2>1. c \in Consumer
    BY DEF Maps
  <2>2. Len(p) \in Nat /\ \A i \in 1 .. Len(p) : p[i] \in Pending
    BY LenProperties, ElementOfSeq
  <2> QED BY <2>1, <2>2 DEF Pending
<1>2. /\ q \in Seq(Pending) /\ Len(q) = Len(p) + 1 /\ q[Len(p) + 1] = e
      /\ \A i \in 1 .. Len(p) : q[i] = p[i]
  BY <1>1, AppendProperties
<1>3. \A i \in 1 .. Len(q) : i = Len(p) + 1 \/ i \in 1 .. Len(p)
  BY <1>1, <1>2
<1>4. /\ Maps(m) /\ DOMAIN m = DOMAIN h /\ m[c] = h[c] \cup {id}
      /\ \A d \in DOMAIN h : d # c => m[d] = h[d]
  BY DEF Maps
<1>5. /\ Len(p) + 1 \in 1 .. Len(q)
      /\ \A i \in 1 .. Len(p) : i \in 1 .. Len(q) /\ i # Len(p) + 1 /\ q[i].id < id
  BY <1>1, <1>2 DEF WaitsOk
<1> HIDE DEF e, q, m
<1>6. ASSUME NEW i \in 1 .. Len(q)
      PROVE  q[i].id <= id /\ q[i].by \in DOMAIN m /\ q[i].id \in m[q[i].by]
  <2>1. CASE i = Len(p) + 1
    BY <1>1, <1>2, <1>4, <2>1
  <2>2. CASE i \in 1 .. Len(p)
    <3>1. p[i].by \in DOMAIN h /\ p[i].id \in h[p[i].by] /\ q[i] = p[i]
      BY <1>2, <2>2 DEF WaitsOk
    <3>2. p[i].id \in m[p[i].by]
      BY <1>4, <3>1
    <3>3. q[i].id <= id
      BY <1>1, <1>2, <1>5, <2>2
    <3> QED BY <1>4, <3>1, <3>2, <3>3
  <2> QED BY <1>3, <2>1, <2>2
<1>7. ASSUME NEW i \in 1 .. Len(q), NEW j \in 1 .. Len(q), i # j
      PROVE  q[i].id # q[j].id
  <2>1. CASE i \in 1 .. Len(p) /\ j \in 1 .. Len(p)
    BY <1>2, <1>7, <2>1 DEF WaitsOk
  <2>2. CASE i \in 1 .. Len(p) /\ j = Len(p) + 1
    BY <1>1, <1>2, <1>5, <2>2
  <2>3. CASE i = Len(p) + 1 /\ j \in 1 .. Len(p)
    BY <1>1, <1>2, <1>5, <2>3
  <2> QED BY <1>3, <1>7, <2>1, <2>2, <2>3
<1>8. ASSUME NEW d \in DOMAIN m, NEW x \in m[d]
      PROVE  \E i \in 1 .. Len(q) : q[i].id = x
  <2>1. CASE x = id
    BY <1>1, <1>2, <1>5, <2>1
  <2>2. CASE x # id
    <3>1. d \in DOMAIN h /\ x \in h[d]
      BY <1>4, <1>8, <2>2
    <3>2. PICK i \in 1 .. Len(p) : p[i].id = x
      BY <3>1 DEF WaitsOk
    <3> QED BY <1>2, <1>5, <3>2
  <2> QED BY <2>1, <2>2
<1>9. WaitsOk(q, m, id)
  BY <1>6, <1>7, <1>8 DEF WaitsOk
<1> QED BY <1>2, <1>4, <1>9 DEF e, q, m
LEMMA TakenOutWaits ==
  ASSUME NEW p \in Seq(Pending), NEW h, Maps(h), NEW last \in Nat, WaitsOk(p, h, last),
         NEW i \in 1 .. Len(p)
  PROVE  WaitsOk(St!RemoveAt(p, i), [c \in DOMAIN h |-> h[c] \ {p[i].id}], last)
<1> DEFINE q == St!RemoveAt(p, i)
           m == [c \in DOMAIN h |-> h[c] \ {p[i].id}]
           old(j) == IF j < i THEN j ELSE j + 1
<1>1. Len(p) \in Nat /\ i \in Nat
  BY LenProperties
<1>2. Len(q) = Len(p) - 1 /\ \A j \in 1 .. Len(p) - 1 : q[j] = p[old(j)]
  BY RemoveAtIs
<1>3. \A j \in 1 .. Len(p) - 1 : old(j) \in 1 .. Len(p) /\ old(j) # i
  BY <1>1
<1>4. \A j, n \in 1 .. Len(p) - 1 : j # n => old(j) # old(n)
  BY <1>1
<1>5. ASSUME NEW n \in 1 .. Len(p), n # i PROVE \E j \in 1 .. Len(p) - 1 : old(j) = n
  <2>1. CASE n < i
    BY <1>1, <2>1
  <2>2. CASE n > i
    <3>1. n - 1 \in 1 .. Len(p) - 1 /\ old(n - 1) = n
      BY <1>1, <2>2
    <3> QED BY <3>1
  <2> QED BY <1>1, <1>5, <2>1, <2>2
<1>6. DOMAIN m = DOMAIN h /\ \A c \in DOMAIN h : m[c] = h[c] \ {p[i].id}
  OBVIOUS
<1> HIDE DEF q, m, old
<1>7. \A j \in 1 .. Len(p) - 1 : p[old(j)].id # p[i].id
  BY <1>3 DEF WaitsOk
<1>8. ASSUME NEW j \in 1 .. Len(q)
      PROVE  q[j].id <= last /\ q[j].by \in DOMAIN m /\ q[j].id \in m[q[j].by]
  <2>1. q[j] = p[old(j)] /\ old(j) \in 1 .. Len(p) /\ p[old(j)].id # p[i].id
    BY <1>2, <1>3, <1>7
  <2>2. p[old(j)].id <= last /\ p[old(j)].by \in DOMAIN h /\ p[old(j)].id \in h[p[old(j)].by]
    BY <2>1 DEF WaitsOk
  <2> QED BY <1>6, <2>1, <2>2
<1>9. ASSUME NEW j \in 1 .. Len(q), NEW n \in 1 .. Len(q), j # n
      PROVE  q[j].id # q[n].id
  BY <1>2, <1>3, <1>4, <1>9 DEF WaitsOk
<1>10. ASSUME NEW c \in DOMAIN m, NEW x \in m[c]
       PROVE  \E j \in 1 .. Len(q) : q[j].id = x
  <2>1. c \in DOMAIN h /\ x \in h[c] /\ x # p[i].id
    BY <1>6, <1>10
  <2>2. PICK n \in 1 .. Len(p) : p[n].id = x
    BY <2>1 DEF WaitsOk
  <2>3. PICK j \in 1 .. Len(p) - 1 : old(j) = n
    BY <1>5, <2>1, <2>2
  <2> QED BY <1>2, <2>2, <2>3
<1>11. WaitsOk(q, m, last)
  BY <1>8, <1>9, <1>10 DEF WaitsOk
<1> QED BY <1>11 DEF q, m

LEMMA NotThereWaits ==
  ASSUME NEW p \in Seq(Pending), NEW h, Maps(h), NEW last \in Nat, WaitsOk(p, h, last),
         NEW id, \A i \in 1 .. Len(p) : p[i].id # id
  PROVE  WaitsOk(p, [c \in DOMAIN h |-> h[c] \ {id}], last)
BY DEF WaitsOk

LEMMA ClaimedWaits ==
  ASSUME NEW p \in Seq(Pending), NEW h, Maps(h), NEW last \in Nat, WaitsOk(p, h, last),
         NEW i \in 1 .. Len(p), NEW c \in DOMAIN h
  PROVE  /\ [p EXCEPT ![i].by = c] \in Seq(Pending)
         /\ Maps([h EXCEPT ![c] = @ \cup {p[i].id}])
         /\ WaitsOk([p EXCEPT ![i].by = c], [h EXCEPT ![c] = @ \cup {p[i].id}], last)
<1> DEFINE e == [p[i] EXCEPT !.by = c]
           q == [p EXCEPT ![i].by = c]
           m == [h EXCEPT ![c] = @ \cup {p[i].id}]
<1>1. p[i] \in Pending /\ c \in Consumer
  BY ElementOfSeq DEF Maps
<1>2. e \in Pending /\ e.id = p[i].id /\ e.by = c
  BY <1>1 DEF Pending
<1>3. q = [p EXCEPT ![i] = e]
  OBVIOUS
<1> HIDE DEF e, q
<1>4. /\ q \in Seq(Pending) /\ Len(q) = Len(p)
      /\ \A j \in 1 .. Len(p) : q[j] = IF j = i THEN e ELSE p[j]
  BY <1>2, <1>3, ExceptSeq
<1>5. \A j \in 1 .. Len(p) : q[j].id = p[j].id /\ (j # i => q[j].by = p[j].by) /\ q[i].by = c
  BY <1>2, <1>4
<1>6. /\ Maps(m) /\ DOMAIN m = DOMAIN h /\ m[c] = h[c] \cup {p[i].id}
      /\ \A d \in DOMAIN h : d # c => m[d] = h[d]
  BY <1>1, <1>2 DEF Maps, Pending
<1> HIDE DEF m
<1>7. \A j \in 1 .. Len(q) : q[j].id <= last /\ q[j].by \in DOMAIN m /\ q[j].id \in m[q[j].by]
  <2>1. TAKE j \in 1 .. Len(q)
  <2>2. p[j].id <= last /\ p[j].by \in DOMAIN h /\ p[j].id \in h[p[j].by]
    BY <1>4 DEF WaitsOk
  <2>3. CASE j = i
    BY <1>4, <1>5, <1>6, <2>2, <2>3
  <2>4. CASE j # i
    <3>1. q[j].id = p[j].id /\ q[j].by = p[j].by
      BY <1>4, <1>5, <2>4
    <3>2. p[j].id \in m[p[j].by]
      BY <1>6, <2>2
    <3> QED BY <1>6, <2>2, <3>1, <3>2
  <2> QED BY <2>3, <2>4
<1>8. \A j, n \in 1 .. Len(q) : j # n => q[j].id # q[n].id
  BY <1>4, <1>5 DEF WaitsOk
<1>9. ASSUME NEW d \in DOMAIN m, NEW x \in m[d] PROVE \E j \in 1 .. Len(q) : q[j].id = x
  <2>1. CASE d = c /\ x = p[i].id
    BY <1>4, <1>5, <2>1
  <2>2. CASE ~(d = c /\ x = p[i].id)
    <3>1. d \in DOMAIN h /\ x \in h[d]
      BY <1>6, <1>9, <2>2
    <3> QED BY <1>4, <1>5, <3>1 DEF WaitsOk
  <2> QED BY <2>1, <2>2
<1>10. WaitsOk(q, m, last)
  BY <1>7, <1>8, <1>9 DEF WaitsOk
<1> QED BY <1>4, <1>6, <1>10 DEF q, m

LEMMA NewConsumerWaits ==
  ASSUME NEW p \in Seq(Pending), NEW h, Maps(h), NEW last \in Nat, WaitsOk(p, h, last),
         NEW c \in Consumer, c \notin DOMAIN h
  PROVE  Maps(St!With(h, c, {})) /\ WaitsOk(p, St!With(h, c, {}), last)
<1> DEFINE m == St!With(h, c, {})
<1>1. /\ Maps(m) /\ DOMAIN m = DOMAIN h \cup {c} /\ m[c] = {}
      /\ \A d \in DOMAIN h : m[d] = h[d]
  BY DEF St!With, Maps
<1> HIDE DEF m
<1>2. WaitsOk(p, m, last)
  BY <1>1 DEF WaitsOk
<1> QED BY <1>1, <1>2 DEF m------------------------------------------------------------------------------
(* Groups: r reads the entries es of a stream to which the identifiers a were added. *)

Groups ==
  [lastId : Nat, pending : Seq(Pending), held : UNION {[D -> SUBSET Nat] : D \in SUBSET Consumer},
   got : Seq(St!Entry), start : Nat, since : Nat]

Late(e, r, a) ==
  e.n <= r.since \/ e.id <= r.start \/ \E j \in 1 .. e.n - 1 : a[j] >= e.id

LastOk(r, a) == r.lastId = r.start \/ \E j \in 1 .. Len(a) : a[j] = r.lastId

GotOk(r) ==
  /\ \A i \in 1 .. Len(r.got) : r.got[i].id <= r.lastId
  /\ \A i, j \in 1 .. Len(r.got) : i < j => r.got[i].id < r.got[j].id

FairOk(r, es, a) ==
  \A i \in 1 .. Len(es) : es[i].id <= r.lastId /\ es[i] \notin St!Range(r.got) => Late(es[i], r, a)

GroupGood(r, es, a) ==
  /\ r \in Groups
  /\ LastOk(r, a) /\ GotOk(r) /\ FairOk(r, es, a)
  /\ WaitsOk(r.pending, r.held, r.lastId)

\* The entries stand in the order in which they were added.
Placed(es, a) ==
  /\ es \in Seq(St!Entry) /\ a \in Seq(Nat)
  /\ \A i \in 1 .. Len(es) : es[i].n \in 1 .. Len(a) /\ a[es[i].n] = es[i].id
  /\ \A i, j \in 1 .. Len(es) : i < j => es[i].n < es[j].n

LEMMA GroupsAreOk == ASSUME NEW r PROVE r \in Groups <=> St!GroupOk(r)
<1> DEFINE H == UNION {[D -> SUBSET Nat] : D \in SUBSET Consumer}
<1>1. ASSUME NEW h PROVE h \in H <=> Maps(h)
  BY DEF Maps
<1> HIDE DEF H
<1>2. ASSUME r \in Groups PROVE St!GroupOk(r)
  <2>1. r \in [lastId : Nat, pending : Seq(Pending), held : H, got : Seq(St!Entry), start : Nat,
               since : Nat]
    BY <1>2 DEF Groups, H
  <2>2. Maps(r.held)
    BY <1>1, <2>1
  <2> QED BY <2>1, <2>2 DEF St!GroupOk, Maps, Pending
<1>3. ASSUME St!GroupOk(r) PROVE r \in Groups
  <2>1. /\ r \in [lastId : Nat, pending : Seq(Pending), held : [DOMAIN r.held -> SUBSET Nat],
                  got : Seq(St!Entry), start : Nat, since : Nat]
        /\ DOMAIN r.held \subseteq Consumer
    BY <1>3 DEF St!GroupOk, Pending
  <2>2. r.held \in H
    BY <1>1, <2>1 DEF Maps
  <2>3. r \in [lastId : Nat, pending : Seq(Pending), held : H, got : Seq(St!Entry), start : Nat,
               since : Nat]
    BY <2>1, <2>2
  <2> QED BY <2>3 DEF Groups, H
<1> QED BY <1>2, <1>3

LEMMA GroupFields ==
  ASSUME NEW r \in Groups
  PROVE  /\ r.lastId \in Nat /\ r.start \in Nat /\ r.since \in Nat
         /\ r.pending \in Seq(Pending) /\ r.got \in Seq(St!Entry) /\ Maps(r.held)
<1>1. St!GroupOk(r)
  BY GroupsAreOk
<1> QED BY <1>1 DEF St!GroupOk, Maps, Pending

\* A group is its fields.
LEMMA GroupOfFields ==
  ASSUME NEW r, r = [lastId |-> r.lastId, pending |-> r.pending, held |-> r.held, got |-> r.got,
                     start |-> r.start, since |-> r.since],
         r.lastId \in Nat, r.start \in Nat, r.since \in Nat,
         r.pending \in Seq(Pending), r.got \in Seq(St!Entry), Maps(r.held)
  PROVE  r \in Groups
<1> DEFINE H == UNION {[D -> SUBSET Nat] : D \in SUBSET Consumer}
<1>1. r.held \in H
  BY DEF Maps
<1> HIDE DEF H
<1>2. r \in [lastId : Nat, pending : Seq(Pending), held : H, got : Seq(St!Entry), start : Nat,
             since : Nat]
  BY <1>1
<1> QED BY <1>2 DEF Groups, H

LEMMA NewGroupGood ==
  ASSUME NEW es, NEW a, Placed(es, a), NEW id \in Nat
  PROVE  GroupGood(St!NewGroup(id, Len(a)), es, a)
<1> DEFINE r == St!NewGroup(id, Len(a))
           h == [c \in {} |-> {}]
<1>1. Len(a) \in Nat
  BY LenProperties DEF Placed
<1>2. Maps(h) /\ DOMAIN h = {}
  BY DEF Maps
<1>3. <<>> \in Seq(Pending) /\ <<>> \in Seq(St!Entry) /\ Len(<<>>) = 0 /\ 1 .. 0 = {}
  BY EmptySeq
<1>4. r = [lastId |-> id, pending |-> <<>>, held |-> h, got |-> <<>>, start |-> id,
           since |-> Len(a)]
  BY DEF St!NewGroup
<1> HIDE DEF r, h
<1>5. /\ r \in Groups /\ r.lastId = id /\ r.pending = <<>> /\ r.held = h /\ r.got = <<>>
      /\ r.start = id /\ r.since = Len(a)
  <2>1. /\ r.lastId = id /\ r.pending = <<>> /\ r.held = h /\ r.got = <<>>
        /\ r.start = id /\ r.since = Len(a)
    BY <1>4
  <2>2. r = [lastId |-> r.lastId, pending |-> r.pending, held |-> r.held, got |-> r.got,
             start |-> r.start, since |-> r.since]
    BY <1>4, <2>1
  <2> QED BY <1>1, <1>2, <1>3, <2>1, <2>2, GroupOfFields
<1>6. LastOk(r, a) /\ GotOk(r)
  BY <1>3, <1>5 DEF LastOk, GotOk
<1>7. FairOk(r, es, a)
  BY <1>1, <1>5 DEF FairOk, Late, Placed
<1>8. WaitsOk(r.pending, r.held, r.lastId)
  BY <1>2, <1>3, <1>5 DEF WaitsOk
<1> QED BY <1>5, <1>6, <1>7, <1>8 DEF GroupGood, r

\* What Ensure, Acked and Claimed leave alone is enough for all but the list and the maps.
LEMMA SameReadingGood ==
  ASSUME NEW es, NEW a, NEW r, GroupGood(r, es, a), NEW p \in Seq(Pending), NEW h, Maps(h),
         WaitsOk(p, h, r.lastId), NEW q, q = [r EXCEPT !.pending = p, !.held = h]
  PROVE  /\ GroupGood(q, es, a) /\ q.pending = p /\ q.held = h
         /\ q.got = r.got /\ q.lastId = r.lastId /\ q.start = r.start /\ q.since = r.since
<1>1. r \in Groups
  BY DEF GroupGood
<1>2. q = [lastId |-> r.lastId, pending |-> p, held |-> h, got |-> r.got, start |-> r.start,
           since |-> r.since]
  BY <1>1 DEF Groups
<1>3. /\ q \in Groups /\ q.pending = p /\ q.held = h
      /\ q.got = r.got /\ q.lastId = r.lastId /\ q.start = r.start /\ q.since = r.since
  <2>1. /\ q.pending = p /\ q.held = h
        /\ q.got = r.got /\ q.lastId = r.lastId /\ q.start = r.start /\ q.since = r.since
    BY <1>2
  <2>2. q = [lastId |-> q.lastId, pending |-> q.pending, held |-> q.held, got |-> q.got,
             start |-> q.start, since |-> q.since]
    BY <1>2, <2>1
  <2>3. r.lastId \in Nat /\ r.start \in Nat /\ r.since \in Nat /\ r.got \in Seq(St!Entry)
    BY <1>1, GroupFields
  <2> QED BY <2>1, <2>2, <2>3, GroupOfFields
<1>4. LastOk(q, a) /\ GotOk(q) /\ FairOk(q, es, a)
  BY <1>3 DEF GroupGood, LastOk, GotOk, FairOk, Late
<1> QED BY <1>3, <1>4 DEF GroupGood

LEMMA EnsureGood ==
  ASSUME NEW es, NEW a, NEW r, GroupGood(r, es, a), NEW c \in Consumer
  PROVE  /\ GroupGood(St!Ensure(r, c), es, a) /\ c \in DOMAIN St!Ensure(r, c).held
         /\ St!Ensure(r, c).got = r.got /\ St!Ensure(r, c).pending = r.pending
<1>1. r \in Groups /\ WaitsOk(r.pending, r.held, r.lastId)
  BY DEF GroupGood
<1>2. r.lastId \in Nat /\ r.pending \in Seq(Pending) /\ Maps(r.held)
  BY <1>1, GroupFields
<1>3. CASE c \in DOMAIN r.held
  BY <1>3 DEF St!Ensure
<1>4. CASE c \notin DOMAIN r.held
  <2> DEFINE q == St!Ensure(r, c)
             h == St!With(r.held, c, {})
  <2>1. Maps(h) /\ WaitsOk(r.pending, h, r.lastId)
    BY <1>1, <1>2, <1>4, NewConsumerWaits
  <2>2. c \in DOMAIN h
    BY DEF St!With
  <2>3. q = [r EXCEPT !.held = h]
    BY <1>4 DEF St!Ensure
  <2> HIDE DEF h
  <2> HIDE DEF q
  <2> DEFINE p == r.pending
  <2>4. q = [r EXCEPT !.pending = p, !.held = h]
    BY <1>1, <2>3 DEF Groups
  <2>6. p \in Seq(Pending) /\ WaitsOk(p, h, r.lastId)
    BY <1>2, <2>1
  <2> HIDE DEF p
  <2>7. Maps(h)
    BY <2>1
  <2>5. GroupGood(q, es, a)
    BY <2>7, <2>4, <2>6, SameReadingGood
  <2>8. q.held = h /\ q.got = r.got /\ q.pending = p
    BY <1>1, <2>4 DEF Groups
  <2> QED BY <2>2, <2>5, <2>8 DEF q, p
<1> QED BY <1>3, <1>4

LEMMA AckedGood ==
  ASSUME NEW es, NEW a, NEW r, GroupGood(r, es, a), NEW id
  PROVE  GroupGood(St!Acked(r, id), es, a)
<1> DEFINE i == St!PlaceOf(id, r.pending)
           p == IF i = 0 THEN r.pending ELSE St!RemoveAt(r.pending, i)
           h == [c \in DOMAIN r.held |-> r.held[c] \ {id}]
           q == St!Acked(r, id)
<1>1. r \in Groups /\ WaitsOk(r.pending, r.held, r.lastId)
  BY DEF GroupGood
<1>2. r.lastId \in Nat /\ r.pending \in Seq(Pending) /\ Maps(r.held)
  BY <1>1, GroupFields
<1>3. \/ i = 0 /\ \A j \in 1 .. Len(r.pending) : r.pending[j].id # id
      \/ i \in 1 .. Len(r.pending) /\ r.pending[i].id = id
  BY <1>2, PlaceOfIs
<1>4. Len(r.pending) \in Nat
  BY <1>2, LenProperties
<1>5. Maps(h)
  BY <1>2 DEF Maps
<1>6. q = [r EXCEPT !.pending = p, !.held = h]
  BY <1>1 DEF St!Acked, Groups
<1>7. p \in Seq(Pending) /\ WaitsOk(p, h, r.lastId)
  <2>1. CASE i = 0
    <3>1. \A j \in 1 .. Len(r.pending) : r.pending[j].id # id
      BY <1>3, <1>4, <2>1
    <3>2. WaitsOk(r.pending, h, r.lastId)
      BY <1>1, <1>2, <3>1, NotThereWaits
    <3> QED BY <1>2, <2>1, <3>2
  <2>2. CASE i # 0
    <3>1. i \in 1 .. Len(r.pending) /\ r.pending[i].id = id
      BY <1>3, <2>2
    <3> HIDE DEF i
    <3>2. St!RemoveAt(r.pending, i) \in Seq(Pending)
      BY <1>2, <3>1, RemoveAtIs
    <3>3. WaitsOk(St!RemoveAt(r.pending, i), h, r.lastId)
      BY <1>1, <1>2, <3>1, TakenOutWaits
    <3> QED BY <2>2, <3>2, <3>3
  <2> QED BY <2>1, <2>2
<1> HIDE DEF p, h, q
<1>8. GroupGood(q, es, a)
  BY <1>5, <1>6, <1>7, SameReadingGood
<1> QED BY <1>8 DEF q

LEMMA ClaimedGood ==
  ASSUME NEW es, NEW a, NEW r, GroupGood(r, es, a), NEW c \in Consumer, NEW id
  PROVE  GroupGood(St!Claimed(r, c, id), es, a)
<1> DEFINE i == St!PlaceOf(id, r.pending)
           e == St!Ensure(r, c)
           q == St!Claimed(r, c, id)
<1>1. GroupGood(e, es, a) /\ c \in DOMAIN e.held /\ e.pending = r.pending
  BY EnsureGood
<1>2. r \in Groups
  BY DEF GroupGood
<1>3. i = 0 \/ (i \in 1 .. Len(r.pending) /\ r.pending[i].id = id)
  BY <1>2, GroupFields, PlaceOfIs
<1>4. CASE i = 0
  BY <1>1, <1>4 DEF St!Claimed
<1>5. CASE i # 0
  <2> DEFINE p == [e.pending EXCEPT ![i].by = c]
             h == [e.held EXCEPT ![c] = @ \cup {id}]
  <2>1. e \in Groups /\ WaitsOk(e.pending, e.held, e.lastId)
    BY <1>1 DEF GroupGood
  <2>2. e.lastId \in Nat /\ e.pending \in Seq(Pending) /\ Maps(e.held)
    BY <2>1, GroupFields
  <2>3. q = [e EXCEPT !.pending[i].by = c, !.held[c] = @ \cup {id}]
    BY <1>5 DEF St!Claimed
  <2>4. i \in 1 .. Len(e.pending) /\ e.pending[i].id = id
    BY <1>1, <1>3, <1>5
  <2> HIDE DEF e, i
  <2>5. q = [e EXCEPT !.pending = p, !.held = h]
    BY <2>1, <2>3 DEF Groups
  <2>6. p \in Seq(Pending) /\ Maps(h) /\ WaitsOk(p, h, e.lastId)
    BY <1>1, <2>1, <2>2, <2>4, ClaimedWaits
  <2> HIDE DEF p, h, q
  <2>7. GroupGood(q, es, a)
    BY <1>1, <2>5, <2>6, SameReadingGood
  <2> QED BY <2>7 DEF q
<1> QED BY <1>4, <1>5------------------------------------------------------------------------------
(* Reading *)

\* The entries before the i-th are behind the group: what lies between is late.
LEMMA HandOverGood ==
  ASSUME NEW es, NEW a, Placed(es, a), NEW r, GroupGood(r, es, a), NEW c \in DOMAIN r.held,
         NEW i \in 1 .. Len(es), es[i].id > r.lastId,
         \A j \in 1 .. i - 1 : ~(es[j].id > r.lastId)
  PROVE  /\ GroupGood(St!HandOver(r, es[i], c), es, a)
         /\ c \in DOMAIN St!HandOver(r, es[i], c).held
         /\ St!HandOver(r, es[i], c).lastId = es[i].id
<1> DEFINE e == es[i]
           q == St!HandOver(r, e, c)
           p == Append(r.pending, [id |-> e.id, by |-> c])
           h == [r.held EXCEPT ![c] = @ \cup {e.id}]
           g == Append(r.got, e)
<1>1. r \in Groups /\ WaitsOk(r.pending, r.held, r.lastId)
  BY DEF GroupGood
<1>2. /\ r.lastId \in Nat /\ r.start \in Nat /\ r.since \in Nat
      /\ r.pending \in Seq(Pending) /\ r.got \in Seq(St!Entry) /\ Maps(r.held)
  BY <1>1, GroupFields
<1>3. /\ es \in Seq(St!Entry) /\ a \in Seq(Nat) /\ Len(es) \in Nat /\ Len(a) \in Nat
      /\ \A j \in 1 .. Len(es) : es[j] \in St!Entry /\ es[j].id \in Nat /\ es[j].n \in Nat
  <2>1. es \in Seq(St!Entry) /\ a \in Seq(Nat)
    BY DEF Placed
  <2>2. Len(es) \in Nat /\ Len(a) \in Nat /\ \A j \in 1 .. Len(es) : es[j] \in St!Entry
    BY <2>1, LenProperties, ElementOfSeq
  <2> QED BY <2>1, <2>2 DEF St!Entry
<1>4. e \in St!Entry /\ e.id \in Nat /\ e.n \in 1 .. Len(a) /\ a[e.n] = e.id /\ e.id > r.lastId
  BY <1>3 DEF Placed
<1>5. q = [lastId |-> e.id, pending |-> p, held |-> h, got |-> g, start |-> r.start,
           since |-> r.since]
  <2> HIDE DEF e
  <2>1. q = [r EXCEPT !.pending = p, !.held = h, !.got = g, !.lastId = e.id]
    BY <1>1 DEF St!HandOver, Groups
  <2> HIDE DEF p, h, g, q
  <2> QED BY <1>1, <2>1 DEF Groups
<1> HIDE DEF e
<1>6. /\ p \in Seq(Pending) /\ Maps(h) /\ WaitsOk(p, h, e.id)
  BY <1>1, <1>2, <1>4, HandedOverWaits
<1>7. c \in DOMAIN h
  OBVIOUS
<1>8. /\ g \in Seq(St!Entry) /\ Len(g) = Len(r.got) + 1 /\ g[Len(r.got) + 1] = e
      /\ Len(r.got) \in Nat /\ \A j \in 1 .. Len(r.got) : g[j] = r.got[j]
  BY <1>2, <1>4, AppendProperties, LenProperties
<1> HIDE DEF q, p, h, g
<1>9. /\ q.lastId = e.id /\ q.pending = p /\ q.held = h /\ q.got = g /\ q.start = r.start
      /\ q.since = r.since
  BY <1>5
<1>10. q \in Groups
  <2>1. q = [lastId |-> q.lastId, pending |-> q.pending, held |-> q.held, got |-> q.got,
             start |-> q.start, since |-> q.since]
    BY <1>5, <1>9
  <2> QED BY <1>2, <1>4, <1>6, <1>8, <1>9, <2>1, GroupOfFields
<1>11. LastOk(q, a)
  BY <1>4, <1>9 DEF LastOk
<1>12. GotOk(q)
  <2>1. \A j \in 1 .. Len(r.got) : r.got[j].id \in Nat /\ r.got[j].id <= r.lastId
    <3>1. \A j \in 1 .. Len(r.got) : r.got[j] \in St!Entry
      BY <1>2, ElementOfSeq
    <3> QED BY <3>1 DEF GroupGood, GotOk, St!Entry
  <2>2. \A j \in 1 .. Len(g) : j = Len(r.got) + 1 \/ j \in 1 .. Len(r.got)
    BY <1>8
  <2>3. ASSUME NEW j \in 1 .. Len(r.got) PROVE g[j].id \in Nat /\ g[j].id < e.id
    <3>1. r.got[j].id \in Nat /\ r.got[j].id <= r.lastId /\ g[j] = r.got[j]
      BY <1>8, <2>1
    <3>2. r.lastId \in Nat /\ e.id \in Nat /\ e.id > r.lastId
      BY <1>2, <1>4
    <3> QED BY <3>1, <3>2
  <2>4. ASSUME NEW j \in 1 .. Len(g) PROVE g[j].id <= e.id
    <3>1. CASE j = Len(r.got) + 1
      BY <1>4, <1>8, <3>1
    <3>2. CASE j \in 1 .. Len(r.got)
      BY <1>4, <2>3, <3>2
    <3> QED BY <2>2, <3>1, <3>2
  <2>5. ASSUME NEW j \in 1 .. Len(g), NEW k \in 1 .. Len(g), j < k PROVE g[j].id < g[k].id
    <3>1. CASE k = Len(r.got) + 1
      <4>1. j \in 1 .. Len(r.got)
        BY <1>8, <2>2, <2>5, <3>1
      <4> QED BY <1>8, <2>3, <3>1, <4>1
    <3>2. CASE k \in 1 .. Len(r.got)
      <4>1. j \in 1 .. Len(r.got)
        BY <1>8, <2>2, <2>5, <3>2
      <4>2. r.got[j].id < r.got[k].id
        BY <2>5, <3>2, <4>1 DEF GroupGood, GotOk
      <4> QED BY <1>8, <3>2, <4>1, <4>2
    <3> QED BY <2>2, <3>1, <3>2
  <2> QED BY <1>9, <2>4, <2>5 DEF GotOk
<1>13. FairOk(q, es, a)
  <2>1. SUFFICES ASSUME NEW k \in 1 .. Len(es), es[k].id <= e.id, es[k] \notin St!Range(g)
                 PROVE  Late(es[k], r, a)
    BY <1>9 DEF FairOk, Late
  <2>2. St!Range(r.got) \subseteq St!Range(g)
    <3>1. DOMAIN g = 1 .. Len(g) /\ DOMAIN r.got = 1 .. Len(r.got)
      BY <1>2, <1>8, LenProperties
    <3> QED BY <1>8, <3>1 DEF St!Range
  <2>3. e \in St!Range(g)
    <3>1. DOMAIN g = 1 .. Len(g)
      BY <1>8, LenProperties
    <3> QED BY <1>8, <3>1 DEF St!Range
  <2>4. CASE es[k].id <= r.lastId
    BY <2>1, <2>2, <2>4 DEF GroupGood, FairOk
  <2>5. CASE es[k].id > r.lastId
    <3>1. k > i
      BY <1>3, <2>1, <2>3, <2>5 DEF e
    <3>2. e.n < es[k].n
      BY <3>1 DEF Placed, e
    <3>3. e.n \in 1 .. es[k].n - 1 /\ a[e.n] >= es[k].id
      BY <1>3, <1>4, <2>1, <3>2
    <3> QED BY <3>3 DEF Late
  <2> QED BY <1>2, <1>3, <2>4, <2>5
<1>14. GroupGood(q, es, a)
  BY <1>6, <1>9, <1>10, <1>11, <1>12, <1>13 DEF GroupGood
<1>15. c \in DOMAIN q.held /\ q.lastId = e.id
  BY <1>7, <1>9
<1> QED BY <1>14, <1>15 DEF q, e

Turns == [group : Groups, by : Consumer, limit : Nat]

\* Where the loop is after i entries: an entry it left behind exceeded the count.
ReadTo(t, i, es, a, c, m) ==
  /\ t \in Turns /\ t.by = c /\ t.limit = m
  /\ GroupGood(t.group, es, a) /\ c \in DOMAIN t.group.held
  /\ \A j \in 1 .. i : es[j].id > t.group.lastId => ~(Len(t.group.got) < m)

LEMMA OfferReadsOn ==
  ASSUME NEW es, NEW a, Placed(es, a), NEW c \in Consumer, NEW m \in Nat,
         NEW i \in 1 .. Len(es), NEW t, ReadTo(t, i - 1, es, a, c, m)
  PROVE  ReadTo(St!Offer(t, es[i]), i, es, a, c, m)
<1> DEFINE e == es[i]
           r == t.group
<1>1. /\ t \in Turns /\ t.by = c /\ t.limit = m /\ GroupGood(r, es, a) /\ c \in DOMAIN r.held
      /\ \A j \in 1 .. i - 1 : es[j].id > r.lastId => ~(Len(r.got) < m)
  BY DEF ReadTo
<1>2. Len(es) \in Nat /\ \A j \in 1 .. i : j = i \/ j \in 1 .. i - 1
  <2>1. Len(es) \in Nat
    BY LenProperties DEF Placed
  <2> QED BY <2>1
<1>3. CASE e.id > r.lastId /\ Len(r.got) < m
  <2> DEFINE q == St!HandOver(r, e, c)
             u == St!Offer(t, e)
  <2>1. \A j \in 1 .. i - 1 : ~(es[j].id > r.lastId)
    BY <1>1, <1>3
  <2>2. GroupGood(q, es, a) /\ c \in DOMAIN q.held /\ q.lastId = e.id
    BY <1>1, <1>3, <2>1, HandOverGood
  <2>3. u = [group |-> q, by |-> c, limit |-> m]
    BY <1>1, <1>3 DEF St!Offer, Turns
  <2>4. q \in Groups
    BY <2>2 DEF GroupGood
  <2> HIDE DEF q, u
  <2>5. u \in Turns /\ u.group = q /\ u.by = c /\ u.limit = m
    BY <2>3, <2>4 DEF Turns
  <2>6. \A j \in 1 .. i : ~(es[j].id > e.id)
    <3>1. \A j \in 1 .. Len(es) : es[j].id \in Nat
      <4>1. \A j \in 1 .. Len(es) : es[j] \in St!Entry
        BY ElementOfSeq DEF Placed
      <4> QED BY <4>1 DEF St!Entry
    <3>2. r.lastId \in Nat
      BY <1>1, GroupFields DEF GroupGood
    <3> QED BY <1>2, <1>3, <2>1, <3>1, <3>2
  <2>7. ReadTo(u, i, es, a, c, m)
    BY <2>2, <2>5, <2>6 DEF ReadTo
  <2> QED BY <2>7 DEF u
<1>4. CASE ~(e.id > r.lastId /\ Len(r.got) < m)
  <2>1. St!Offer(t, e) = t
    BY <1>1, <1>4 DEF St!Offer
  <2>2. \A j \in 1 .. i : es[j].id > r.lastId => ~(Len(r.got) < m)
    BY <1>1, <1>2, <1>4
  <2>3. ReadTo(t, i, es, a, c, m)
    BY <1>1, <2>2 DEF ReadTo
  <2> QED BY <2>1, <2>3
<1> QED BY <1>3, <1>4

LEMMA ReadGroupIsFold ==
  ASSUME NEW r, NEW c, NEW s, NEW count
  PROVE  St!ReadGroup(r, c, s, count) =
           Offering!Fold([group |-> St!Ensure(r, c), by |-> c, limit |-> Len(r.got) + count], s.entries).group
BY DEF St!ReadGroup, St!FoldLeft, St!MapThenFoldSet, St!Max, Offering!Fold, Offering!Folds, Offering!Highest

LEMMA ReadGroupGood ==
  ASSUME NEW s, NEW a, Placed(s.entries, a), NEW r, GroupGood(r, s.entries, a),
         NEW c \in Consumer, NEW count \in Nat
  PROVE  GroupGood(St!ReadGroup(r, c, s, count), s.entries, a)
<1> DEFINE es == s.entries
           m == Len(r.got) + count
           base == [group |-> St!Ensure(r, c), by |-> c, limit |-> m]
           S == [i \in 0 .. Len(es) |-> {t \in Turns : ReadTo(t, i, es, a, c, m)}]
<1>1. Len(es) \in Nat /\ DOMAIN es = 1 .. Len(es)
  BY LenProperties DEF Placed
<1>2. m \in Nat
  <2>1. r.got \in Seq(St!Entry)
    BY GroupFields DEF GroupGood
  <2>2. Len(r.got) \in Nat
    BY <2>1, LenProperties
  <2> QED BY <2>2
<1>3. GroupGood(St!Ensure(r, c), es, a) /\ c \in DOMAIN St!Ensure(r, c).held
  BY EnsureGood
<1> HIDE DEF es, m
<1>4. \A i \in 0 .. Len(es) : \A t : t \in S[i] <=> ReadTo(t, i, es, a, c, m)
  BY DEF ReadTo
<1>5. ReadTo(base, 0, es, a, c, m)
  <2> DEFINE q == St!Ensure(r, c)
  <2>1. q \in Groups
    BY <1>3 DEF GroupGood
  <2> HIDE DEF q
  <2>2. base = [group |-> q, by |-> c, limit |-> m]
    BY DEF q
  <2>3. base \in Turns /\ base.by = c /\ base.limit = m /\ base.group = q
    BY <1>2, <2>1, <2>2 DEF Turns
  <2>4. 1 .. 0 = {}
    OBVIOUS
  <2> QED BY <1>3, <2>3, <2>4 DEF ReadTo, q
<1> HIDE DEF S, base
<1>6. base \in S[0]
  BY <1>1, <1>4, <1>5
<1>7. ASSUME NEW i \in 1 .. Len(es), NEW t \in S[i - 1] PROVE St!Offer(t, es[i]) \in S[i]
  <2>1. i \in 0 .. Len(es) /\ i - 1 \in 0 .. Len(es)
    BY <1>1
  <2>2. ReadTo(t, i - 1, es, a, c, m)
    BY <1>4, <2>1
  <2>3. ReadTo(St!Offer(t, es[i]), i, es, a, c, m)
    BY <1>2, <2>2, OfferReadsOn DEF es
  <2> QED BY <1>4, <2>1, <2>3
<1>8. Offering!Fold(base, es) \in S[Len(es)]
  BY <1>1, <1>6, <1>7, LeastNat, Offering!FoldKeeps DEF Offering!NatsHaveLeast
<1>9. ReadTo(Offering!Fold(base, es), Len(es), es, a, c, m)
  BY <1>1, <1>4, <1>8
<1> QED BY <1>9, ReadGroupIsFold DEF ReadTo, base, es, m------------------------------------------------------------------------------
(* Streams: s to which the identifiers a were added. *)

GroupMaps == UNION {[D -> Groups] : D \in SUBSET Group}

Stocks == [entries : Seq(St!Entry), groups : GroupMaps, lastMs : Nat, lastSeq : Nat]

StreamGood(s, a) ==
  /\ s \in Stocks /\ Placed(s.entries, a)
  /\ \A g \in DOMAIN s.groups : GroupGood(s.groups[g], s.entries, a)

LEMMA GroupMapsAre ==
  ASSUME NEW m
  PROVE  m \in GroupMaps <=> DOMAIN m \subseteq Group /\ m \in [DOMAIN m -> Groups]
BY DEF GroupMaps

LEMMA StocksAreOk == ASSUME NEW s \in Stocks PROVE St!StreamOk(s)
<1>1. /\ s.groups \in GroupMaps
      /\ s \in [entries : Seq(St!Entry), groups : GroupMaps, lastMs : Nat, lastSeq : Nat]
  BY DEF Stocks
<1>2. DOMAIN s.groups \subseteq Group /\ s.groups \in [DOMAIN s.groups -> Groups]
  BY <1>1, GroupMapsAre
<1>3. s.groups \in [DOMAIN s.groups -> St!Range(s.groups)]
  BY <1>2 DEF St!Range
<1>4. s \in [entries : Seq(St!Entry), groups : [DOMAIN s.groups -> St!Range(s.groups)],
             lastMs : Nat, lastSeq : Nat]
  BY <1>1, <1>3
<1>5. \A g \in DOMAIN s.groups : St!GroupOk(s.groups[g])
  BY <1>2, GroupsAreOk
<1> QED BY <1>2, <1>4, <1>5 DEF St!StreamOk

LEMMA NewStreamGood == ASSUME NEW a \in Seq(Nat) PROVE StreamGood(St!NewStream, a)
<1> DEFINE m == [g \in {} |-> 0]
           s == St!NewStream
<1>1. m \in GroupMaps /\ DOMAIN m = {}
  BY GroupMapsAre
<1>2. <<>> \in Seq(St!Entry) /\ Len(<<>>) = 0 /\ 1 .. 0 = {}
  BY EmptySeq
<1>3. s = [entries |-> <<>>, groups |-> m, lastMs |-> 0, lastSeq |-> 0]
  BY DEF St!NewStream
<1> HIDE DEF s, m
<1>4. s.entries = <<>> /\ s.groups = m /\ s \in Stocks
  BY <1>1, <1>2, <1>3 DEF Stocks
<1>5. Placed(s.entries, a)
  BY <1>2, <1>4 DEF Placed
<1> QED BY <1>1, <1>4, <1>5 DEF StreamGood, s

\* A stream that takes another map of groups.
LEMMA OtherGroupsGood ==
  ASSUME NEW s, NEW a, StreamGood(s, a), NEW m \in GroupMaps,
         \A g \in DOMAIN m : GroupGood(m[g], s.entries, a)
  PROVE  StreamGood([s EXCEPT !.groups = m], a)
<1> DEFINE q == [s EXCEPT !.groups = m]
<1>1. s \in Stocks /\ Placed(s.entries, a)
  BY DEF StreamGood
<1>2. q \in Stocks /\ q.groups = m /\ q.entries = s.entries
  BY <1>1 DEF Stocks
<1> HIDE DEF q
<1>3. StreamGood(q, a)
  BY <1>1, <1>2 DEF StreamGood
<1> QED BY <1>3 DEF q

LEMMA CreatedGroupGood ==
  ASSUME NEW s, NEW a, StreamGood(s, a), NEW g \in Group, NEW r, GroupGood(r, s.entries, a)
  PROVE  StreamGood([s EXCEPT !.groups = St!With(@, g, r)], a)
<1> DEFINE m == St!With(s.groups, g, r)
<1>1. DOMAIN s.groups \subseteq Group /\ s.groups \in [DOMAIN s.groups -> Groups] /\ r \in Groups
  <2>1. s.groups \in GroupMaps
    BY DEF StreamGood, Stocks
  <2> QED BY <2>1, GroupMapsAre DEF GroupGood
<1>2. /\ DOMAIN m = DOMAIN s.groups \cup {g} /\ m \in [DOMAIN m -> Groups]
      /\ \A x \in DOMAIN m : m[x] = IF x = g THEN r ELSE s.groups[x]
  BY <1>1 DEF St!With
<1> HIDE DEF m
<1>3. m \in GroupMaps
  BY <1>1, <1>2, GroupMapsAre
<1>4. \A x \in DOMAIN m : GroupGood(m[x], s.entries, a)
  BY <1>2 DEF StreamGood
<1>5. StreamGood([s EXCEPT !.groups = m], a)
  BY <1>3, <1>4, OtherGroupsGood
<1>6. [s EXCEPT !.groups = St!With(@, g, r)] = [s EXCEPT !.groups = m]
  BY DEF m
<1> QED BY <1>5, <1>6

LEMMA ChangedGroupGood ==
  ASSUME NEW s, NEW a, StreamGood(s, a), NEW g \in DOMAIN s.groups, NEW r,
         GroupGood(r, s.entries, a)
  PROVE  StreamGood([s EXCEPT !.groups[g] = r], a)
<1> DEFINE m == [s.groups EXCEPT ![g] = r]
<1>1. DOMAIN s.groups \subseteq Group /\ s.groups \in [DOMAIN s.groups -> Groups] /\ r \in Groups
  <2>1. s.groups \in GroupMaps
    BY DEF StreamGood, Stocks
  <2> QED BY <2>1, GroupMapsAre DEF GroupGood
<1>2. /\ DOMAIN m = DOMAIN s.groups /\ m \in [DOMAIN m -> Groups]
      /\ \A x \in DOMAIN m : m[x] = IF x = g THEN r ELSE s.groups[x]
  BY <1>1
<1> HIDE DEF m
<1>3. m \in GroupMaps
  BY <1>1, <1>2, GroupMapsAre
<1>4. \A x \in DOMAIN m : GroupGood(m[x], s.entries, a)
  BY <1>2 DEF StreamGood
<1>5. StreamGood([s EXCEPT !.groups = m], a)
  BY <1>3, <1>4, OtherGroupsGood
<1>6. [s EXCEPT !.groups[g] = r] = [s EXCEPT !.groups = m]
  BY DEF m
<1> QED BY <1>5, <1>6

\* An entry that is added is late for the groups that are past its identifier.
LEMMA AddedGood ==
  ASSUME NEW s, NEW a, StreamGood(s, a), NEW id \in Nat
  PROVE  StreamGood([s EXCEPT !.entries = Append(@, [id |-> id, n |-> Len(a) + 1])],
                    Append(a, id))
<1> DEFINE e == [id |-> id, n |-> Len(a) + 1]
           es == s.entries
           fs == Append(es, e)
           b == Append(a, id)
           q == [s EXCEPT !.entries = Append(@, e)]
<1>1. s \in Stocks /\ Placed(es, a) /\ es \in Seq(St!Entry) /\ a \in Seq(Nat)
  BY DEF StreamGood, Placed
<1>2. Len(es) \in Nat /\ Len(a) \in Nat /\ \A i \in 1 .. Len(a) : a[i] \in Nat
  BY <1>1, LenProperties, ElementOfSeq
<1>3. e \in St!Entry /\ e.id = id /\ e.n = Len(a) + 1
  BY <1>2 DEF St!Entry
<1> HIDE DEF e
<1>4. /\ fs \in Seq(St!Entry) /\ Len(fs) = Len(es) + 1 /\ fs[Len(es) + 1] = e
      /\ \A i \in 1 .. Len(es) : fs[i] = es[i]
  BY <1>1, <1>2, <1>3, AppendProperties
<1>5. /\ b \in Seq(Nat) /\ Len(b) = Len(a) + 1 /\ b[Len(a) + 1] = id
      /\ \A i \in 1 .. Len(a) : b[i] = a[i]
  BY <1>1, <1>2, AppendProperties
<1>6. \A i \in 1 .. Len(fs) : i = Len(es) + 1 \/ i \in 1 .. Len(es)
  BY <1>2, <1>4
<1>7. q \in Stocks /\ q.entries = fs /\ q.groups = s.groups
  BY <1>1, <1>4 DEF Stocks
<1> HIDE DEF es, fs, b, q
<1>8. \A i \in 1 .. Len(es) : es[i].n \in 1 .. Len(a) /\ a[es[i].n] = es[i].id
  BY <1>1 DEF Placed
<1>9. Placed(fs, b)
  <2>1. ASSUME NEW i \in 1 .. Len(fs) PROVE fs[i].n \in 1 .. Len(b) /\ b[fs[i].n] = fs[i].id
    <3>1. CASE i = Len(es) + 1
      BY <1>2, <1>3, <1>4, <1>5, <3>1
    <3>2. CASE i \in 1 .. Len(es)
      BY <1>2, <1>4, <1>5, <1>8, <3>2
    <3> QED BY <1>6, <3>1, <3>2
  <2>2. ASSUME NEW i \in 1 .. Len(fs), NEW j \in 1 .. Len(fs), i < j PROVE fs[i].n < fs[j].n
    <3>1. i \in 1 .. Len(es) /\ fs[i] = es[i] /\ es[i].n \in 1 .. Len(a)
      BY <1>2, <1>4, <1>8, <2>2
    <3>2. CASE j = Len(es) + 1
      BY <1>2, <1>3, <1>4, <3>1, <3>2
    <3>3. CASE j \in 1 .. Len(es)
      BY <1>1, <1>4, <2>2, <3>1, <3>3 DEF Placed
    <3> QED BY <1>6, <3>2, <3>3
  <2> QED BY <1>4, <1>5, <2>1, <2>2 DEF Placed
<1>10. ASSUME NEW g \in DOMAIN s.groups PROVE GroupGood(s.groups[g], fs, b)
  <2> DEFINE r == s.groups[g]
  <2>1. GroupGood(r, es, a)
    BY DEF StreamGood, es
  <2>2. r.lastId \in Nat /\ r.start \in Nat
    BY <2>1, GroupFields DEF GroupGood
  <2> HIDE DEF r
  <2>3. LastOk(r, a)
    BY <2>1 DEF GroupGood
  <2>4. LastOk(r, b)
    BY <1>2, <1>5, <2>3 DEF LastOk
  <2>5. ASSUME NEW i \in 1 .. Len(fs), fs[i].id <= r.lastId, fs[i] \notin St!Range(r.got)
        PROVE  Late(fs[i], r, b)
    <3>1. CASE i = Len(es) + 1
      <4>1. CASE r.lastId = r.start
        BY <1>4, <2>5, <3>1, <4>1 DEF Late
      <4>2. CASE \E j \in 1 .. Len(a) : a[j] = r.lastId
        <5>1. PICK j \in 1 .. Len(a) : a[j] = r.lastId
          BY <4>2
        <5>2. j \in 1 .. fs[i].n - 1 /\ b[j] >= fs[i].id
          BY <1>2, <1>3, <1>4, <1>5, <2>2, <2>5, <3>1, <5>1
        <5> QED BY <5>2 DEF Late
      <4> QED BY <2>3, <4>1, <4>2 DEF LastOk
    <3>2. CASE i \in 1 .. Len(es)
      <4>1. Late(es[i], r, a) /\ fs[i] = es[i] /\ es[i].n \in 1 .. Len(a)
        BY <1>4, <1>8, <2>1, <2>5, <3>2 DEF GroupGood, FairOk
      <4>2. \A j \in 1 .. es[i].n - 1 : b[j] = a[j]
        <5>1. es[i].n \in Nat /\ es[i].n <= Len(a)
          BY <1>2, <4>1
        <5>2. \A j \in 1 .. es[i].n - 1 : j \in 1 .. Len(a)
          BY <1>2, <5>1
        <5> QED BY <1>5, <5>2
      <4> QED BY <4>1, <4>2 DEF Late
    <3> QED BY <1>6, <3>1, <3>2
  <2>6. FairOk(r, fs, b)
    BY <2>5 DEF FairOk
  <2>7. GroupGood(r, fs, b)
    BY <2>1, <2>4, <2>6 DEF GroupGood
  <2> QED BY <2>7 DEF r
<1>11. StreamGood(q, b)
  BY <1>7, <1>9, <1>10 DEF StreamGood
<1> QED BY <1>11 DEF q, b, e

\* What is left after entries were removed is a selection of them in their order.
Selection(fs, es, old) ==
  /\ old \in [1 .. Len(fs) -> 1 .. Len(es)]
  /\ \A i, j \in 1 .. Len(fs) : i < j => old[i] < old[j]
  /\ \A i \in 1 .. Len(fs) : fs[i] = es[old[i]]

LEMMA FewerEntriesGood ==
  ASSUME NEW s, NEW a, StreamGood(s, a), NEW fs \in Seq(St!Entry), NEW old,
         Selection(fs, s.entries, old)
  PROVE  StreamGood([s EXCEPT !.entries = fs], a)
<1> DEFINE q == [s EXCEPT !.entries = fs]
<1>1. s \in Stocks /\ Placed(s.entries, a)
  BY DEF StreamGood
<1>2. q \in Stocks /\ q.entries = fs /\ q.groups = s.groups
  BY <1>1 DEF Stocks
<1> HIDE DEF q
<1>3. Placed(fs, a)
  <2>1. \A i \in 1 .. Len(fs) : old[i] \in 1 .. Len(s.entries)
    BY DEF Selection
  <2>2. \A i \in 1 .. Len(fs) : fs[i].n \in 1 .. Len(a) /\ a[fs[i].n] = fs[i].id
    BY <1>1, <2>1 DEF Placed, Selection
  <2>3. \A i, j \in 1 .. Len(fs) : i < j => fs[i].n < fs[j].n
    BY <1>1, <2>1 DEF Placed, Selection
  <2> QED BY <1>1, <2>2, <2>3 DEF Placed
<1>4. ASSUME NEW g \in DOMAIN s.groups PROVE GroupGood(s.groups[g], fs, a)
  <2> DEFINE r == s.groups[g]
  <2>1. GroupGood(r, s.entries, a)
    BY DEF StreamGood
  <2> HIDE DEF r
  <2>2. FairOk(r, fs, a)
    <3>1. \A i \in 1 .. Len(fs) : old[i] \in 1 .. Len(s.entries) /\ fs[i] = s.entries[old[i]]
      BY DEF Selection
    <3> QED BY <2>1, <3>1 DEF GroupGood, FairOk
  <2> QED BY <2>1, <2>2 DEF GroupGood, r
<1>5. StreamGood(q, a)
  BY <1>2, <1>3, <1>4 DEF StreamGood
<1> QED BY <1>5 DEF q------------------------------------------------------------------------------
(* The inductive invariant *)

IInv ==
  /\ now \in Nat /\ added \in [Key -> Seq(Nat)]
  /\ DOMAIN streams \subseteq Key
  /\ \A k \in DOMAIN streams : StreamGood(streams[k], added[k])

LEMMA InitIInv == St!Init => IInv
<1> SUFFICES ASSUME St!Init PROVE IInv
  OBVIOUS
<1>1. now = 1 /\ added = [k \in Key |-> <<>>] /\ DOMAIN streams = {}
  BY DEF St!Init
<1>2. <<>> \in Seq(Nat)
  BY EmptySeq
<1> QED BY <1>1, <1>2 DEF IInv

\* One stream is stored, and nothing is added to the others.
LEMMA PutKeeps ==
  ASSUME IInv, now' \in Nat, NEW k \in Key, NEW s, St!Put(k, s), added' \in [Key -> Seq(Nat)],
         StreamGood(s, added'[k]), \A j \in Key \ {k} : added'[j] = added[j]
  PROVE  IInv'
<1>1. /\ DOMAIN streams' = DOMAIN streams \cup {k} /\ streams'[k] = s
      /\ \A j \in DOMAIN streams \ {k} : streams'[j] = streams[j]
  BY DEF St!Put, St!With
<1>2. DOMAIN streams \subseteq Key
  BY DEF IInv
<1>3. ASSUME NEW j \in DOMAIN streams' PROVE StreamGood(streams'[j], added'[j])
  <2>1. CASE j = k
    BY <1>1, <2>1
  <2>2. CASE j # k
    BY <1>1, <1>2, <2>2 DEF IInv
  <2> QED BY <2>1, <2>2
<1> QED BY <1>1, <1>2, <1>3 DEF IInv

LEMMA PutInPlace ==
  ASSUME IInv, NEW k \in Key, NEW s, St!Put(k, s), UNCHANGED <<now, added>>,
         StreamGood(s, added[k])
  PROVE  IInv'
<1>1. now' = now /\ added' = added /\ now \in Nat /\ added \in [Key -> Seq(Nat)]
  BY DEF IInv
<1> QED BY <1>1, PutKeeps

LEMMA GetOrInitGood ==
  ASSUME IInv, NEW k \in Key
  PROVE  StreamGood(St!GetOrInit(k), added[k]) /\ added[k] \in Seq(Nat)
<1>1. added[k] \in Seq(Nat)
  BY DEF IInv
<1>2. CASE St!Exists(k)
  BY <1>1, <1>2 DEF IInv, St!GetOrInit, St!Exists
<1>3. CASE ~St!Exists(k)
  BY <1>1, <1>3, NewStreamGood DEF St!GetOrInit
<1> QED BY <1>1, <1>2, <1>3

LEMMA GroupIs ==
  ASSUME IInv, NEW k \in Key, NEW g, St!HasGroup(k, g)
  PROVE  /\ StreamGood(streams[k], added[k]) /\ g \in DOMAIN streams[k].groups
         /\ GroupGood(streams[k].groups[g], streams[k].entries, added[k])
         /\ Placed(streams[k].entries, added[k])
<1>1. k \in DOMAIN streams /\ g \in DOMAIN streams[k].groups
  BY DEF St!HasGroup, St!Exists
<1>2. StreamGood(streams[k], added[k])
  BY <1>1 DEF IInv
<1> QED BY <1>1, <1>2 DEF StreamGood

LEMMA AddKeeps ==
  ASSUME IInv, NEW k \in Key, NEW s, StreamGood(s, added[k]), NEW id \in Nat, St!Add(k, s, id)
  PROVE  IInv'
<1> DEFINE q == [s EXCEPT !.entries = Append(@, [id |-> id, n |-> Len(added[k]) + 1])]
<1>1. St!Put(k, q) /\ added' = [added EXCEPT ![k] = Append(@, id)] /\ now' = now
  BY DEF St!Add
<1>2. added \in [Key -> Seq(Nat)] /\ now \in Nat
  BY DEF IInv
<1>3. Append(added[k], id) \in Seq(Nat)
  BY <1>2, AppendProperties
<1>4. /\ added' \in [Key -> Seq(Nat)] /\ added'[k] = Append(added[k], id)
      /\ \A j \in Key \ {k} : added'[j] = added[j]
  BY <1>1, <1>2, <1>3
<1>5. StreamGood(q, added'[k])
  BY <1>4, AddedGood
<1> HIDE DEF q
<1> QED BY <1>1, <1>2, <1>4, <1>5, PutKeeps

LEMMA AutoKeeps == ASSUME IInv, NEW k \in Key, St!XAddAuto(k) PROVE IInv'
<1> DEFINE s == St!GetOrInit(k)
           n == St!NextSeq(s)
           q == [s EXCEPT !.lastMs = now, !.lastSeq = n]
<1>1. StreamGood(s, added[k]) /\ now \in Nat
  BY GetOrInitGood DEF IInv
<1>2. s \in Stocks
  BY <1>1 DEF StreamGood
<1>3. n \in Nat
  BY <1>2 DEF St!NextSeq, Stocks
<1>4. St!Add(k, q, 10 * now + n)
  BY DEF St!XAddAuto
<1> HIDE DEF s, n
<1>5. q \in Stocks /\ q.entries = s.entries /\ q.groups = s.groups
  BY <1>1, <1>2, <1>3 DEF Stocks
<1> HIDE DEF q
<1>6. StreamGood(q, added[k])
  BY <1>1, <1>5 DEF StreamGood
<1>7. 10 * now + n \in Nat
  BY <1>1, <1>3
<1> QED BY <1>4, <1>6, <1>7, AddKeeps

LEMMA XDelKeeps == ASSUME IInv, NEW k \in Key, NEW id, St!XDel(k, id) PROVE IInv'
<1> DEFINE s == streams[k]
           i == St!PlaceOf(id, s.entries)
           fs == St!RemoveAt(s.entries, i)
           old == [j \in 1 .. Len(fs) |-> IF j < i THEN j ELSE j + 1]
<1>1. k \in DOMAIN streams /\ i # 0 /\ St!Put(k, [s EXCEPT !.entries = fs])
  BY DEF St!XDel, St!Exists
<1>2. UNCHANGED <<now, added>>
  BY DEF St!XDel
<1>3. StreamGood(s, added[k])
  BY <1>1 DEF IInv
<1>4. s.entries \in Seq(St!Entry)
  BY <1>3 DEF StreamGood, Placed
<1>5. i \in 1 .. Len(s.entries) /\ Len(s.entries) \in Nat
  BY <1>1, <1>4, PlaceOfIs, LenProperties
<1> HIDE DEF s, i
<1>6. /\ fs \in Seq(St!Entry) /\ Len(fs) = Len(s.entries) - 1
      /\ \A j \in 1 .. Len(fs) : fs[j] = s.entries[IF j < i THEN j ELSE j + 1]
  BY <1>4, <1>5, RemoveAtIs
<1> HIDE DEF fs
<1>7. Selection(fs, s.entries, old)
  <2>1. \A j \in 1 .. Len(fs) : old[j] = (IF j < i THEN j ELSE j + 1)
    OBVIOUS
  <2>2. \A j \in 1 .. Len(fs) : (IF j < i THEN j ELSE j + 1) \in 1 .. Len(s.entries)
    BY <1>5, <1>6
  <2>3. old \in [1 .. Len(fs) -> 1 .. Len(s.entries)]
    BY <2>2
  <2> HIDE DEF old
  <2>4. \A j, m \in 1 .. Len(fs) : j < m => old[j] < old[m]
    BY <1>5, <1>6, <2>1
  <2>5. \A j \in 1 .. Len(fs) : fs[j] = s.entries[old[j]]
    BY <1>6, <2>1
  <2> QED BY <2>3, <2>4, <2>5 DEF Selection
<1> HIDE DEF old
<1>8. StreamGood([s EXCEPT !.entries = fs], added[k])
  BY <1>3, <1>6, <1>7, FewerEntriesGood
<1> QED BY <1>1, <1>2, <1>8, PutInPlace

LEMMA XTrimKeeps == ASSUME IInv, NEW k \in Key, NEW n \in Nat, St!XTrim(k, n) PROVE IInv'
<1> DEFINE s == streams[k]
           es == s.entries
           fs == SubSeq(es, Len(es) - n + 1, Len(es))
           old == [j \in 1 .. Len(fs) |-> Len(es) - n + j]
<1>1. k \in DOMAIN streams /\ Len(es) > n /\ St!Put(k, [s EXCEPT !.entries = fs])
  BY DEF St!XTrim, St!Exists
<1>2. UNCHANGED <<now, added>>
  BY DEF St!XTrim
<1>3. StreamGood(s, added[k])
  BY <1>1 DEF IInv
<1>4. es \in Seq(St!Entry)
  BY <1>3 DEF StreamGood, Placed
<1>5. Len(es) \in Nat /\ \A j \in 1 .. Len(es) : es[j] \in St!Entry
  BY <1>4, LenProperties, ElementOfSeq
<1>6. /\ fs \in Seq(St!Entry) /\ Len(fs) = n
      /\ \A j \in 1 .. n : fs[j] = es[Len(es) - n + j]
  <2> DEFINE from == Len(es) - n + 1
  <2>1. from \in Int /\ Len(es) \in Int /\ \A j \in from .. Len(es) : es[j] \in St!Entry
    BY <1>1, <1>5
  <2> HIDE DEF from, es
  <2>2. /\ SubSeq(es, from, Len(es)) \in Seq(St!Entry)
        /\ Len(SubSeq(es, from, Len(es))) = IF from <= Len(es) THEN Len(es) - from + 1 ELSE 0
        /\ \A j \in 1 .. Len(es) - from + 1 : SubSeq(es, from, Len(es))[j] = es[from + j - 1]
    BY <2>1, SubSeqProperties
  <2>3. fs = SubSeq(es, from, Len(es))
    BY DEF from
  <2> HIDE DEF fs
  <2>4. /\ (IF from <= Len(es) THEN Len(es) - from + 1 ELSE 0) = n /\ Len(es) - from + 1 = n
        /\ \A j \in 1 .. n : from + j - 1 = Len(es) - n + j
    BY <1>1, <1>5 DEF from
  <2> QED BY <2>2, <2>3, <2>4
<1> HIDE DEF fs
<1>7. Selection(fs, es, old)
  BY <1>1, <1>5, <1>6 DEF Selection
<1> HIDE DEF old
<1>8. StreamGood([s EXCEPT !.entries = fs], added[k])
  BY <1>3, <1>6, <1>7, FewerEntriesGood
<1> QED BY <1>1, <1>2, <1>8, PutInPlace

LEMMA DelKeeps == ASSUME IInv, NEW k \in Key, St!Del(k) PROVE IInv'
<1>1. /\ DOMAIN streams' = DOMAIN streams \ {k} /\ now' = now
      /\ \A j \in DOMAIN streams \ {k} : streams'[j] = streams[j]
      /\ added' = [added EXCEPT ![k] = <<>>]
  BY DEF St!Del
<1>2. <<>> \in Seq(Nat)
  BY EmptySeq
<1>3. /\ added \in [Key -> Seq(Nat)] /\ now \in Nat /\ DOMAIN streams \subseteq Key
      /\ \A j \in DOMAIN streams : StreamGood(streams[j], added[j])
  BY DEF IInv
<1>4. added' \in [Key -> Seq(Nat)] /\ \A j \in Key \ {k} : added'[j] = added[j]
  BY <1>1, <1>2, <1>3
<1>5. \A j \in DOMAIN streams' : StreamGood(streams'[j], added'[j])
  BY <1>1, <1>3, <1>4
<1> QED BY <1>1, <1>3, <1>4, <1>5 DEF IInv

LEMMA XGroupCreateKeeps ==
  ASSUME IInv, NEW k \in Key, NEW g \in Group, NEW id \in Nat, St!XGroupCreate(k, g, id)
  PROVE  IInv'
<1> DEFINE s == St!GetOrInit(k)
           q == [s EXCEPT !.groups = St!With(@, g, St!NewGroup(id, Len(added[k])))]
<1>1. St!Put(k, q) /\ UNCHANGED <<now, added>>
  BY DEF St!XGroupCreate
<1>2. StreamGood(s, added[k])
  BY GetOrInitGood
<1> HIDE DEF s
<1>3. Placed(s.entries, added[k])
  BY <1>2 DEF StreamGood
<1>4. GroupGood(St!NewGroup(id, Len(added[k])), s.entries, added[k])
  BY <1>3, NewGroupGood
<1>5. StreamGood(q, added[k])
  BY <1>2, <1>4, CreatedGroupGood
<1> HIDE DEF q
<1> QED BY <1>1, <1>5, PutInPlace

LEMMA LastIdIsNat == ASSUME NEW s \in Stocks PROVE St!LastId(s) \in Nat
<1>1. s.entries \in Seq(St!Entry)
  BY DEF Stocks
<1>2. CASE s.entries = <<>>
  BY <1>2 DEF St!LastId
<1>3. CASE s.entries # <<>>
  <2>1. Len(s.entries) \in 1 .. Len(s.entries)
    BY <1>1, <1>3, EmptySeq
  <2>2. St!Last(s.entries) \in St!Entry
    BY <1>1, <2>1, ElementOfSeq DEF St!Last
  <2> QED BY <1>3, <2>2 DEF St!LastId, St!Entry
<1> QED BY <1>2, <1>3

LEMMA XReadGroupKeeps ==
  ASSUME IInv, NEW g, NEW c \in Consumer, NEW ks, \A i \in DOMAIN ks : ks[i] \in Key,
         \A i \in DOMAIN ks : i \in 1 .. i, NEW count \in Nat, St!XReadGroup(g, c, ks, count)
  PROVE  IInv'
<1> DEFINE read == {i \in DOMAIN ks : \A j \in 1 .. i : St!HasGroup(ks[j], g)}
           K == {ks[i] : i \in read}
           new(k) == [streams[k] EXCEPT !.groups[g] = St!ReadGroup(@, c, streams[k], count)]
<1>1. streams' = [k \in DOMAIN streams |-> IF k \in K THEN new(k) ELSE streams[k]]
  BY DEF St!XReadGroup
<1>2. now' = now /\ added' = added
  BY DEF St!XReadGroup
<1>3. \A k \in K : k \in Key /\ St!HasGroup(k, g)
  OBVIOUS
<1>4. ASSUME NEW k \in K PROVE StreamGood(new(k), added[k])
  <2> DEFINE r == streams[k].groups[g]
  <2>1. /\ StreamGood(streams[k], added[k]) /\ g \in DOMAIN streams[k].groups
        /\ GroupGood(r, streams[k].entries, added[k]) /\ Placed(streams[k].entries, added[k])
    BY <1>3, GroupIs
  <2>2. GroupGood(St!ReadGroup(r, c, streams[k], count), streams[k].entries, added[k])
    BY <2>1, ReadGroupGood
  <2>3. new(k) = [streams[k] EXCEPT !.groups[g] = St!ReadGroup(r, c, streams[k], count)]
    OBVIOUS
  <2> HIDE DEF r, new
  <2> QED BY <2>1, <2>2, <2>3, ChangedGroupGood
<1> HIDE DEF K, new
<1>5. DOMAIN streams' = DOMAIN streams
  BY <1>1
<1>6. ASSUME NEW k \in DOMAIN streams' PROVE StreamGood(streams'[k], added'[k])
  BY <1>1, <1>2, <1>4, <1>5 DEF IInv
<1> QED BY <1>2, <1>5, <1>6 DEF IInv

LEMMA XAckKeeps == ASSUME IInv, NEW k \in Key, NEW g, NEW id, St!XAck(k, g, id) PROVE IInv'
<1> DEFINE r == St!Acked(streams[k].groups[g], id)
           s == [streams[k] EXCEPT !.groups[g] = r]
<1>1. St!HasGroup(k, g) /\ St!Put(k, s) /\ UNCHANGED <<now, added>>
  BY DEF St!XAck, St!PutGroup
<1>2. /\ StreamGood(streams[k], added[k]) /\ g \in DOMAIN streams[k].groups
      /\ GroupGood(streams[k].groups[g], streams[k].entries, added[k])
  BY <1>1, GroupIs
<1>3. GroupGood(r, streams[k].entries, added[k])
  BY <1>2, AckedGood
<1> HIDE DEF r
<1>4. StreamGood(s, added[k])
  BY <1>2, <1>3, ChangedGroupGood
<1> HIDE DEF s
<1> QED BY <1>1, <1>4, PutInPlace

LEMMA XClaimKeeps ==
  ASSUME IInv, NEW k \in Key, NEW g, NEW c \in Consumer, NEW id, St!XClaim(k, g, c, id)
  PROVE  IInv'
<1> DEFINE r == St!Claimed(streams[k].groups[g], c, id)
           s == [streams[k] EXCEPT !.groups[g] = r]
<1>1. St!HasGroup(k, g) /\ St!Put(k, s) /\ UNCHANGED <<now, added>>
  BY DEF St!XClaim, St!PutGroup
<1>2. /\ StreamGood(streams[k], added[k]) /\ g \in DOMAIN streams[k].groups
      /\ GroupGood(streams[k].groups[g], streams[k].entries, added[k])
  BY <1>1, GroupIs
<1>3. GroupGood(r, streams[k].entries, added[k])
  BY <1>2, ClaimedGood
<1> HIDE DEF r
<1>4. StreamGood(s, added[k])
  BY <1>2, <1>3, ChangedGroupGood
<1> HIDE DEF s
<1> QED BY <1>1, <1>4, PutInPlace

LEMMA NextIInv == IInv /\ [St!Next]_St!vars => IInv'
<1> SUFFICES ASSUME IInv, [St!Next]_St!vars PROVE IInv'
  OBVIOUS
<1> USE StreamsAssumption
<1>1. ASSUME NEW k \in Key, St!XAddAuto(k) PROVE IInv'
  BY <1>1, AutoKeeps
<1>2. ASSUME NEW k \in Key, St!Del(k) PROVE IInv'
  BY <1>2, DelKeeps
<1>3. ASSUME NEW k \in Key, NEW id \in Explicit, St!XAdd(k, id) PROVE IInv'
  <2>1. id \in Nat /\ St!Add(k, St!GetOrInit(k), id)
    BY <1>3 DEF StreamsAssumption, St!XAdd
  <2> QED BY <2>1, GetOrInitGood, AddKeeps
<1>4. ASSUME NEW k \in Key, NEW id, St!XDel(k, id) PROVE IInv'
  BY <1>4, XDelKeeps
<1>5. ASSUME NEW k \in Key, NEW n \in Counts, St!XTrim(k, n) PROVE IInv'
  <2>1. n \in Nat
    BY DEF StreamsAssumption
  <2> QED BY <1>5, <2>1, XTrimKeeps
<1>6. ASSUME NEW k \in Key, NEW g \in Group, St!XGroupCreateAtEnd(k, g) PROVE IInv'
  <2>1. St!GetOrInit(k) \in Stocks
    BY GetOrInitGood DEF StreamGood
  <2>2. St!LastId(St!GetOrInit(k)) \in Nat
    BY <2>1, LastIdIsNat
  <2> QED BY <1>6, <2>2, XGroupCreateKeeps DEF St!XGroupCreateAtEnd
<1>7. ASSUME NEW k \in Key, NEW g \in Group, St!XGroupCreate(k, g, 0) PROVE IInv'
  BY <1>7, XGroupCreateKeeps
<1>8. ASSUME NEW g \in Group, NEW c \in Consumer, NEW n \in Counts, NEW k \in Key,
             St!XReadGroup(g, c, <<k>>, n)
      PROVE  IInv'
  <2> DEFINE ks == <<k>>
  <2>1. n \in Nat /\ (\A i \in DOMAIN ks : ks[i] \in Key) /\ (\A i \in DOMAIN ks : i \in 1 .. i)
    BY DEF StreamsAssumption
  <2> HIDE DEF ks
  <2>2. St!XReadGroup(g, c, ks, n)
    BY <1>8 DEF ks
  <2> QED BY <2>1, <2>2, XReadGroupKeeps
<1>9. ASSUME NEW g \in Group, NEW c \in Consumer, NEW n \in Counts, NEW j \in Key, NEW k \in Key,
             St!XReadGroup(g, c, <<j, k>>, n)
      PROVE  IInv'
  <2> DEFINE ks == <<j, k>>
  <2>1. n \in Nat /\ (\A i \in DOMAIN ks : ks[i] \in Key) /\ (\A i \in DOMAIN ks : i \in 1 .. i)
    BY DEF StreamsAssumption
  <2> HIDE DEF ks
  <2>2. St!XReadGroup(g, c, ks, n)
    BY <1>9 DEF ks
  <2> QED BY <2>1, <2>2, XReadGroupKeeps
<1>10. ASSUME NEW k \in Key, NEW g \in Group, NEW id, St!XAck(k, g, id) PROVE IInv'
  BY <1>10, XAckKeeps
<1>11. ASSUME NEW k \in Key, NEW g \in Group, NEW id, NEW c \in Consumer, St!XClaim(k, g, c, id)
       PROVE  IInv'
  BY <1>11, XClaimKeeps
<1>12. ASSUME St!Tick PROVE IInv'
  BY <1>12 DEF St!Tick, IInv
<1>13. ASSUME UNCHANGED St!vars PROVE IInv'
  BY <1>13 DEF St!vars, IInv
<1> QED
  BY <1>1, <1>2, <1>3, <1>4, <1>5, <1>6, <1>7, <1>8, <1>9, <1>10, <1>11, <1>12, <1>13 DEF St!Next

LEMMA SpecIInv == St!Spec => []IInv
BY InitIInv, NextIInv, PTL DEF St!Spec
------------------------------------------------------------------------------
(* What it implies *)

LEMMA IInvTypes == IInv => St!TypeOK
<1> SUFFICES ASSUME IInv PROVE St!TypeOK
  OBVIOUS
<1>1. \A k \in DOMAIN streams : St!StreamOk(streams[k])
  BY StocksAreOk DEF IInv, StreamGood
<1> QED BY <1>1 DEF IInv, St!TypeOK

LEMMA EveryGroupGood ==
  ASSUME IInv, NEW k \in DOMAIN streams, NEW g \in DOMAIN streams[k].groups
  PROVE  /\ GroupGood(streams[k].groups[g], streams[k].entries, added[k])
         /\ streams[k].groups[g].pending \in Seq(Pending)
         /\ streams[k].groups[g].got \in Seq(St!Entry)
         /\ streams[k].entries \in Seq(St!Entry)
<1>1. StreamGood(streams[k], added[k])
  BY DEF IInv
<1>2. GroupGood(streams[k].groups[g], streams[k].entries, added[k])
  BY <1>1 DEF StreamGood
<1> QED BY <1>1, <1>2, GroupFields DEF GroupGood, StreamGood, Placed

LEMMA IInvMatches == IInv => St!PendingMatchesConsumers
<1> SUFFICES ASSUME IInv, NEW k \in DOMAIN streams, NEW g \in DOMAIN streams[k].groups
             PROVE  LET r == streams[k].groups[g]
                    IN  /\ \A i \in DOMAIN r.pending : r.pending[i].id \in r.held[r.pending[i].by]
                        /\ \A c \in DOMAIN r.held :
                             r.held[c] \subseteq {r.pending[i].id : i \in DOMAIN r.pending}
  BY DEF St!PendingMatchesConsumers, St!EveryGroup
<1> DEFINE r == streams[k].groups[g]
<1>1. WaitsOk(r.pending, r.held, r.lastId) /\ r.pending \in Seq(Pending)
  BY EveryGroupGood DEF GroupGood
<1>2. DOMAIN r.pending = 1 .. Len(r.pending)
  BY <1>1, LenProperties
<1> HIDE DEF r
<1>3. /\ \A i \in DOMAIN r.pending : r.pending[i].id \in r.held[r.pending[i].by]
      /\ \A c \in DOMAIN r.held : r.held[c] \subseteq {r.pending[i].id : i \in DOMAIN r.pending}
  BY <1>1, <1>2 DEF WaitsOk
<1> QED BY <1>3 DEF r

LEMMA IInvOnce == IInv => St!HandedOutOnce
<1> SUFFICES ASSUME IInv, NEW k \in DOMAIN streams, NEW g \in DOMAIN streams[k].groups
             PROVE  \A i, j \in DOMAIN streams[k].groups[g].got :
                      i < j => streams[k].groups[g].got[i].id < streams[k].groups[g].got[j].id
  BY DEF St!HandedOutOnce, St!EveryGroup
<1> DEFINE r == streams[k].groups[g]
<1>1. GotOk(r) /\ r.got \in Seq(St!Entry)
  BY EveryGroupGood DEF GroupGood
<1>2. DOMAIN r.got = 1 .. Len(r.got)
  BY <1>1, LenProperties
<1> HIDE DEF r
<1>3. \A i, j \in DOMAIN r.got : i < j => r.got[i].id < r.got[j].id
  BY <1>1, <1>2 DEF GotOk
<1> QED BY <1>3 DEF r

LEMMA IInvFair == IInv => St!OnlyLateEntriesArePassedOver
<1> SUFFICES ASSUME IInv, NEW k \in DOMAIN streams, NEW g \in DOMAIN streams[k].groups,
                    NEW e \in St!Range(streams[k].entries),
                    e.id <= streams[k].groups[g].lastId, e \notin St!Range(streams[k].groups[g].got)
             PROVE  \/ e.n <= streams[k].groups[g].since \/ e.id <= streams[k].groups[g].start
                    \/ \E j \in 1 .. e.n - 1 : added[k][j] >= e.id
  BY DEF St!OnlyLateEntriesArePassedOver, St!EveryGroup
<1> DEFINE r == streams[k].groups[g]
           es == streams[k].entries
<1>1. FairOk(r, es, added[k]) /\ es \in Seq(St!Entry)
  BY EveryGroupGood DEF GroupGood
<1>2. DOMAIN es = 1 .. Len(es)
  BY <1>1, LenProperties
<1>3. PICK i \in 1 .. Len(es) : es[i] = e
  BY <1>2 DEF St!Range
<1>4. Late(e, r, added[k])
  BY <1>1, <1>3 DEF FairOk
<1> QED BY <1>4 DEF Late

(* Every behaviour is of one family: its steps are those of the family's module. *)

LEMMA StreamsBegin == Init /\ family = "streams" => St!Init
BY DEF Init

LEMMA StreamsStep == [Next]_vars => family' = family /\ (family = "streams" => [St!Next]_St!vars)
BY DEF Next, vars, streamVars, St!vars

StreamsInv == family = "streams" => IInv

LEMMA StreamsAlways == Spec => []StreamsInv
<1>1. Init => StreamsInv
  BY StreamsBegin, InitIInv DEF StreamsInv
<1>2. StreamsInv /\ [Next]_vars => StreamsInv'
  BY StreamsStep, NextIInv DEF StreamsInv
<1> QED BY <1>1, <1>2, PTL DEF Spec

(* The list of a group and the maps of its consumers agree after any reads, claims and *)
(* acknowledgements: XREADGROUP, XACK and XCLAIM change the two together. *)
THEOREM PendingAlwaysMatches == Spec => []PendingMatchesConsumers
<1>1. StreamsInv => PendingMatchesConsumers
  BY IInvTypes, IInvMatches DEF StreamsInv, PendingMatchesConsumers
<1> QED BY <1>1, StreamsAlways, PTL

(* A group hands every entry out once and in the order of the identifiers, and passes *)
(* over only entries that came late, whatever is added, trimmed or deleted and however *)
(* many entries XREADGROUP may read. *)
THEOREM GroupsReadOnce == Spec => []GroupsReadEachEntryOnce
<1>1. StreamsInv => GroupsReadEachEntryOnce
  BY IInvOnce, IInvFair DEF StreamsInv, GroupsReadEachEntryOnce, St!GroupsReadEachEntryOnce
<1> QED BY <1>1, StreamsAlways, PTL
------------------------------------------------------------------------------
(* Document indexes.  The index is a function of the documents it is of and of what they *)
(* were: every command changes it as that function changes, a rebuild by a fold.         *)

DocType == [json : BOOLEAN, terms : SUBSET Term, price : Price \cup {NoNumber}]

(* The index of the documents ds, which are what w says. *)
TextOf(ds, w)    == [t \in {u \in Term : \E k \in ds : u \in w[k].terms} |-> {k \in ds : t \in w[k].terms}]
NumericOf(ds, w) == [k \in {x \in ds : w[x].price # NoNumber} |-> w[k].price]
IndexOf(ds, w)   == [text |-> TextOf(ds, w), numeric |-> NumericOf(ds, w)]

DocsTyped ==
  /\ kv \in [Doc -> DocType] /\ indexed \in [Doc -> DocType]
  /\ kv \in [Doc -> Document \cup {Dc!NotJson}] /\ indexed \in [Doc -> Document \cup {Dc!NotJson}]
  /\ docs \subseteq Doc /\ prefixed \subseteq Doc /\ exists \in BOOLEAN

DocsInv ==
  /\ DocsTyped
  /\ text = TextOf(docs, indexed) /\ numeric = NumericOf(docs, indexed)

LEMMA DocumentsAreTyped == Document \cup {Dc!NotJson} \subseteq DocType
<1>1. Document \subseteq DocType
  BY DocumentsAssumption DEF DocumentsAssumption, DocType
<1>2. Dc!NotJson \in DocType
  <2>1. FALSE \in BOOLEAN /\ {} \in SUBSET Term /\ NoNumber \in Price \cup {NoNumber}
    OBVIOUS
  <2> QED BY <2>1 DEF DocType, Dc!NotJson
<1> QED BY <1>1, <1>2

LEMMA UnindexedIs ==
  ASSUME NEW ds \in SUBSET Doc, NEW w \in [Doc -> DocType], NEW k
  PROVE  /\ Dc!Unindexed(IndexOf(ds, w), k).text = TextOf(ds \ {k}, w)
         /\ Dc!Unindexed(IndexOf(ds, w), k).numeric = NumericOf(ds \ {k}, w)
<1> DEFINE a == IndexOf(ds, w)
           left(t) == a.text[t] \ {k}
           U == {u \in DOMAIN a.text : left(u) # {}}
           V == {u \in Term : \E x \in ds \ {k} : u \in w[x].terms}
<1>1. a.text = TextOf(ds, w) /\ a.numeric = NumericOf(ds, w)
  BY DEF IndexOf
<1>2. \A t \in DOMAIN a.text : left(t) = {x \in ds \ {k} : t \in w[x].terms}
  BY <1>1 DEF TextOf
<1>3. U = V
  BY <1>1, <1>2 DEF TextOf
<1>4. [t \in U |-> left(t)] = [t \in V |-> {x \in ds \ {k} : t \in w[x].terms}]
  <2> HIDE DEF left, V
  <2>1. \A t \in V : t \in DOMAIN a.text BY <1>3
  <2> HIDE DEF U
  <2> QED BY <1>2, <1>3, <2>1
<1>5. Dc!Unindexed(a, k).text = [t \in U |-> left(t)]
  BY DEF Dc!Unindexed
<1>6. Dc!Unindexed(a, k).numeric = [x \in DOMAIN a.numeric \ {k} |-> a.numeric[x]]
  BY DEF Dc!Unindexed, Dc!Without
<1>7. [x \in DOMAIN a.numeric \ {k} |-> a.numeric[x]] = NumericOf(ds \ {k}, w)
  BY <1>1 DEF NumericOf
<1> QED BY <1>4, <1>5, <1>6, <1>7 DEF TextOf

LEMMA WithObjectIs ==
  ASSUME NEW ds \in SUBSET Doc, NEW w \in [Doc -> DocType], NEW k \in Doc \ ds, NEW d \in DocType,
         NEW v \in [Doc -> DocType], v[k] = d, \A x \in ds : v[x] = w[x]
  PROVE  Dc!WithObject(IndexOf(ds, w), k, d) = IndexOf(ds \cup {k}, v)
<1> DEFINE a == IndexOf(ds, w)
           In(t) == (IF t \in DOMAIN a.text THEN a.text[t] ELSE {}) \cup (IF t \in d.terms THEN {k} ELSE {})
           U == DOMAIN a.text \cup d.terms
           V == {u \in Term : \E x \in ds \cup {k} : u \in v[x].terms}
<1>1. a.text = TextOf(ds, w) /\ a.numeric = NumericOf(ds, w)
  BY DEF IndexOf
<1>2. d.terms \subseteq Term
  BY DEF DocType
<1>3. U = V
  BY <1>1, <1>2 DEF TextOf
<1>4. \A t \in V : In(t) = {x \in ds \cup {k} : t \in v[x].terms}
  BY <1>1 DEF TextOf
<1>5. [t \in U |-> In(t)] = TextOf(ds \cup {k}, v)
  <2> HIDE DEF In, U
  <2>1. [t \in U |-> In(t)] = [t \in V |-> {x \in ds \cup {k} : t \in v[x].terms}]
    <3> HIDE DEF V
    <3> QED BY <1>3, <1>4
  <2> QED BY <2>1 DEF TextOf
<1> DEFINE N == IF d.price = NoNumber THEN a.numeric
                ELSE [x \in DOMAIN a.numeric \cup {k} |-> IF x = k THEN d.price ELSE a.numeric[x]]
<1>6. N = NumericOf(ds \cup {k}, v)
  <2>1. CASE d.price = NoNumber
    <3>1. {x \in ds \cup {k} : v[x].price # NoNumber} = {x \in ds : w[x].price # NoNumber}
      BY <2>1
    <3> QED BY <1>1, <2>1, <3>1 DEF NumericOf
  <2>2. CASE d.price # NoNumber
    <3>1. {x \in ds \cup {k} : v[x].price # NoNumber} = {x \in ds : w[x].price # NoNumber} \cup {k}
      BY <2>2
    <3> QED BY <1>1, <2>2, <3>1 DEF NumericOf
  <2> QED BY <2>1, <2>2
<1>7. Dc!WithObject(a, k, d) = [text |-> [t \in U |-> In(t)], numeric |-> N]
  BY DEF Dc!WithObject
<1> HIDE DEF N, In, U
<1> QED BY <1>5, <1>6, <1>7 DEF IndexOf

(* Each command *)

LEMMA DocsIndexIs == DocsInv => Dc!Index = IndexOf(docs, indexed)
BY DEF DocsInv, Dc!Index, IndexOf

LEMMA IndexAddKeeps ==
  ASSUME DocsInv, NEW k \in Doc, Dc!IndexAdd(k) PROVE DocsInv'
<1> USE DEF DocsInv, DocsTyped
<1> DEFINE w == [indexed EXCEPT ![k] = kv[k]]
<1>1. /\ docs' = docs \cup {k} /\ indexed' = w /\ UNCHANGED <<kv, exists, prefixed>>
      /\ Dc!Becomes(Dc!WithObject(Dc!Unindexed(Dc!Index, k), k, kv[k]))
  BY DEF Dc!IndexAdd
<1>2. w \in [Doc -> DocType] /\ w[k] = kv[k] /\ kv[k] \in DocType /\ \A x \in docs \ {k} : w[x] = indexed[x]
  OBVIOUS
<1>3. Dc!Unindexed(Dc!Index, k) = IndexOf(docs \ {k}, indexed)
  <2>1. Dc!Index = IndexOf(docs, indexed)
    BY DocsIndexIs
  <2>2. /\ Dc!Unindexed(Dc!Index, k).text = TextOf(docs \ {k}, indexed)
        /\ Dc!Unindexed(Dc!Index, k).numeric = NumericOf(docs \ {k}, indexed)
    BY <2>1, UnindexedIs
  <2> QED BY <2>2 DEF IndexOf, Dc!Unindexed
<1>4. Dc!WithObject(IndexOf(docs \ {k}, indexed), k, kv[k]) = IndexOf((docs \ {k}) \cup {k}, w)
  <2> HIDE DEF w
  <2>1. docs \ {k} \in SUBSET Doc /\ k \in Doc \ (docs \ {k}) OBVIOUS
  <2> QED BY <1>2, <2>1, WithObjectIs
<1>5. (docs \ {k}) \cup {k} = docs \cup {k}
  OBVIOUS
<1>6. text' = TextOf(docs', indexed') /\ numeric' = NumericOf(docs', indexed')
  <2> HIDE DEF w
  <2>1. Dc!WithObject(Dc!Unindexed(Dc!Index, k), k, kv[k]) = IndexOf(docs \cup {k}, w)
    BY <1>3, <1>4, <1>5
  <2>2. Dc!Becomes(IndexOf(docs \cup {k}, w))
    BY <1>1, <2>1
  <2>3. text' = TextOf(docs \cup {k}, w) /\ numeric' = NumericOf(docs \cup {k}, w)
    BY <2>2 DEF Dc!Becomes, IndexOf
  <2>4. TextOf(docs \cup {k}, w) = TextOf(docs', indexed') /\ NumericOf(docs \cup {k}, w) = NumericOf(docs', indexed')
    BY <1>1 DEF TextOf, NumericOf
  <2> QED BY <2>3, <2>4
<1>7. DocsTyped'
  BY <1>1, <1>2
<1> QED BY <1>6, <1>7

LEMMA IndexDelKeeps ==
  ASSUME DocsInv, NEW k \in Doc, Dc!IndexDel(k) PROVE DocsInv'
<1> USE DEF DocsInv, DocsTyped
<1>1. docs' = docs \ {k} /\ UNCHANGED <<kv, exists, prefixed, indexed>> /\ Dc!Becomes(Dc!Unindexed(Dc!Index, k))
  BY DEF Dc!IndexDel
<1>2. Dc!Index = IndexOf(docs, indexed)
  BY DocsIndexIs
<1>3. /\ Dc!Unindexed(Dc!Index, k).text = TextOf(docs \ {k}, indexed)
      /\ Dc!Unindexed(Dc!Index, k).numeric = NumericOf(docs \ {k}, indexed)
  BY <1>2, UnindexedIs
<1> QED BY <1>1, <1>3 DEF Dc!Becomes

(* No document is indexed: the maps are empty. *)
LEMMA EmptyIs ==
  ASSUME NEW w PROVE TextOf({}, w) = <<>> /\ NumericOf({}, w) = <<>>
BY DEF TextOf, NumericOf

LEMMA CreateKeeps == ASSUME DocsInv, (\E matched \in Prefixes : Dc!Create(matched)) \/ Dc!Drop PROVE DocsInv'
<1>1. /\ text' = <<>> /\ numeric' = <<>> /\ docs' = {} /\ exists' \in BOOLEAN /\ prefixed' \subseteq Doc
      /\ UNCHANGED <<kv, indexed>>
  BY DocumentsAssumption DEF DocumentsAssumption, Dc!Create, Dc!Drop, Dc!Becomes, Dc!Empty
<1>2. text' = TextOf(docs', indexed') /\ numeric' = NumericOf(docs', indexed')
  BY <1>1, EmptyIs
<1> QED BY <1>1, <1>2 DEF DocsInv, DocsTyped

LEMMA ChangeKeeps ==
  ASSUME DocsInv, NEW k \in Doc, NEW d \in Document \cup {Dc!NotJson}, Dc!Change(k, d) PROVE DocsInv'
<1>1. kv' = [kv EXCEPT ![k] = d] /\ UNCHANGED <<text, numeric, docs, exists, prefixed, indexed>>
  BY DEF Dc!Change
<1>2. d \in DocType
  BY DocumentsAreTyped
<1> QED BY <1>1, <1>2 DEF DocsInv, DocsTyped

(* A rebuild *)

Adding(index, k) == Dc!WithObject(index, k, kv[k])

Rebuilding == INSTANCE Folding WITH Step <- Adding

LEMMA SetToSeqIs ==
  ASSUME NEW S, IsFiniteSet(S)
  PROVE  LET s == Dc!SetToSeq(S) IN
         \E n \in Nat : /\ s \in [1 .. n -> S] /\ Dc!Range(s) = S
                        /\ \A i, j \in 1 .. n : s[i] = s[j] => i = j
<1> DEFINE n == Cardinality(S)
           One(f) == f \in [1 .. n -> S] /\ \A i, j \in 1 .. n : f[i] = f[j] => i = j
           s == Dc!SetToSeq(S)
<1>1. n \in Nat /\ ExistsBijection(1 .. n, S)
  BY FS_CardinalityType
<1>2. Dc!Cardinality(S) = n
  BY DEF Dc!Cardinality, Cardinality
<1> HIDE DEF n
<1>3. \E f : One(f)
  BY <1>1, Fun_BijectionProperties DEF ExistsBijection
<1>4. s = CHOOSE f \in [1 .. n -> S] : \A i, j \in DOMAIN f : f[i] = f[j] => i = j
  BY <1>2 DEF Dc!SetToSeq, Dc!IsInjective
<1>5. One(s)
  <2>1. \E f \in [1 .. n -> S] : \A i, j \in DOMAIN f : f[i] = f[j] => i = j
    BY <1>3
  <2> HIDE DEF s
  <2>2. s \in [1 .. n -> S] /\ \A i, j \in DOMAIN s : s[i] = s[j] => i = j
    BY <1>4, <2>1
  <2> QED BY <2>2
<1>6. Dc!Range(s) = S
  <2> HIDE DEF s
  <2>1. s \in Injection(1 .. n, S)
    BY <1>5, Fun_IsInj
  <2>2. n = Cardinality(S)
    BY DEF n
  <2>3. Cardinality(1 .. n) = Cardinality(S)
    BY <1>1, <2>2, FS_Interval
  <2>4. s \in Surjection(1 .. n, S)
    BY <2>1, <2>3, FS_Injection
  <2>5. \A t \in S : \E i \in 1 .. n : s[i] = t
    BY <2>4 DEF Surjection, Range
  <2> QED BY <1>5, <2>5 DEF Dc!Range
<1> QED BY <1>1, <1>5, <1>6

LEMMA RebuildIs ==
  ASSUME DocsInv, Dc!Rebuild
  PROVE  LET found == {k \in prefixed : kv[k].json} IN
         /\ docs' = found /\ UNCHANGED <<kv, exists, prefixed>>
         /\ indexed' = [k \in Doc |-> IF k \in found THEN kv[k] ELSE indexed[k]]
         /\ text' = TextOf(found, kv) /\ numeric' = NumericOf(found, kv)
<1> DEFINE found == {k \in prefixed : kv[k].json}
           s == Dc!SetToSeq(found)
<1>1. found \subseteq Doc /\ IsFiniteSet(found)
  <2>1. found \subseteq Doc /\ IsFiniteSet(Doc)
    BY DocumentsAssumption DEF DocumentsAssumption, DocsInv, DocsTyped
  <2> HIDE DEF found
  <2> QED BY <2>1, FS_Subset
<1>2. kv \in [Doc -> DocType] /\ DocsInv
  BY DEF DocsInv, DocsTyped
<1>3. /\ Dc!Becomes(Dc!FoldLeft(Adding, Dc!Empty, s))
      /\ docs' = Dc!Range(s) /\ UNCHANGED <<kv, exists, prefixed>>
      /\ indexed' = [k \in Doc |-> IF k \in Dc!Range(s) THEN kv[k] ELSE indexed[k]]
  BY DEF Dc!Rebuild, Adding, Dc!FoldLeft, Dc!MapThenFoldSet
<1> HIDE DEF found
<1>4. PICK n \in Nat : /\ s \in [1 .. n -> found] /\ Dc!Range(s) = found
                       /\ \A i, j \in 1 .. n : s[i] = s[j] => i = j
  BY <1>1, SetToSeqIs
<1> HIDE DEF s
<1> DEFINE First(i) == {s[j] : j \in 1 .. i}
           G == [i \in 0 .. n |-> {IndexOf(First(i), kv)}]
<1>5. Dc!Empty \in G[0]
  <2>1. First(0) = {}
    OBVIOUS
  <2>2. IndexOf({}, kv) = Dc!Empty
    BY EmptyIs DEF IndexOf, Dc!Empty
  <2> QED BY <2>1, <2>2
<1>6. ASSUME NEW i \in 1 .. n, NEW t \in G[i - 1] PROVE Adding(t, s[i]) \in G[i]
  <2>1. i - 1 \in 0 .. n /\ i \in 0 .. n /\ t = IndexOf(First(i - 1), kv)
    BY <1>6
  <2>2. s[i] \in found /\ s[i] \notin First(i - 1) /\ First(i) = First(i - 1) \cup {s[i]}
    BY <1>4
  <2>3. First(i - 1) \in SUBSET Doc /\ s[i] \in Doc
    BY <1>1, <1>4, <2>2
  <2> HIDE DEF First
  <2>4. Dc!WithObject(IndexOf(First(i - 1), kv), s[i], kv[s[i]]) = IndexOf(First(i - 1) \cup {s[i]}, kv)
    BY <1>2, <2>2, <2>3, WithObjectIs
  <2> QED BY <2>1, <2>2, <2>4 DEF Adding
<1>7. Rebuilding!Fold(Dc!Empty, s) \in G[n]
  <2> HIDE DEF G
  <2> QED BY <1>4, <1>5, <1>6, LeastNat, Rebuilding!FoldKeeps DEF Rebuilding!NatsHaveLeast
<1>8. Dc!FoldLeft(Adding, Dc!Empty, s) = Rebuilding!Fold(Dc!Empty, s)
  BY DEF Dc!FoldLeft, Dc!MapThenFoldSet, Dc!Max, Rebuilding!Fold, Rebuilding!Folds, Rebuilding!Highest
<1>9. First(n) = found
  BY <1>4 DEF Dc!Range
<1>10. Dc!FoldLeft(Adding, Dc!Empty, s) = IndexOf(found, kv)
  BY <1>7, <1>8, <1>9
<1> QED BY <1>3, <1>4, <1>10 DEF Dc!Becomes, IndexOf, found

(* What the documents were elsewhere does not matter to the index. *)
LEMMA SameIndex ==
  ASSUME NEW ds \in SUBSET Doc, NEW v, NEW w, \A k \in ds : v[k] = w[k]
  PROVE  TextOf(ds, v) = TextOf(ds, w) /\ NumericOf(ds, v) = NumericOf(ds, w)
<1>1. {u \in Term : \E k \in ds : u \in v[k].terms} = {u \in Term : \E k \in ds : u \in w[k].terms}
  OBVIOUS
<1>2. {x \in ds : v[x].price # NoNumber} = {x \in ds : w[x].price # NoNumber}
  OBVIOUS
<1>3. \A t : {k \in ds : t \in v[k].terms} = {k \in ds : t \in w[k].terms}
  OBVIOUS
<1>4. \A k \in {x \in ds : v[x].price # NoNumber} : v[k].price = w[k].price
  OBVIOUS
<1> QED BY <1>1, <1>2, <1>3, <1>4 DEF TextOf, NumericOf

LEMMA RebuildKeeps == ASSUME DocsInv, Dc!Rebuild PROVE DocsInv'
<1> DEFINE found == {k \in prefixed : kv[k].json}
<1>1. /\ docs' = found /\ UNCHANGED <<kv, exists, prefixed>>
      /\ indexed' = [k \in Doc |-> IF k \in found THEN kv[k] ELSE indexed[k]]
      /\ text' = TextOf(found, kv) /\ numeric' = NumericOf(found, kv)
  BY RebuildIs
<1>2. found \subseteq Doc
  BY DEF DocsInv, DocsTyped
<1> HIDE DEF found
<1>3. DocsTyped
  BY DEF DocsInv
<1>4. \A k \in found : indexed'[k] = kv[k]
  BY <1>1, <1>2
<1>5. TextOf(found, indexed') = TextOf(found, kv) /\ NumericOf(found, indexed') = NumericOf(found, kv)
  BY <1>2, <1>4, SameIndex
<1>6. DocsTyped'
  BY <1>1, <1>2, <1>3 DEF DocsTyped
<1> QED BY <1>1, <1>5, <1>6 DEF DocsInv

LEMMA DocsBegin == Dc!Init => DocsInv
<1> SUFFICES ASSUME Dc!Init PROVE DocsInv
  OBVIOUS
<1>1. Dc!NotJson \in DocType
  BY DocumentsAreTyped
<1> QED BY <1>1, EmptyIs DEF Dc!Init, DocsInv, DocsTyped

LEMMA DocsNext == DocsInv /\ [Dc!Next]_Dc!vars => DocsInv'
<1> SUFFICES ASSUME DocsInv, [Dc!Next]_Dc!vars PROVE DocsInv'
  OBVIOUS
<1>1. ASSUME NEW k \in Doc, Dc!IndexAdd(k) PROVE DocsInv'
  BY <1>1, IndexAddKeeps
<1>2. ASSUME NEW k \in Doc, Dc!IndexDel(k) PROVE DocsInv'
  BY <1>2, IndexDelKeeps
<1>3. ASSUME NEW k \in Doc, NEW d \in Document \cup {Dc!NotJson}, Dc!Change(k, d) PROVE DocsInv'
  BY <1>3, ChangeKeeps
<1>4. ASSUME Dc!Rebuild PROVE DocsInv'
  BY <1>4, RebuildKeeps
<1>5. ASSUME (\E matched \in Prefixes : Dc!Create(matched)) \/ Dc!Drop PROVE DocsInv'
  BY <1>5, CreateKeeps
<1>6. ASSUME UNCHANGED Dc!vars PROVE DocsInv'
  BY <1>6 DEF Dc!vars, DocsInv, DocsTyped
<1> QED BY <1>1, <1>2, <1>3, <1>4, <1>5, <1>6 DEF Dc!Next

(* A search of any number of tokens *)

Meeting(found, token) == found \cap Dc!Postings(token)

Searching == INSTANCE Folding WITH Step <- Meeting

Matches(k, token) == \E t \in indexed[k].terms : Includes(t, token)

LEMMA PostingsAre ==
  ASSUME DocsInv, NEW token PROVE Dc!Postings(token) = {k \in docs : Matches(k, token)}
<1>1. text = TextOf(docs, indexed) /\ \A k \in docs : indexed[k].terms \subseteq Term
  BY DEF DocsInv, DocsTyped, DocType
<1>2. \A k : k \in Dc!Postings(token) <=> \E t \in DOMAIN text : Includes(t, token) /\ k \in text[t]
  BY DEF Dc!Postings
<1>3. \A k, t : t \in DOMAIN text /\ k \in text[t] <=> k \in docs /\ t \in indexed[k].terms
  BY <1>1 DEF TextOf
<1>4. \A k : k \in Dc!Postings(token) <=> k \in docs /\ Matches(k, token)
  BY <1>2, <1>3 DEF Matches
<1> QED BY <1>4

LEMMA SearchFinds ==
  ASSUME DocsInv, NEW n \in Nat \ {0}, NEW tokens \in [1 .. n -> Term], NEW min \in Int, NEW max \in Int
  PROVE  Dc!Search(tokens, min, max) =
           {k \in docs : /\ \A i \in 1 .. n : Matches(k, tokens[i])
                         /\ indexed[k].price \in min .. max}
<1> DEFINE s == Tail(tokens)
           base == Dc!Postings(Head(tokens))
           F(i) == {k \in docs : \A j \in 1 .. i + 1 : Matches(k, tokens[j])}
           G == [i \in 0 .. n - 1 |-> {F(i)}]
           found == Dc!FoldLeft(Meeting, base, s)
<1>1. tokens \in Seq(Term) /\ Len(tokens) = n /\ tokens # <<>>
  OBVIOUS
<1>2. Head(tokens) = tokens[1] /\ s \in Seq(Term) /\ Len(s) = n - 1 /\ \A i \in 1 .. n - 1 : s[i] = tokens[i + 1]
  BY <1>1
<1>3. DOMAIN s = 1 .. n - 1 /\ n - 1 \in Nat
  BY <1>2
<1> HIDE DEF s
<1>4. base \in G[0]
  <2>1. base = {k \in docs : Matches(k, tokens[1])}
    BY <1>2, PostingsAre
  <2>2. F(0) = {k \in docs : Matches(k, tokens[1])}
    OBVIOUS
  <2> QED BY <1>3, <2>1, <2>2
<1>5. ASSUME NEW i \in 1 .. n - 1, NEW t \in G[i - 1] PROVE Meeting(t, s[i]) \in G[i]
  <2>1. i - 1 \in 0 .. n - 1 /\ i \in 0 .. n - 1 /\ t = F(i - 1)
    BY <1>5
  <2>2. Dc!Postings(s[i]) = {k \in docs : Matches(k, tokens[i + 1])}
    BY <1>2, PostingsAre
  <2>3. F(i - 1) \cap {k \in docs : Matches(k, tokens[i + 1])} = F(i)
    <3>1. 1 .. i + 1 = (1 .. (i - 1) + 1) \cup {i + 1}
      OBVIOUS
    <3> QED BY <3>1
  <2> HIDE DEF F
  <2> QED BY <2>1, <2>2, <2>3 DEF Meeting
<1>6. Searching!Fold(base, s) \in G[n - 1]
  <2> HIDE DEF G, base
  <2> QED BY <1>3, <1>4, <1>5, LeastNat, Searching!FoldKeeps DEF Searching!NatsHaveLeast
<1>7. found = Searching!Fold(base, s)
  BY DEF Dc!FoldLeft, Dc!MapThenFoldSet, Dc!Max, Searching!Fold, Searching!Folds, Searching!Highest
<1>8. found = {k \in docs : \A j \in 1 .. n : Matches(k, tokens[j])}
  <2>1. n - 1 \in 0 .. n - 1 /\ (n - 1) + 1 = n
    BY <1>3
  <2> HIDE DEF found
  <2> QED BY <1>6, <1>7, <2>1
<1>9. Dc!Search(tokens, min, max) = {k \in found : k \in DOMAIN numeric /\ numeric[k] >= min /\ numeric[k] <= max}
  BY DEF Dc!Search, Meeting, s, Dc!FoldLeft, Dc!MapThenFoldSet
<1>10. \A k \in docs : (k \in DOMAIN numeric /\ numeric[k] >= min /\ numeric[k] <= max)
                         <=> indexed[k].price \in min .. max
  <2>1. numeric = NumericOf(docs, indexed) /\ \A k \in docs : indexed[k].price \in Price \cup {NoNumber}
    BY DEF DocsInv, DocsTyped, DocType
  <2>2. Price \subseteq Int /\ NoNumber \notin Int
    BY DocumentsAssumption DEF DocumentsAssumption
  <2> SUFFICES ASSUME NEW k \in docs
               PROVE  (k \in DOMAIN numeric /\ numeric[k] >= min /\ numeric[k] <= max)
                        <=> indexed[k].price \in min .. max
    OBVIOUS
  <2>3. CASE indexed[k].price = NoNumber
    BY <2>1, <2>2, <2>3 DEF NumericOf
  <2>4. CASE indexed[k].price # NoNumber
    <3>1. k \in DOMAIN numeric /\ numeric[k] = indexed[k].price /\ indexed[k].price \in Int
      BY <2>1, <2>2, <2>4 DEF NumericOf
    <3> QED BY <3>1
  <2> QED BY <2>3, <2>4
<1> HIDE DEF found
<1> QED BY <1>8, <1>9, <1>10

(* What the runs check *)

LEMMA DocsInvTypes == DocsInv => Dc!TypeOK
<1> SUFFICES ASSUME DocsInv PROVE Dc!TypeOK
  OBVIOUS
<1>1. DocsTyped /\ text = TextOf(docs, indexed) /\ numeric = NumericOf(docs, indexed)
  BY DEF DocsInv
<1>2. DOMAIN text \subseteq Term /\ \A t \in DOMAIN text : text[t] \subseteq Doc
  BY <1>1 DEF TextOf, DocsTyped
<1>3. DOMAIN numeric \subseteq Doc /\ \A k \in DOMAIN numeric : numeric[k] \in Price
  <2>1. \A k \in docs : k \in Doc /\ indexed[k].price \in Price \cup {NoNumber}
    BY <1>1 DEF DocsTyped, DocType
  <2> QED BY <1>1, <2>1 DEF NumericOf
<1> QED BY <1>1, <1>2, <1>3 DEF DocsTyped, Dc!TypeOK

LEMMA DocsInvIndex == DocsInv => Dc!IndexIsWhatWasIndexed
<1> SUFFICES ASSUME DocsInv PROVE Dc!IndexIsWhatWasIndexed
  OBVIOUS
<1>1. text = TextOf(docs, indexed) /\ numeric = NumericOf(docs, indexed)
  BY DEF DocsInv
<1>2. \A t \in Term : (IF t \in DOMAIN text THEN text[t] ELSE {}) = {k \in docs : t \in indexed[k].terms}
  BY <1>1 DEF TextOf
<1>3. \A t \in DOMAIN text : text[t] # {}
  BY <1>1 DEF TextOf
<1> QED BY <1>1, <1>2, <1>3 DEF Dc!IndexIsWhatWasIndexed, NumericOf

LEMMA SearchMember ==
  ASSUME DocsInv, NEW n \in Nat \ {0}, NEW tokens \in [1 .. n -> Term], NEW min \in Int, NEW max \in Int, NEW k
  PROVE  k \in Dc!Search(tokens, min, max) <=>
           k \in docs /\ (\A i \in 1 .. n : Matches(k, tokens[i])) /\ indexed[k].price \in min .. max
<1> DEFINE found == {q \in docs : /\ \A i \in 1 .. n : Matches(q, tokens[i])
                                 /\ indexed[q].price \in min .. max}
<1>1. Dc!Search(tokens, min, max) = found
  BY SearchFinds
<1> QED BY <1>1

LEMMA DocsInvSearch == DocsInv => Dc!SearchIsExact
<1> SUFFICES ASSUME DocsInv, NEW tokens \in [1 .. 2 -> Term], NEW min \in Price, NEW max \in Price
             PROVE  Dc!Search(tokens, min, max) =
                      {k \in docs : /\ \A token \in Dc!Range(tokens) : \E t \in indexed[k].terms : Includes(t, token)
                                    /\ indexed[k].price \in min .. max}
  BY DEF Dc!SearchIsExact
<1>1. min \in Int /\ max \in Int
  BY DocumentsAssumption DEF DocumentsAssumption
<1>2. Dc!Search(tokens, min, max) =
        {k \in docs : /\ \A i \in 1 .. 2 : Matches(k, tokens[i])
                      /\ indexed[k].price \in min .. max}
  <2>1. 2 \in Nat \ {0}
    OBVIOUS
  <2>2. \A k : k \in Dc!Search(tokens, min, max) <=>
                 k \in docs /\ (\A i \in 1 .. 2 : Matches(k, tokens[i])) /\ indexed[k].price \in min .. max
    BY <1>1, <2>1, SearchMember
  <2> QED BY <2>2
<1>3. \A k : (\A i \in 1 .. 2 : Matches(k, tokens[i]))
               <=> \A token \in Dc!Range(tokens) : \E t \in indexed[k].terms : Includes(t, token)
  BY DEF Matches, Dc!Range
<1> QED BY <1>2, <1>3

LEMMA DocumentsBegin == Init /\ family = "documents" => Dc!Init
BY DEF Init

LEMMA DocumentsStep == [Next]_vars => family' = family /\ (family = "documents" => [Dc!Next]_Dc!vars)
BY DEF Next, vars, storeVars, documentVars, Dc!vars

DocumentsInv == family = "documents" => DocsInv

LEMMA DocumentsAlways == Spec => []DocumentsInv
<1>1. Init => DocumentsInv
  BY DocumentsBegin, DocsBegin DEF DocumentsInv
<1>2. DocumentsInv /\ [Next]_vars => DocumentsInv'
  BY DocumentsStep, DocsNext DEF DocumentsInv
<1> QED BY <1>1, <1>2, PTL DEF Spec

(* However documents are set, deleted and indexed, and the index made, rebuilt or dropped, *)
(* the index is that of the documents in it as they were when last indexed, and DOC.SEARCH *)
(* finds exactly those that match every token and the range. *)
THEOREM DocumentIndexStaysExact == Spec => []DocumentIndexAgrees
<1>1. DocumentsInv => DocumentIndexAgrees
  BY DocsInvTypes, DocsInvIndex, DocsInvSearch DEF DocumentsInv, DocumentIndexAgrees
<1> QED BY <1>1, DocumentsAlways, PTL
------------------------------------------------------------------------------
(* Cuckoo filters.  Sums over finite sets, and how often a value is in a sequence. *)

Sum(f, S) == Cardinality(UNION {{x} \X (1 .. f[x]) : x \in S})

CopiesIn(s, y) == Cardinality({n \in DOMAIN s : s[n] = y})

LEMMA SumIsTotal == ASSUME NEW f, NEW S PROVE Cf!Total(f, S) = Sum(f, S)
BY DEF Cf!Total, Cf!Cardinality, Cardinality, Sum

LEMMA CopiesAre == ASSUME NEW s, NEW y PROVE Cf!Copies(s, y) = CopiesIn(s, y)
BY DEF Cf!Copies, Cf!Cardinality, Cardinality, CopiesIn

LEMMA SumIsNat ==
  ASSUME NEW S, IsFiniteSet(S), NEW f, \A x \in S : f[x] \in Nat
  PROVE  Sum(f, S) \in Nat /\ IsFiniteSet(UNION {{x} \X (1 .. f[x]) : x \in S})
<1> DEFINE P == {{x} \X (1 .. f[x]) : x \in S}
           g == [x \in S |-> {x} \X (1 .. f[x])]
<1>1. g \in Surjection(S, P)
  BY DEF Surjection
<1>2. IsFiniteSet(P)
  <2> HIDE DEF g, P
  <2> QED BY <1>1, FS_Surjection
<1>3. ASSUME NEW T \in P PROVE IsFiniteSet(T)
  <2>1. PICK x \in S : T = {x} \X (1 .. f[x])
    OBVIOUS
  <2>2. IsFiniteSet({x}) /\ IsFiniteSet(1 .. f[x])
    <3>1. 1 \in Int /\ f[x] \in Int OBVIOUS
    <3>2. IsFiniteSet(1 .. f[x]) BY <3>1, FS_Interval
    <3> QED BY <3>2, FS_Singleton
  <2> QED BY <2>1, <2>2, FS_Product
<1>4. IsFiniteSet(UNION P)
  <2> HIDE DEF P
  <2> QED BY <1>2, <1>3, FS_UNION
<1> QED BY <1>4, FS_CardinalityType DEF Sum

(* A sum is that of the others and one. *)

LEMMA SumWithout ==
  ASSUME NEW S, IsFiniteSet(S), NEW f, \A x \in S : f[x] \in Nat, NEW a \in S
  PROVE  Sum(f, S) = Sum(f, S \ {a}) + f[a] /\ Sum(f, S \ {a}) \in Nat
<1> DEFINE U == UNION {{x} \X (1 .. f[x]) : x \in S \ {a}}
           A == {a} \X (1 .. f[a])
<1>1. IsFiniteSet(S \ {a})
  BY FS_RemoveElement
<1>2. IsFiniteSet(U) /\ Cardinality(U) \in Nat /\ Cardinality(U) = Sum(f, S \ {a})
  BY <1>1, SumIsNat DEF Sum
<1>3. IsFiniteSet(A) /\ Cardinality(A) = f[a]
  <2>1. 1 \in Int /\ f[a] \in Int /\ f[a] \in Nat
    OBVIOUS
  <2>2. IsFiniteSet(1 .. f[a]) /\ Cardinality(1 .. f[a]) = f[a]
    BY <2>1, FS_Interval
  <2>3. IsFiniteSet({a}) /\ Cardinality({a}) = 1
    BY FS_Singleton
  <2>4. IsFiniteSet(A) /\ Cardinality(A) = Cardinality({a}) * Cardinality(1 .. f[a])
    BY <2>2, <2>3, FS_Product
  <2> HIDE DEF A
  <2> QED BY <2>1, <2>2, <2>3, <2>4
<1>4. U \cap A = {}
  OBVIOUS
<1>5. UNION {{x} \X (1 .. f[x]) : x \in S} = U \cup A
  OBVIOUS
<1>6. Cardinality(U \cup A) = Cardinality(U) + Cardinality(A) - Cardinality(U \cap A)
  <2> HIDE DEF U, A
  <2> QED BY <1>2, <1>3, FS_Union
<1>7. Cardinality(U \cap A) = 0
  BY <1>4, FS_EmptySet
<1>8. Sum(f, S) = Cardinality(U \cup A)
  BY <1>5 DEF Sum
<1> HIDE DEF U, A
<1> QED BY <1>2, <1>3, <1>6, <1>7, <1>8

LEMMA SumOfSame ==
  ASSUME NEW S, NEW f, NEW g, \A x \in S : f[x] = g[x] PROVE Sum(f, S) = Sum(g, S)
<1>1. {{x} \X (1 .. f[x]) : x \in S} = {{x} \X (1 .. g[x]) : x \in S}
  OBVIOUS
<1> QED BY <1>1 DEF Sum

LEMMA SumOfNothing ==
  ASSUME NEW S, NEW f, \A x \in S : f[x] = 0 PROVE Sum(f, S) = 0
<1>1. UNION {{x} \X (1 .. f[x]) : x \in S} = {}
  <2>1. \A x \in S : {x} \X (1 .. f[x]) = {}
    <3>1. 1 .. 0 = {} OBVIOUS
    <3> QED BY <3>1
  <2> QED BY <2>1
<1> QED BY <1>1, FS_EmptySet DEF Sum

LEMMA SumShifts ==
  ASSUME NEW S, IsFiniteSet(S), NEW f, \A x \in S : f[x] \in Nat, NEW g, \A x \in S : g[x] \in Nat,
         NEW a, \A x \in S \ {a} : g[x] = f[x]
  PROVE  Sum(g, S) = Sum(f, S) + (IF a \in S THEN g[a] - f[a] ELSE 0) /\ Sum(f, S) \in Nat
<1>1. Sum(f, S) \in Nat
  BY SumIsNat
<1>2. CASE a \in S
  <2>1. Sum(f, S) = Sum(f, S \ {a}) + f[a] /\ Sum(f, S \ {a}) \in Nat
    BY <1>2, SumWithout
  <2>2. Sum(g, S) = Sum(g, S \ {a}) + g[a] /\ Sum(g, S \ {a}) \in Nat
    BY <1>2, SumWithout
  <2>3. Sum(g, S \ {a}) = Sum(f, S \ {a})
    BY SumOfSame
  <2>4. f[a] \in Nat /\ g[a] \in Nat
    BY <1>2
  <2> QED BY <1>1, <1>2, <2>1, <2>2, <2>3, <2>4
<1>3. CASE a \notin S
  <2>1. Sum(g, S) = Sum(f, S)
    BY <1>3, SumOfSame
  <2> QED BY <1>1, <1>3, <2>1
<1> QED BY <1>2, <1>3

(* Copies *)

LEMMA CopiesAreNat ==
  ASSUME NEW S, NEW s \in Seq(S), NEW y
  PROVE  /\ IsFiniteSet({n \in DOMAIN s : s[n] = y}) /\ CopiesIn(s, y) \in Nat
         /\ CopiesIn(s, y) = 0 <=> \A n \in 1 .. Len(s) : s[n] # y
<1> DEFINE P == {n \in DOMAIN s : s[n] = y}
<1>1. DOMAIN s = 1 .. Len(s) /\ Len(s) \in Nat
  BY LenProperties
<1>2. IsFiniteSet(1 .. Len(s))
  <2>1. 1 \in Int /\ Len(s) \in Int BY <1>1
  <2> QED BY <2>1, FS_Interval
<1>3. P \in SUBSET (1 .. Len(s))
  BY <1>1
<1>4. IsFiniteSet(P)
  <2> HIDE DEF P
  <2> QED BY <1>2, <1>3, FS_Subset
<1>5. Cardinality(P) \in Nat /\ (Cardinality(P) = 0 <=> P = {})
  <2> HIDE DEF P
  <2> QED BY <1>4, FS_CardinalityType, FS_EmptySet
<1>6. P = {} <=> \A n \in 1 .. Len(s) : s[n] # y
  BY <1>1
<1> QED BY <1>4, <1>5, <1>6 DEF CopiesIn

LEMMA CopiesAppended ==
  ASSUME NEW S, NEW s \in Seq(S), NEW e \in S, NEW y
  PROVE  CopiesIn(Append(s, e), y) = CopiesIn(s, y) + (IF e = y THEN 1 ELSE 0)
<1> DEFINE P == {n \in DOMAIN s : s[n] = y}
           t == Append(s, e)
           Q == {n \in DOMAIN t : t[n] = y}
           l == Len(s) + 1
<1>1. /\ DOMAIN s = 1 .. Len(s) /\ Len(s) \in Nat
      /\ DOMAIN t = 1 .. l /\ t[l] = e /\ \A n \in 1 .. Len(s) : t[n] = s[n]
  BY LenProperties, AppendProperties
<1>2. IsFiniteSet(P) /\ CopiesIn(s, y) = Cardinality(P) /\ Cardinality(P) \in Nat
  BY CopiesAreNat DEF CopiesIn
<1>3. l \notin P
  BY <1>1
<1>4. Q = IF e = y THEN P \cup {l} ELSE P
  <2> HIDE DEF t
  <2>1. DOMAIN t = DOMAIN s \cup {l}
    BY <1>1
  <2>2. \A n \in DOMAIN s : t[n] = s[n]
    BY <1>1
  <2> HIDE DEF l
  <2> QED BY <1>1, <2>1, <2>2
<1>5. Cardinality(P \cup {l}) = Cardinality(P) + 1
  <2> HIDE DEF P
  <2> QED BY <1>2, <1>3, FS_AddElement
<1>6. CopiesIn(t, y) = Cardinality(Q)
  BY DEF CopiesIn
<1> HIDE DEF P, Q, t
<1>7. CopiesIn(t, y) = CopiesIn(s, y) + (IF e = y THEN 1 ELSE 0)
  BY <1>2, <1>4, <1>5, <1>6
<1> QED BY <1>7 DEF t

LEMMA CopiesReplaced ==
  ASSUME NEW S, NEW s \in Seq(S), NEW p \in DOMAIN s, NEW e \in S, NEW y
  PROVE  CopiesIn([s EXCEPT ![p] = e], y)
           = CopiesIn(s, y) - (IF s[p] = y THEN 1 ELSE 0) + (IF e = y THEN 1 ELSE 0)
<1> DEFINE P == {n \in DOMAIN s : s[n] = y}
           t == [s EXCEPT ![p] = e]
           Q == {n \in DOMAIN t : t[n] = y}
           R == P \ {p}
<1>1. IsFiniteSet(P) /\ CopiesIn(s, y) = Cardinality(P) /\ Cardinality(P) \in Nat
  BY CopiesAreNat DEF CopiesIn
<1>2. IsFiniteSet(R) /\ Cardinality(R) = IF p \in P THEN Cardinality(P) - 1 ELSE Cardinality(P)
  <2> HIDE DEF P
  <2> QED BY <1>1, FS_RemoveElement
<1>3. p \in P <=> s[p] = y
  OBVIOUS
<1>4. Q = IF e = y THEN R \cup {p} ELSE R
  OBVIOUS
<1>5. p \notin R
  OBVIOUS
<1>6. Cardinality(R \cup {p}) = Cardinality(R) + 1
  <2> HIDE DEF R
  <2> QED BY <1>2, <1>5, FS_AddElement
<1>7. CopiesIn(t, y) = Cardinality(Q)
  BY DEF CopiesIn
<1> HIDE DEF P, Q, R, t
<1>8. CopiesIn(t, y) = CopiesIn(s, y) - (IF s[p] = y THEN 1 ELSE 0) + (IF e = y THEN 1 ELSE 0)
  BY <1>1, <1>2, <1>3, <1>4, <1>6, <1>7
<1> QED BY <1>8 DEF t

LEMMA RemoveFirstIs ==
  ASSUME NEW S, NEW s \in Seq(S), NEW e, \E i \in 1 .. Len(s) : s[i] = e
  PROVE  \E p \in 1 .. Len(s) : s[p] = e /\ Cf!RemoveFirst(s, e) = St!RemoveAt(s, p)
<1> DEFINE I == {i \in 1 .. Len(s) : s[i] = e}
           p == Cf!Min(I)
<1>1. Cf!RemoveFirst(s, e) = Cf!RemoveAt(s, p)
  BY DEF Cf!RemoveFirst, Cf!SelectInSeq
<1>2. I \subseteq Nat /\ I # {}
  BY LenProperties
<1>3. p \in I
  <2> HIDE DEF I
  <2>1. \E x \in I : \A y \in I : x <= y
    BY <1>2, LeastNat
  <2> QED BY <2>1 DEF Cf!Min
<1>4. Cf!RemoveAt(s, p) = St!RemoveAt(s, p)
  BY DEF Cf!RemoveAt, St!RemoveAt
<1> QED BY <1>1, <1>3, <1>4

LEMMA CopiesRemoved ==
  ASSUME NEW S, NEW s \in Seq(S), NEW p \in 1 .. Len(s), NEW y
  PROVE  CopiesIn(St!RemoveAt(s, p), y) = CopiesIn(s, y) - (IF s[p] = y THEN 1 ELSE 0)
<1> DEFINE t == St!RemoveAt(s, p)
           P == {n \in DOMAIN s : s[n] = y} \ {p}
           Q == {n \in DOMAIN t : t[n] = y}
           f == [n \in Q |-> IF n < p THEN n ELSE n + 1]
<1>1. /\ t \in Seq(S) /\ Len(t) = Len(s) - 1
      /\ \A j \in 1 .. Len(s) - 1 : t[j] = s[IF j < p THEN j ELSE j + 1]
  BY RemoveAtIs
<1>2. Len(s) \in Nat /\ DOMAIN s = 1 .. Len(s) /\ DOMAIN t = 1 .. Len(s) - 1
  BY <1>1, LenProperties
<1>3. /\ IsFiniteSet(P) /\ CopiesIn(s, y) \in Nat
      /\ Cardinality(P) = IF s[p] = y THEN CopiesIn(s, y) - 1 ELSE CopiesIn(s, y)
  <2> DEFINE A == {n \in DOMAIN s : s[n] = y}
  <2>1. IsFiniteSet(A) /\ CopiesIn(s, y) \in Nat /\ CopiesIn(s, y) = Cardinality(A)
    BY CopiesAreNat DEF CopiesIn
  <2>2. p \in A <=> s[p] = y
    BY <1>2
  <2> HIDE DEF A
  <2> QED BY <2>1, <2>2, FS_RemoveElement DEF A
<1>4. IsFiniteSet(Q) /\ CopiesIn(t, y) = Cardinality(Q)
  BY <1>1, CopiesAreNat DEF CopiesIn
<1>5. f \in Bijection(Q, P)
  <2> HIDE DEF t
  <2>1. f \in [Q -> P]
    BY <1>1, <1>2
  <2>2. \A m, n \in Q : f[m] = f[n] => m = n
    BY <1>2
  <2>3. \A q \in P : \E n \in Q : f[n] = q
    <3> SUFFICES ASSUME NEW q \in P PROVE \E n \in Q : f[n] = q
      OBVIOUS
    <3> DEFINE n == IF q < p THEN q ELSE q - 1
    <3>1. q \in 1 .. Len(s) /\ q # p /\ s[q] = y
      BY <1>2
    <3>2. n \in 1 .. Len(s) - 1 /\ (IF n < p THEN n ELSE n + 1) = q
      BY <1>2, <3>1
    <3>3. n \in Q
      <4> HIDE DEF n
      <4> QED BY <1>1, <1>2, <3>1, <3>2
    <3> HIDE DEF n, Q
    <3> QED BY <3>2, <3>3
  <2> HIDE DEF f, P, Q
  <2> QED BY <2>1, <2>2, <2>3, Fun_IsBij
<1>6. Cardinality(P) = Cardinality(Q)
  <2> HIDE DEF P, Q, f
  <2>1. ExistsBijection(Q, P)
    BY <1>5 DEF ExistsBijection
  <2> QED BY <1>4, <2>1, FS_Bijection
<1> HIDE DEF P, Q, t
<1>7. CopiesIn(t, y) = CopiesIn(s, y) - (IF s[p] = y THEN 1 ELSE 0)
  BY <1>3, <1>4, <1>6
<1> QED BY <1>7 DEF t
------------------------------------------------------------------------------
(* The buckets of a fingerprint: the two have each other for the other one. *)

Pair(i, fp) == {i, Cf!AltIndex(i, fp)}

LEMMA OtherOfOther ==
  ASSUME NEW i \in Cf!Buckets, NEW fp
  PROVE  Cf!AltIndex(i, fp) \in Cf!Buckets /\ Cf!AltIndex(Cf!AltIndex(i, fp), fp) = i
BY Zenon DEF Cf!Buckets, Cf!AltIndex, Cf!Index

LEMMA PairIsOfBoth ==
  ASSUME NEW i \in Cf!Buckets, NEW j \in Cf!Buckets, NEW fp
  PROVE  Cf!AltIndex(j, fp) \in Pair(i, fp) <=> j \in Pair(i, fp)
BY OtherOfOther DEF Pair

LEMMA PairIsFinite ==
  ASSUME NEW i \in Cf!Buckets, NEW fp PROVE IsFiniteSet(Pair(i, fp)) /\ Pair(i, fp) \subseteq Cf!Buckets
<1>1. IsFiniteSet({i}) /\ Pair(i, fp) = {i} \cup {Cf!AltIndex(i, fp)}
  BY FS_Singleton DEF Pair
<1>2. IsFiniteSet(Pair(i, fp))
  BY <1>1, FS_AddElement
<1> QED BY <1>2, OtherOfOther DEF Pair

LEMMA BucketsAreFinite == IsFiniteSet(Cf!Buckets)
BY FiltersAssumption, FS_SUBSET DEF FiltersAssumption, Cf!Buckets

(* What a filter holds: in all, and of a fingerprint in its two buckets. *)

BucketMaps == {bs \in [Cf!Buckets -> Seq(Cf!Fingerprints)] : \A i \in Cf!Buckets : Len(bs[i]) <= BucketSize}

Held(bs) == Sum([i \in Cf!Buckets |-> Len(bs[i])], Cf!Buckets)

HeldOf(bs, i, fp) == Sum([j \in Cf!Buckets |-> CopiesIn(bs[j], fp)], Pair(i, fp))

\* One more there is of fp around i for f put into bucket j.
Here(j, f, i, fp) == IF f = fp /\ j \in Pair(i, fp) THEN 1 ELSE 0

LEMMA HeldIsNat ==
  ASSUME NEW bs \in BucketMaps, NEW i \in Cf!Buckets, NEW fp
  PROVE  Held(bs) \in Nat /\ HeldOf(bs, i, fp) \in Nat
<1>1. \A j \in Cf!Buckets : bs[j] \in Seq(Cf!Fingerprints)
  BY DEF BucketMaps
<1>2. \A j \in Cf!Buckets : Len(bs[j]) \in Nat
  BY <1>1, LenProperties
<1>3. \A j \in Cf!Buckets : CopiesIn(bs[j], fp) \in Nat
  BY <1>1, CopiesAreNat
<1>4. Held(bs) \in Nat
  BY <1>2, BucketsAreFinite, SumIsNat DEF Held
<1>5. HeldOf(bs, i, fp) \in Nat
  BY <1>3, PairIsFinite, SumIsNat DEF HeldOf
<1> QED BY <1>4, <1>5

LEMMA HeldWith ==
  ASSUME NEW bs \in BucketMaps, NEW j \in Cf!Buckets, NEW s \in Seq(Cf!Fingerprints), Len(s) <= BucketSize
  PROVE  /\ [bs EXCEPT ![j] = s] \in BucketMaps
         /\ Held([bs EXCEPT ![j] = s]) = Held(bs) + Len(s) - Len(bs[j])
         /\ \A i \in Cf!Buckets : \A fp :
              HeldOf([bs EXCEPT ![j] = s], i, fp)
                = HeldOf(bs, i, fp) + (IF j \in Pair(i, fp) THEN CopiesIn(s, fp) - CopiesIn(bs[j], fp) ELSE 0)
<1> DEFINE cs == [bs EXCEPT ![j] = s]
<1>1. bs \in [Cf!Buckets -> Seq(Cf!Fingerprints)] /\ cs \in [Cf!Buckets -> Seq(Cf!Fingerprints)]
  BY DEF BucketMaps
<1>2. cs[j] = s /\ \A i \in Cf!Buckets \ {j} : cs[i] = bs[i]
  BY <1>1
<1>3. cs \in BucketMaps
  BY <1>1, <1>2 DEF BucketMaps
<1> HIDE DEF cs
<1>4. Held(cs) = Held(bs) + Len(s) - Len(bs[j])
  <2> DEFINE f == [i \in Cf!Buckets |-> Len(bs[i])]
             g == [i \in Cf!Buckets |-> Len(cs[i])]
  <2>1. \A i \in Cf!Buckets : Len(bs[i]) \in Nat /\ Len(cs[i]) \in Nat
    BY <1>1, LenProperties
  <2>2. /\ \A i \in Cf!Buckets : f[i] \in Nat /\ g[i] \in Nat
        /\ \A i \in Cf!Buckets \ {j} : g[i] = f[i]
        /\ f[j] = Len(bs[j]) /\ g[j] = Len(s) /\ Len(bs[j]) \in Nat /\ Len(s) \in Nat
    BY <1>2, <2>1
  <2>3. Held(bs) = Sum(f, Cf!Buckets) /\ Held(cs) = Sum(g, Cf!Buckets)
    BY DEF Held
  <2> HIDE DEF f, g
  <2>4. Sum(g, Cf!Buckets) = Sum(f, Cf!Buckets) + (IF j \in Cf!Buckets THEN g[j] - f[j] ELSE 0) /\ Sum(f, Cf!Buckets) \in Nat
    BY <2>2, BucketsAreFinite, SumShifts
  <2> QED BY <2>2, <2>3, <2>4
<1>5. ASSUME NEW i \in Cf!Buckets, NEW fp
      PROVE  HeldOf(cs, i, fp) = HeldOf(bs, i, fp) + (IF j \in Pair(i, fp) THEN CopiesIn(s, fp) - CopiesIn(bs[j], fp) ELSE 0)
  <2> DEFINE f == [q \in Cf!Buckets |-> CopiesIn(bs[q], fp)]
             g == [q \in Cf!Buckets |-> CopiesIn(cs[q], fp)]
  <2>1. \A q \in Cf!Buckets : CopiesIn(bs[q], fp) \in Nat /\ CopiesIn(cs[q], fp) \in Nat
    BY <1>1, CopiesAreNat
  <2>2. /\ \A q \in Cf!Buckets : f[q] \in Nat /\ g[q] \in Nat
        /\ \A q \in Cf!Buckets \ {j} : g[q] = f[q]
        /\ f[j] = CopiesIn(bs[j], fp) /\ g[j] = CopiesIn(s, fp)
    BY <1>2, <2>1
  <2>3. HeldOf(bs, i, fp) = Sum(f, Pair(i, fp)) /\ HeldOf(cs, i, fp) = Sum(g, Pair(i, fp))
    BY DEF HeldOf
  <2>4. IsFiniteSet(Pair(i, fp)) /\ Pair(i, fp) \subseteq Cf!Buckets
    BY PairIsFinite
  <2> HIDE DEF f, g
  <2>5. Sum(g, Pair(i, fp)) = Sum(f, Pair(i, fp)) + (IF j \in Pair(i, fp) THEN g[j] - f[j] ELSE 0)
    BY <2>2, <2>4, SumShifts
  <2> QED BY <2>2, <2>3, <2>5
<1> QED BY <1>3, <1>4, <1>5 DEF cs

(* A fingerprint is put at the end of a bucket with room, in the place of another, or taken out. *)

LEMMA PutIn ==
  ASSUME NEW bs \in BucketMaps, NEW j \in Cf!Buckets, Cf!HasRoom(bs, j), NEW f \in Cf!Fingerprints
  PROVE  /\ [bs EXCEPT ![j] = Append(@, f)] \in BucketMaps
         /\ Held([bs EXCEPT ![j] = Append(@, f)]) = Held(bs) + 1
         /\ \A i \in Cf!Buckets : \A fp :
              HeldOf([bs EXCEPT ![j] = Append(@, f)], i, fp) = HeldOf(bs, i, fp) + Here(j, f, i, fp)
<1> DEFINE s == Append(bs[j], f)
           cs == [bs EXCEPT ![j] = s]
<1>1. bs[j] \in Seq(Cf!Fingerprints) /\ Len(bs[j]) < BucketSize
  BY DEF BucketMaps, Cf!HasRoom
<1>2. s \in Seq(Cf!Fingerprints) /\ Len(s) = Len(bs[j]) + 1 /\ Len(bs[j]) \in Nat
  BY <1>1, AppendProperties, LenProperties
<1>3. Len(s) <= BucketSize
  BY <1>1, <1>2, FiltersAssumption DEF FiltersAssumption
<1>4. ASSUME NEW fp
      PROVE  CopiesIn(s, fp) = CopiesIn(bs[j], fp) + (IF f = fp THEN 1 ELSE 0) /\ CopiesIn(bs[j], fp) \in Nat
  <2>1. CopiesIn(s, fp) = CopiesIn(bs[j], fp) + (IF f = fp THEN 1 ELSE 0)
    BY <1>1, CopiesAppended
  <2>2. CopiesIn(bs[j], fp) \in Nat
    BY <1>1, CopiesAreNat
  <2> QED BY <2>1, <2>2
<1>5. /\ cs \in BucketMaps /\ Held(cs) = Held(bs) + Len(s) - Len(bs[j])
      /\ \A i \in Cf!Buckets : \A fp :
           HeldOf(cs, i, fp) = HeldOf(bs, i, fp) + (IF j \in Pair(i, fp) THEN CopiesIn(s, fp) - CopiesIn(bs[j], fp) ELSE 0)
  <2> HIDE DEF s
  <2> QED BY <1>2, <1>3, HeldWith
<1>6. [bs EXCEPT ![j] = Append(@, f)] = cs
  OBVIOUS
<1> HIDE DEF s, cs
<1>7. Held(cs) = Held(bs) + 1
  BY <1>2, <1>5, HeldIsNat
<1>8. ASSUME NEW i \in Cf!Buckets, NEW fp PROVE HeldOf(cs, i, fp) = HeldOf(bs, i, fp) + Here(j, f, i, fp)
  <2>1. HeldOf(bs, i, fp) \in Nat
    BY HeldIsNat
  <2> QED BY <1>4, <1>5, <2>1 DEF Here
<1> QED BY <1>5, <1>6, <1>7, <1>8

LEMMA PutFor ==
  ASSUME NEW bs \in BucketMaps, NEW j \in Cf!Buckets, NEW n \in DOMAIN bs[j], NEW f \in Cf!Fingerprints
  PROVE  /\ bs[j][n] \in Cf!Fingerprints
         /\ [bs EXCEPT ![j][n] = f] \in BucketMaps /\ Held([bs EXCEPT ![j][n] = f]) = Held(bs)
         /\ \A i \in Cf!Buckets : \A fp :
              HeldOf([bs EXCEPT ![j][n] = f], i, fp)
                = HeldOf(bs, i, fp) - Here(j, bs[j][n], i, fp) + Here(j, f, i, fp)
<1> DEFINE s == [bs[j] EXCEPT ![n] = f]
           cs == [bs EXCEPT ![j] = s]
<1>1. bs[j] \in Seq(Cf!Fingerprints) /\ Len(bs[j]) <= BucketSize
  BY DEF BucketMaps
<1>2. n \in 1 .. Len(bs[j]) /\ bs[j][n] \in Cf!Fingerprints
  BY <1>1, LenProperties, ElementOfSeq
<1>3. s \in Seq(Cf!Fingerprints) /\ Len(s) = Len(bs[j]) /\ Len(bs[j]) \in Nat
  BY <1>1, <1>2, ExceptSeq, LenProperties
<1>4. ASSUME NEW fp
      PROVE  /\ CopiesIn(s, fp) = CopiesIn(bs[j], fp) - (IF bs[j][n] = fp THEN 1 ELSE 0) + (IF f = fp THEN 1 ELSE 0)
             /\ CopiesIn(bs[j], fp) \in Nat
  <2>1. CopiesIn(s, fp) = CopiesIn(bs[j], fp) - (IF bs[j][n] = fp THEN 1 ELSE 0) + (IF f = fp THEN 1 ELSE 0)
    BY <1>1, CopiesReplaced
  <2>2. CopiesIn(bs[j], fp) \in Nat
    BY <1>1, CopiesAreNat
  <2> QED BY <2>1, <2>2
<1>5. /\ cs \in BucketMaps /\ Held(cs) = Held(bs) + Len(s) - Len(bs[j])
      /\ \A i \in Cf!Buckets : \A fp :
           HeldOf(cs, i, fp) = HeldOf(bs, i, fp) + (IF j \in Pair(i, fp) THEN CopiesIn(s, fp) - CopiesIn(bs[j], fp) ELSE 0)
  <2> HIDE DEF s
  <2> QED BY <1>1, <1>3, HeldWith
<1>6. [bs EXCEPT ![j][n] = f] = cs
  OBVIOUS
<1> HIDE DEF s, cs
<1>7. Held(cs) = Held(bs)
  BY <1>3, <1>5, HeldIsNat
<1>8. ASSUME NEW i \in Cf!Buckets, NEW fp
      PROVE  HeldOf(cs, i, fp) = HeldOf(bs, i, fp) - Here(j, bs[j][n], i, fp) + Here(j, f, i, fp)
  <2>1. HeldOf(bs, i, fp) \in Nat
    BY HeldIsNat
  <2> QED BY <1>4, <1>5, <2>1 DEF Here
<1> QED BY <1>2, <1>5, <1>6, <1>7, <1>8

LEMMA TakeOut ==
  ASSUME NEW bs \in BucketMaps, NEW j \in Cf!Buckets, NEW f, \E n \in 1 .. Len(bs[j]) : bs[j][n] = f
  PROVE  /\ [bs EXCEPT ![j] = Cf!RemoveFirst(@, f)] \in BucketMaps
         /\ Held([bs EXCEPT ![j] = Cf!RemoveFirst(@, f)]) = Held(bs) - 1
         /\ \A i \in Cf!Buckets : \A fp :
              HeldOf([bs EXCEPT ![j] = Cf!RemoveFirst(@, f)], i, fp) = HeldOf(bs, i, fp) - Here(j, f, i, fp)
<1> DEFINE s == Cf!RemoveFirst(bs[j], f)
           cs == [bs EXCEPT ![j] = s]
<1>1. bs[j] \in Seq(Cf!Fingerprints) /\ Len(bs[j]) <= BucketSize /\ Len(bs[j]) \in Nat
  BY LenProperties DEF BucketMaps
<1>2. PICK p \in 1 .. Len(bs[j]) : bs[j][p] = f /\ s = St!RemoveAt(bs[j], p)
  BY <1>1, RemoveFirstIs
<1>3. s \in Seq(Cf!Fingerprints) /\ Len(s) = Len(bs[j]) - 1 /\ Len(s) \in Nat
  <2> DEFINE q == bs[j]
             r == St!RemoveAt(q, p)
  <2>1. q \in Seq(Cf!Fingerprints) /\ p \in 1 .. Len(q) /\ s = r
    BY <1>1, <1>2
  <2> HIDE DEF s, q
  <2>2. r \in Seq(Cf!Fingerprints) /\ Len(r) = Len(q) - 1
    BY <2>1, RemoveAtIs
  <2> QED BY <2>1, <2>2, LenProperties DEF q
<1>4. \A fp : CopiesIn(s, fp) = CopiesIn(bs[j], fp) - (IF f = fp THEN 1 ELSE 0) /\ CopiesIn(bs[j], fp) \in Nat
  <2> DEFINE q == bs[j]
             r == St!RemoveAt(q, p)
  <2>1. q \in Seq(Cf!Fingerprints) /\ p \in 1 .. Len(q) /\ q[p] = f /\ s = r
    BY <1>1, <1>2
  <2> HIDE DEF s, q
  <2>2. \A fp : CopiesIn(r, fp) = CopiesIn(q, fp) - (IF q[p] = fp THEN 1 ELSE 0) /\ CopiesIn(q, fp) \in Nat
    BY <2>1, CopiesRemoved, CopiesAreNat
  <2> QED BY <2>1, <2>2 DEF q
<1>5. /\ cs \in BucketMaps /\ Held(cs) = Held(bs) + Len(s) - Len(bs[j])
      /\ \A i \in Cf!Buckets : \A fp :
           HeldOf(cs, i, fp) = HeldOf(bs, i, fp) + (IF j \in Pair(i, fp) THEN CopiesIn(s, fp) - CopiesIn(bs[j], fp) ELSE 0)
  <2> HIDE DEF s
  <2>1. Len(s) <= BucketSize
    BY <1>1, <1>3, FiltersAssumption DEF FiltersAssumption
  <2> QED BY <1>3, <2>1, HeldWith
<1>6. [bs EXCEPT ![j] = Cf!RemoveFirst(@, f)] = cs
  OBVIOUS
<1> HIDE DEF s, cs
<1>7. Held(cs) = Held(bs) - 1
  BY <1>1, <1>3, <1>5, HeldIsNat
<1>8. ASSUME NEW i \in Cf!Buckets, NEW fp PROVE HeldOf(cs, i, fp) = HeldOf(bs, i, fp) - Here(j, f, i, fp)
  <2>1. HeldOf(bs, i, fp) \in Nat
    BY HeldIsNat
  <2> QED BY <1>4, <1>5, <2>1 DEF Here
<1> QED BY <1>5, <1>6, <1>7, <1>8
------------------------------------------------------------------------------
(* Moves.  Before each there are as many of each fingerprint around each bucket, with the one *)
(* in hand counted at the bucket it is for, as there were with the one that came. *)

Outcomes == [buckets : BucketMaps, at : Cf!Buckets, hand : Cf!Fingerprints, placed : BOOLEAN]

\* o is what became of bs when f came, for bucket j.
Came(o, bs, j, f) ==
  /\ o.placed \in BOOLEAN /\ o.buckets \in BucketMaps
  /\ Held(o.buckets) = Held(bs) + (IF o.placed THEN 1 ELSE 0)
  /\ o.placed => \A i \in Cf!Buckets : \A fp :
                   HeldOf(o.buckets, i, fp) = HeldOf(bs, i, fp) + Here(j, f, i, fp)

InHand(o, bs, j, f) ==
  /\ o \in Outcomes /\ Came(o, bs, j, f)
  /\ ~o.placed => \A i \in Cf!Buckets : \A fp :
                    HeldOf(o.buckets, i, fp) + Here(o.at, o.hand, i, fp) = HeldOf(bs, i, fp) + Here(j, f, i, fp)

LEMMA SameHere ==
  ASSUME NEW j \in Cf!Buckets, NEW f, NEW i \in Cf!Buckets, NEW fp
  PROVE  Here(Cf!AltIndex(j, f), f, i, fp) = Here(j, f, i, fp) /\ Here(j, f, i, fp) \in Nat
BY PairIsOfBoth DEF Here

LEMMA KickCame ==
  ASSUME NEW bs \in BucketMaps, NEW j \in Cf!Buckets, NEW f \in Cf!Fingerprints,
         NEW o, InHand(o, bs, j, f), NEW q \in Cf!Kick(o)
  PROVE  InHand(q, bs, j, f)
<1>1. CASE o.placed
  BY <1>1 DEF Cf!Kick
<1>2. CASE ~o.placed
  <2> DEFINE Out(n) == LET g  == o.buckets[o.at][n]
                           cs == [o.buckets EXCEPT ![o.at][n] = o.hand]
                           i  == Cf!AltIndex(o.at, g)
                       IN  IF Cf!HasRoom(cs, i) THEN [o EXCEPT !.buckets = [cs EXCEPT ![i] = Append(@, g)], !.placed = TRUE]
                           ELSE [buckets |-> cs, at |-> i, hand |-> g, placed |-> FALSE]
  <2>1. PICK n \in DOMAIN o.buckets[o.at] : q = Out(n)
    BY <1>2 DEF Cf!Kick
  <2> DEFINE g  == o.buckets[o.at][n]
             cs == [o.buckets EXCEPT ![o.at][n] = o.hand]
             a  == Cf!AltIndex(o.at, g)
             ds == [cs EXCEPT ![a] = Append(@, g)]
  <2>2. o.buckets \in BucketMaps /\ o.at \in Cf!Buckets /\ o.hand \in Cf!Fingerprints /\ o \in Outcomes
    BY DEF InHand, Outcomes
  <2>3. Held(o.buckets) = Held(bs) /\ Held(bs) \in Nat
    BY <1>2, HeldIsNat DEF InHand, Came
  <2>4. /\ g \in Cf!Fingerprints /\ cs \in BucketMaps /\ Held(cs) = Held(o.buckets)
        /\ \A i \in Cf!Buckets : \A fp :
             HeldOf(cs, i, fp) = HeldOf(o.buckets, i, fp) - Here(o.at, g, i, fp) + Here(o.at, o.hand, i, fp)
    BY <2>2, PutFor
  <2>5. a \in Cf!Buckets
    BY <2>2, OtherOfOther
  <2>6. q = IF Cf!HasRoom(cs, a) THEN [o EXCEPT !.buckets = ds, !.placed = TRUE]
            ELSE [buckets |-> cs, at |-> a, hand |-> g, placed |-> FALSE]
    BY <2>1
  <2> HIDE DEF Out, cs
  <2>7. ASSUME NEW i \in Cf!Buckets, NEW fp
        PROVE  /\ HeldOf(cs, i, fp) + Here(a, g, i, fp) = HeldOf(bs, i, fp) + Here(j, f, i, fp)
               /\ HeldOf(cs, i, fp) \in Nat
    <3>1. HeldOf(o.buckets, i, fp) + Here(o.at, o.hand, i, fp) = HeldOf(bs, i, fp) + Here(j, f, i, fp)
      BY <1>2 DEF InHand
    <3>2. HeldOf(cs, i, fp) = HeldOf(o.buckets, i, fp) - Here(o.at, g, i, fp) + Here(o.at, o.hand, i, fp)
      BY <2>4
    <3>3. HeldOf(cs, i, fp) \in Nat /\ HeldOf(o.buckets, i, fp) \in Nat /\ HeldOf(bs, i, fp) \in Nat
      BY <2>2, <2>4, HeldIsNat
    <3>4. Here(a, g, i, fp) = Here(o.at, g, i, fp) /\ Here(o.at, g, i, fp) \in Nat
      BY <2>2, SameHere
    <3>5. Here(o.at, o.hand, i, fp) \in Nat /\ Here(j, f, i, fp) \in Nat
      BY <2>2, SameHere
    <3> HIDE DEF a, g
    <3> QED BY <3>1, <3>2, <3>3, <3>4, <3>5
  <2> HIDE DEF a, g
  <2>8. CASE Cf!HasRoom(cs, a)
    <3>1. /\ ds \in BucketMaps /\ Held(ds) = Held(cs) + 1
          /\ \A i \in Cf!Buckets : \A fp : HeldOf(ds, i, fp) = HeldOf(cs, i, fp) + Here(a, g, i, fp)
      BY <2>4, <2>5, <2>8, PutIn
    <3> HIDE DEF ds
    <3>2. q = [o EXCEPT !.buckets = ds, !.placed = TRUE]
      BY <2>6, <2>8
    <3>3. q \in Outcomes /\ q.buckets = ds /\ q.placed = TRUE
      BY <2>2, <3>1, <3>2 DEF Outcomes
    <3>4. \A i \in Cf!Buckets : \A fp : HeldOf(ds, i, fp) = HeldOf(bs, i, fp) + Here(j, f, i, fp)
      BY <2>7, <3>1
    <3>5. Came(q, bs, j, f)
      BY <2>3, <2>4, <3>1, <3>3, <3>4 DEF Came
    <3> QED BY <3>3, <3>5 DEF InHand
  <2>9. CASE ~Cf!HasRoom(cs, a)
    <3>1. q = [buckets |-> cs, at |-> a, hand |-> g, placed |-> FALSE]
      BY <2>6, <2>9
    <3>2. q \in Outcomes /\ q.buckets = cs /\ q.at = a /\ q.hand = g /\ q.placed = FALSE
      BY <2>4, <2>5, <3>1 DEF Outcomes
    <3>3. Came(q, bs, j, f)
      <4>1. ~q.placed /\ q.placed \in BOOLEAN
        BY <3>2
      <4>2. Held(q.buckets) = Held(bs) + (IF q.placed THEN 1 ELSE 0)
        BY <2>3, <2>4, <3>2, <4>1
      <4> QED BY <2>4, <3>2, <4>1, <4>2 DEF Came
    <3> QED BY <2>7, <3>2, <3>3 DEF InHand
  <2> QED BY <2>8, <2>9
<1>3. o.placed \in BOOLEAN
  BY DEF InHand, Came
<1> QED BY <1>1, <1>2, <1>3

Moving == INSTANCE Folding WITH Step <- Cf!KickAll

LEMMA MovesAreFold ==
  ASSUME NEW bs, NEW it
  PROVE  Cf!MovedAround(bs, it)
           = Moving!Fold({[buckets |-> bs, at |-> i, hand |-> Fingerprint(it), placed |-> FALSE] : i \in {Cf!First(it), Cf!Second(it)}},
                    [n \in 1 .. MaxIterations |-> n])
BY DEF Cf!MovedAround, Cf!FoldLeft, Cf!MapThenFoldSet, Cf!Max, Moving!Fold, Moving!Folds, Moving!Highest

LEMMA FirstIsBucket == ASSUME NEW it PROVE Cf!First(it) \in Cf!Buckets
BY DEF Cf!First, Cf!Index, Cf!Buckets

LEMMA MovedAroundCame ==
  ASSUME NEW bs \in BucketMaps, NEW it \in Item, NEW o \in Cf!MovedAround(bs, it)
  PROVE  Came(o, bs, Cf!First(it), Fingerprint(it))
<1> DEFINE f == Fingerprint(it)
           j == Cf!First(it)
           base == {[buckets |-> bs, at |-> i, hand |-> f, placed |-> FALSE] : i \in {j, Cf!Second(it)}}
           seq == [n \in 1 .. MaxIterations |-> n]
           Good == {x \in Outcomes : InHand(x, bs, j, f)}
           G == [i \in 0 .. MaxIterations |-> SUBSET Good]
<1>1. j \in Cf!Buckets /\ f \in Cf!Fingerprints /\ Cf!Second(it) = Cf!AltIndex(j, f) /\ Cf!Second(it) \in Cf!Buckets
  BY FirstIsBucket, OtherOfOther DEF Cf!Second, Cf!Fingerprints
<1> HIDE DEF j, f
<1>2. ASSUME NEW i \in {j, Cf!Second(it)}
      PROVE  [buckets |-> bs, at |-> i, hand |-> f, placed |-> FALSE] \in Good
  <2> DEFINE s == [buckets |-> bs, at |-> i, hand |-> f, placed |-> FALSE]
  <2>1. s \in Outcomes /\ s.buckets = bs /\ s.at = i /\ s.hand = f /\ s.placed = FALSE
    BY <1>1 DEF Outcomes
  <2> HIDE DEF s
  <2>2. Came(s, bs, j, f)
    <3>1. Held(bs) \in Nat
      BY <1>1, HeldIsNat
    <3>2. ~s.placed /\ s.placed \in BOOLEAN
      BY <2>1
    <3>3. Held(s.buckets) = Held(bs) + (IF s.placed THEN 1 ELSE 0)
      BY <2>1, <3>1, <3>2
    <3> QED BY <2>1, <3>2, <3>3 DEF Came
  <2>3. \A x \in Cf!Buckets : \A fp : Here(i, f, x, fp) = Here(j, f, x, fp)
    BY <1>1, SameHere
  <2>4. InHand(s, bs, j, f)
    BY <2>1, <2>2, <2>3 DEF InHand
  <2> QED BY <2>1, <2>4 DEF s
<1>3. MaxIterations \in Nat /\ DOMAIN seq = 1 .. MaxIterations
  BY FiltersAssumption DEF FiltersAssumption
<1>4. base \in G[0]
  <2>1. base \in SUBSET Good
    BY <1>2
  <2> HIDE DEF base, Good
  <2> QED BY <1>3, <2>1
<1>5. ASSUME NEW n \in 1 .. MaxIterations, NEW t \in G[n - 1] PROVE Cf!KickAll(t, seq[n]) \in G[n]
  <2>1. t \in SUBSET Good /\ G[n] = SUBSET Good
    BY <1>3
  <2>2. \A x \in t : \A y \in Cf!Kick(x) : y \in Good
    BY <1>1, <2>1, KickCame DEF InHand
  <2> HIDE DEF Good
  <2>3. UNION {Cf!Kick(x) : x \in t} \in SUBSET Good
    BY <2>2
  <2> QED BY <2>1, <2>3 DEF Cf!KickAll
<1>6. Moving!Fold(base, seq) \in G[MaxIterations]
  <2> HIDE DEF base, seq, G
  <2> QED BY <1>3, <1>4, <1>5, LeastNat, Moving!FoldKeeps DEF Moving!NatsHaveLeast
<1>7. Cf!MovedAround(bs, it) = Moving!Fold(base, seq)
  BY MovesAreFold DEF j, f
<1>8. Cf!MovedAround(bs, it) \in SUBSET Good
  <2> HIDE DEF base, seq, Good
  <2> QED BY <1>3, <1>6, <1>7
<1>9. InHand(o, bs, j, f)
  BY <1>8
<1> QED BY <1>9 DEF InHand, j, f

LEMMA AddedCame ==
  ASSUME NEW bs \in BucketMaps, NEW it \in Item, NEW o \in Cf!Added(bs, it)
  PROVE  Came(o, bs, Cf!First(it), Fingerprint(it))
<1> DEFINE f == Fingerprint(it)
           j == Cf!First(it)
<1>1. j \in Cf!Buckets /\ f \in Cf!Fingerprints /\ Cf!Second(it) = Cf!AltIndex(j, f) /\ Cf!Second(it) \in Cf!Buckets
  BY FirstIsBucket, OtherOfOther DEF Cf!Second, Cf!Fingerprints
<1> HIDE DEF j, f
<1>2. ASSUME NEW i \in {j, Cf!Second(it)}, Cf!HasRoom(bs, i), o \in Cf!Into(bs, i, f)
      PROVE  Came(o, bs, j, f)
  <2> DEFINE cs == [bs EXCEPT ![i] = Append(@, f)]
  <2>1. /\ cs \in BucketMaps /\ Held(cs) = Held(bs) + 1
        /\ \A x \in Cf!Buckets : \A fp : HeldOf(cs, x, fp) = HeldOf(bs, x, fp) + Here(i, f, x, fp)
    BY <1>1, <1>2, PutIn
  <2>2. o.buckets = cs /\ o.placed = TRUE
    BY <1>2 DEF Cf!Into
  <2>3. \A x \in Cf!Buckets : \A fp : Here(i, f, x, fp) = Here(j, f, x, fp)
    BY <1>1, SameHere
  <2> HIDE DEF cs
  <2> QED BY <2>1, <2>2, <2>3 DEF Came
<1>3. CASE Cf!HasRoom(bs, j)
  BY <1>2, <1>3 DEF Cf!Added, j, f
<1>4. CASE ~Cf!HasRoom(bs, j) /\ Cf!HasRoom(bs, Cf!Second(it))
  BY <1>2, <1>4 DEF Cf!Added, j, f
<1>5. CASE ~Cf!HasRoom(bs, j) /\ ~Cf!HasRoom(bs, Cf!Second(it))
  BY <1>5, MovedAroundCame DEF Cf!Added, j, f
<1> QED BY <1>3, <1>4, <1>5 DEF j, f
------------------------------------------------------------------------------
(* The invariant: the filter holds what was added and not deleted since *)

\* The items that look the same as fp around bucket i.
Alike(i, fp) == {x \in Item : Fingerprint(x) = fp /\ Cf!First(x) \in Pair(i, fp)}

CuckooTyped ==
  /\ careless \in BOOLEAN /\ refused \in 0 .. MaxCopies /\ present \in [Item -> 0 .. MaxCopies]
  /\ buckets \in BucketMaps

CuckooInv ==
  /\ CuckooTyped
  /\ ~careless => Held(buckets) = Sum(present, Item)
  /\ ~careless /\ refused = 0 =>
       \A i \in Cf!Buckets : \A fp : HeldOf(buckets, i, fp) = Sum(present, Alike(i, fp))

LEMMA PresentIs ==
  ASSUME CuckooTyped, NEW S \in SUBSET Item
  PROVE  IsFiniteSet(S) /\ \A x \in S : present[x] \in Nat
<1>1. IsFiniteSet(S)
  BY FiltersAssumption, FS_Subset DEF FiltersAssumption
<1> QED BY <1>1, FiltersAssumption DEF FiltersAssumption, CuckooTyped

LEMMA LooksAlike ==
  ASSUME NEW it \in Item, NEW i \in Cf!Buckets, NEW fp
  PROVE  Here(Cf!First(it), Fingerprint(it), i, fp) = IF it \in Alike(i, fp) THEN 1 ELSE 0
BY DEF Here, Alike

\* One copy more or less of an item.
LEMMA PresentChanges ==
  ASSUME CuckooTyped, NEW it \in Item, NEW d \in Int, present' = [present EXCEPT ![it] = @ + d],
         present'[it] \in Nat, NEW S \in SUBSET Item
  PROVE  Sum(present', S) = Sum(present, S) + (IF it \in S THEN d ELSE 0)
<1>1. IsFiniteSet(S) /\ \A x \in S : present[x] \in Nat
  BY PresentIs
<1>2. present'[it] = present[it] + d /\ present[it] \in Nat /\ \A x \in S \ {it} : present'[x] = present[x]
  <2>1. present[it] \in Nat
    BY PresentIs, {it} \in SUBSET Item
  <2> QED BY <2>1 DEF CuckooTyped
<1>3. \A x \in S : present'[x] \in Nat
  BY <1>1, <1>2
<1> DEFINE p == present'
<1>4. (\A x \in S : p[x] \in Nat) /\ (\A x \in S \ {it} : p[x] = present[x]) /\ p[it] - present[it] = d
  BY <1>2, <1>3
<1> HIDE DEF p
<1>5. Sum(p, S) = Sum(present, S) + (IF it \in S THEN p[it] - present[it] ELSE 0)
  BY <1>1, <1>4, SumShifts
<1> QED BY <1>4, <1>5 DEF p

LEMMA EmptyFilterHolds ==
  ASSUME NEW bs, bs = [i \in Cf!Buckets |-> <<>>]
  PROVE  /\ bs \in BucketMaps /\ Held(bs) = 0
         /\ \A i \in Cf!Buckets : \A fp : HeldOf(bs, i, fp) = 0
<1>1. <<>> \in Seq(Cf!Fingerprints) /\ Len(<<>>) = 0 /\ 0 <= BucketSize
  BY EmptySeq, FiltersAssumption DEF FiltersAssumption
<1>2. bs \in BucketMaps
  BY <1>1 DEF BucketMaps
<1>3. Held(bs) = 0
  BY <1>1, SumOfNothing DEF Held
<1>4. ASSUME NEW i \in Cf!Buckets, NEW fp PROVE HeldOf(bs, i, fp) = 0
  <2>1. CopiesIn(<<>>, fp) = 0
    <3>1. CopiesIn(<<>>, fp) = 0 <=> \A n \in 1 .. Len(<<>>) : <<>>[n] # fp
      BY <1>1, CopiesAreNat
    <3>2. 1 .. Len(<<>>) = {}
      BY <1>1
    <3> QED BY <3>1, <3>2
  <2> DEFINE g == [j \in Cf!Buckets |-> CopiesIn(bs[j], fp)]
  <2>2. \A j \in Pair(i, fp) : g[j] = 0
    BY <2>1, PairIsFinite
  <2> HIDE DEF g
  <2>3. Sum(g, Pair(i, fp)) = 0
    BY <2>2, SumOfNothing
  <2> QED BY <2>3 DEF g, HeldOf
<1> QED BY <1>2, <1>3, <1>4

LEMMA NothingPresent ==
  ASSUME NEW p, p = [it \in Item |-> 0], NEW S \in SUBSET Item PROVE Sum(p, S) = 0
BY SumOfNothing

LEMMA CuckooBegin == Cf!Init => CuckooInv
<1> SUFFICES ASSUME Cf!Init PROVE CuckooInv
  OBVIOUS
<1>1. careless \in BOOLEAN /\ refused = 0 /\ 0 \in 0 .. MaxCopies
  BY FiltersAssumption DEF FiltersAssumption, Cf!Init
<1>2. buckets = [i \in Cf!Buckets |-> <<>>] /\ present = [it \in Item |-> 0]
  BY DEF Cf!Init
<1>3. buckets \in BucketMaps /\ Held(buckets) = 0 /\ \A i \in Cf!Buckets : \A fp : HeldOf(buckets, i, fp) = 0
  BY <1>2, EmptyFilterHolds
<1>4. Sum(present, Item) = 0 /\ \A i \in Cf!Buckets : \A fp : Sum(present, Alike(i, fp)) = 0
  BY <1>2, NothingPresent DEF Alike
<1>5. CuckooTyped
  BY <1>1, <1>2, <1>3 DEF CuckooTyped
<1> QED BY <1>3, <1>4, <1>5 DEF CuckooInv

LEMMA ReserveKeepsCuckoo == ASSUME CuckooInv, Cf!Reserve PROVE CuckooInv'
<1>1. careless' \in BOOLEAN /\ refused' = 0 /\ 0 \in 0 .. MaxCopies
  BY FiltersAssumption DEF FiltersAssumption, Cf!Reserve, CuckooInv, CuckooTyped
<1>2. buckets' = [i \in Cf!Buckets |-> <<>>] /\ present' = [it \in Item |-> 0]
  BY DEF Cf!Reserve
<1>3. buckets' \in BucketMaps /\ Held(buckets') = 0 /\ \A i \in Cf!Buckets : \A fp : HeldOf(buckets', i, fp) = 0
  BY <1>2, EmptyFilterHolds
<1>4. Sum(present', Item) = 0 /\ \A i \in Cf!Buckets : \A fp : Sum(present', Alike(i, fp)) = 0
  BY <1>2, NothingPresent DEF Alike
<1>5. CuckooTyped'
  BY <1>1, <1>2, <1>3 DEF CuckooTyped
<1> QED BY <1>3, <1>4, <1>5 DEF CuckooInv

LEMMA AddKeepsCuckoo ==
  ASSUME CuckooInv, NEW it \in Item, NEW nxOnly, Cf!Add(it, nxOnly) PROVE CuckooInv'
<1> DEFINE j == Cf!First(it)
           f == Fingerprint(it)
<1>1. CuckooTyped /\ buckets \in BucketMaps /\ j \in Cf!Buckets
  BY FirstIsBucket DEF CuckooInv, CuckooTyped
<1>2. PICK o \in Cf!Added(buckets, it) :
        /\ buckets' = o.buckets
        /\ IF o.placed THEN present' = [present EXCEPT ![it] = @ + 1] /\ UNCHANGED refused
           ELSE refused' = refused + 1 /\ UNCHANGED present
  BY DEF Cf!Add
<1>3. Came(o, buckets, j, f)
  BY <1>1, AddedCame
<1> HIDE DEF j, f
<1>4. careless' = careless /\ careless \in BOOLEAN
  BY <1>1 DEF Cf!Add, CuckooTyped
<1>5. present[it] < MaxCopies /\ refused < MaxCopies /\ refused \in Nat /\ MaxCopies \in Nat /\ present[it] \in Nat
  BY <1>1, FiltersAssumption DEF Cf!Add, CuckooTyped, FiltersAssumption
<1>6. Held(buckets) \in Nat
  BY <1>1, HeldIsNat
<1>7. CASE o.placed
  <2>1. present' = [present EXCEPT ![it] = @ + 1] /\ refused' = refused
    BY <1>2, <1>7
  <2>2. present' \in [Item -> 0 .. MaxCopies] /\ present'[it] \in Nat
    BY <1>1, <1>5, <2>1 DEF CuckooTyped
  <2>3. ASSUME NEW S \in SUBSET Item
        PROVE  Sum(present', S) = Sum(present, S) + (IF it \in S THEN 1 ELSE 0)
    <3>1. 1 \in Int OBVIOUS
    <3> QED BY <1>1, <2>1, <2>2, <3>1, PresentChanges
  <2>4. CuckooTyped'
    BY <1>1, <1>2, <1>3, <1>4, <2>1, <2>2 DEF CuckooTyped, Came
  <2>5. ~careless => Held(buckets') = Sum(present', Item)
    <3>1. Sum(present', Item) = Sum(present, Item) + 1
      BY <2>3
    <3>2. Held(buckets') = Held(buckets) + 1
      BY <1>2, <1>3, <1>7 DEF Came
    <3> QED BY <3>1, <3>2 DEF CuckooInv
  <2>6. ASSUME ~careless, refused = 0, NEW i \in Cf!Buckets, NEW fp
        PROVE  HeldOf(buckets', i, fp) = Sum(present', Alike(i, fp))
    <3>1. HeldOf(buckets', i, fp) = HeldOf(buckets, i, fp) + Here(j, f, i, fp)
      BY <1>2, <1>3, <1>7 DEF Came
    <3>2. Here(j, f, i, fp) = IF it \in Alike(i, fp) THEN 1 ELSE 0
      BY LooksAlike DEF j, f
    <3>3. Sum(present', Alike(i, fp)) = Sum(present, Alike(i, fp)) + (IF it \in Alike(i, fp) THEN 1 ELSE 0)
      <4>1. Alike(i, fp) \in SUBSET Item BY DEF Alike
      <4> QED BY <2>3, <4>1
    <3> QED BY <2>6, <3>1, <3>2, <3>3 DEF CuckooInv
  <2> QED BY <1>4, <2>1, <2>4, <2>5, <2>6 DEF CuckooInv
<1>8. CASE ~o.placed
  <2>1. present' = present /\ refused' = refused + 1
    BY <1>2, <1>8
  <2>2. refused' \in 0 .. MaxCopies /\ refused' # 0
    BY <1>5, <2>1
  <2>3. CuckooTyped'
    BY <1>1, <1>2, <1>3, <1>4, <2>1, <2>2 DEF CuckooTyped, Came
  <2>4. Held(buckets') = Held(buckets)
    BY <1>2, <1>3, <1>6, <1>8 DEF Came
  <2> QED BY <1>4, <2>1, <2>2, <2>3, <2>4 DEF CuckooInv
<1> QED BY <1>7, <1>8

LEMMA ExistsIs ==
  ASSUME NEW bs \in BucketMaps, NEW j \in Cf!Buckets, NEW f
  PROVE  f \in Cf!Range(bs[j]) <=> \E n \in 1 .. Len(bs[j]) : bs[j][n] = f
<1>1. bs[j] \in Seq(Cf!Fingerprints)
  BY DEF BucketMaps
<1>2. DOMAIN bs[j] = 1 .. Len(bs[j])
  BY <1>1, LenProperties
<1> QED BY <1>2 DEF Cf!Range

LEMMA DeleteKeepsCuckoo == ASSUME CuckooInv, NEW it \in Item, Cf!Delete(it) PROVE CuckooInv'
<1> DEFINE j == Cf!First(it)
           f == Fingerprint(it)
           i0 == IF f \in Cf!Range(buckets[j]) THEN j ELSE Cf!Second(it)
           c == IF present[it] > 0 THEN -1 ELSE 0
<1>1. CuckooTyped /\ buckets \in BucketMaps /\ j \in Cf!Buckets /\ Cf!Second(it) = Cf!AltIndex(j, f) /\ Cf!Second(it) \in Cf!Buckets
  BY FirstIsBucket, OtherOfOther DEF CuckooInv, CuckooTyped, Cf!Second
<1>2. /\ buckets' = [buckets EXCEPT ![i0] = Cf!RemoveFirst(@, f)]
      /\ present' = [present EXCEPT ![it] = IF @ > 0 THEN @ - 1 ELSE 0]
      /\ careless' = careless /\ refused' = refused /\ (present[it] > 0 \/ careless)
      /\ f \in Cf!Range(buckets[j]) \/ f \in Cf!Range(buckets[Cf!Second(it)])
  BY DEF Cf!Delete, Cf!Exists
<1>3. i0 \in Cf!Buckets /\ f \in Cf!Range(buckets[i0]) /\ i0 \in {j, Cf!AltIndex(j, f)}
  BY <1>1, <1>2
<1>4. present[it] \in 0 .. MaxCopies /\ MaxCopies \in Nat /\ present \in [Item -> 0 .. MaxCopies]
  BY <1>1, FiltersAssumption DEF CuckooTyped, FiltersAssumption
<1>5. present' = [present EXCEPT ![it] = @ + c] /\ present' \in [Item -> 0 .. MaxCopies] /\ present'[it] \in Nat /\ c \in Int
  <2>1. CASE present[it] > 0
    <3>1. present' = [present EXCEPT ![it] = @ - 1] /\ c = -1
      BY <1>2, <1>4, <2>1
    <3> HIDE DEF c
    <3> DEFINE q == present[it] - 1
    <3>2. q \in 0 .. MaxCopies /\ q \in Nat /\ present[it] + c = q
      BY <1>4, <2>1, <3>1
    <3>3. present' = [present EXCEPT ![it] = q]
      BY <3>1
    <3> HIDE DEF q
    <3>4. present' \in [Item -> 0 .. MaxCopies] /\ present'[it] = q
      BY <1>4, <3>2, <3>3
    <3>5. present' = [present EXCEPT ![it] = @ + c]
      BY <3>2, <3>3
    <3>6. c \in Int /\ present'[it] \in Nat
      BY <3>1, <3>2, <3>4
    <3> QED BY <3>4, <3>5, <3>6
  <2>2. CASE ~(present[it] > 0)
    <3>1. present' = [present EXCEPT ![it] = 0] /\ c = 0 /\ present[it] = 0
      BY <1>2, <1>4, <2>2
    <3> QED BY <1>4, <3>1
  <2> QED BY <2>1, <2>2
<1> HIDE DEF j, f, i0
<1>6. /\ buckets' \in BucketMaps /\ Held(buckets') = Held(buckets) - 1
      /\ \A i \in Cf!Buckets : \A fp : HeldOf(buckets', i, fp) = HeldOf(buckets, i, fp) - Here(i0, f, i, fp)
  <2>1. \E n \in 1 .. Len(buckets[i0]) : buckets[i0][n] = f
    <3>1. buckets \in BucketMaps /\ i0 \in Cf!Buckets /\ f \in Cf!Range(buckets[i0])
      BY <1>1, <1>3
    <3>2. f \in Cf!Range(buckets[i0]) <=> \E n \in 1 .. Len(buckets[i0]) : buckets[i0][n] = f
      BY <3>1, ExistsIs
    <3> QED BY <3>1, <3>2
  <2> DEFINE cs == [buckets EXCEPT ![i0] = Cf!RemoveFirst(@, f)]
  <2>2. cs \in BucketMaps /\ Held(cs) = Held(buckets) - 1
    BY <1>1, <1>3, <2>1, TakeOut
  <2>3. \A i \in Cf!Buckets : \A fp : HeldOf(cs, i, fp) = HeldOf(buckets, i, fp) - Here(i0, f, i, fp)
    BY <1>1, <1>3, <2>1, TakeOut
  <2>4. buckets' = cs
    BY <1>2
  <2> HIDE DEF cs
  <2> QED BY <2>2, <2>3, <2>4
<1>7. CuckooTyped'
  BY <1>1, <1>2, <1>5, <1>6 DEF CuckooTyped
<1>8. \A S \in SUBSET Item : Sum(present', S) = Sum(present, S) + (IF it \in S THEN c ELSE 0)
  <2> HIDE DEF c
  <2> QED BY <1>1, <1>5, PresentChanges
<1>9. ~careless => c = -1
  BY <1>2
<1> HIDE DEF c
<1>10. ~careless => Held(buckets') = Sum(present', Item)
  <2>1. Sum(present', Item) = Sum(present, Item) + c
    BY <1>8
  <2>2. Held(buckets) \in Nat
    BY <1>1, HeldIsNat
  <2> QED BY <1>6, <1>9, <2>1, <2>2 DEF CuckooInv
<1>11. ASSUME ~careless, refused = 0, NEW i \in Cf!Buckets, NEW fp
       PROVE  HeldOf(buckets', i, fp) = Sum(present', Alike(i, fp))
  <2>1. Here(i0, f, i, fp) = Here(j, f, i, fp)
    BY <1>1, <1>3, SameHere
  <2>2. Here(j, f, i, fp) = IF it \in Alike(i, fp) THEN 1 ELSE 0
    BY LooksAlike DEF j, f
  <2>3. Sum(present', Alike(i, fp)) = Sum(present, Alike(i, fp)) + (IF it \in Alike(i, fp) THEN c ELSE 0)
    <3>1. Alike(i, fp) \in SUBSET Item BY DEF Alike
    <3> QED BY <1>8, <3>1
  <2>4. HeldOf(buckets, i, fp) \in Nat /\ HeldOf(buckets, i, fp) = Sum(present, Alike(i, fp))
    BY <1>1, <1>11, HeldIsNat DEF CuckooInv
  <2> QED BY <1>6, <1>9, <1>11, <2>1, <2>2, <2>3, <2>4
<1> QED BY <1>2, <1>7, <1>10, <1>11 DEF CuckooInv

LEMMA CuckooNext == CuckooInv /\ [Cf!Next]_Cf!vars => CuckooInv'
<1> SUFFICES ASSUME CuckooInv, [Cf!Next]_Cf!vars PROVE CuckooInv'
  OBVIOUS
<1>1. CASE UNCHANGED Cf!vars
  BY <1>1 DEF Cf!vars, CuckooInv, CuckooTyped
<1>2. CASE Cf!Reserve
  BY <1>2, ReserveKeepsCuckoo
<1>3. ASSUME NEW it \in Item, NEW nxOnly \in BOOLEAN, Cf!Add(it, nxOnly) PROVE CuckooInv'
  BY <1>3, AddKeepsCuckoo
<1>4. ASSUME NEW it \in Item, Cf!Delete(it) PROVE CuckooInv'
  BY <1>4, DeleteKeepsCuckoo
<1> QED BY <1>1, <1>2, <1>3, <1>4 DEF Cf!Next

(* What the runs check *)

LEMMA CuckooInvTypes == CuckooInv => Cf!TypeOK
<1> SUFFICES ASSUME CuckooInv PROVE Cf!TypeOK
  OBVIOUS
<1>1. CuckooTyped /\ buckets \in [Cf!Buckets -> Seq(Cf!Fingerprints)]
  BY DEF CuckooInv, CuckooTyped, BucketMaps
<1>2. ASSUME NEW i \in Cf!Buckets PROVE Len(buckets[i]) <= BucketSize /\ Cf!Range(buckets[i]) \subseteq Cf!Fingerprints
  <2>1. buckets[i] \in Seq(Cf!Fingerprints) /\ Len(buckets[i]) <= BucketSize
    BY <1>1 DEF CuckooTyped, BucketMaps
  <2>2. DOMAIN buckets[i] = 1 .. Len(buckets[i])
    BY <2>1, LenProperties
  <2> QED BY <2>1, <2>2, ElementOfSeq DEF Cf!Range
<1> QED BY <1>1, <1>2 DEF Cf!TypeOK, CuckooTyped

LEMMA CuckooInvDeletes == CuckooInv => Cf!DeletionsTakeTheirOwn
<1> SUFFICES ASSUME CuckooInv, refused = 0, ~careless, NEW it \in Item
             PROVE  LET pair  == {Cf!First(it), Cf!Second(it)}
                        alike == {x \in Item : Fingerprint(x) = Fingerprint(it) /\ Cf!First(x) \in pair}
                    IN  Cf!Total([i \in pair |-> Cf!Copies(buckets[i], Fingerprint(it))], pair) = Cf!Total(present, alike)
  BY DEF Cf!DeletionsTakeTheirOwn
<1> DEFINE f == Fingerprint(it)
           j == Cf!First(it)
           pair == Pair(j, f)
           g == [i \in pair |-> Cf!Copies(buckets[i], f)]
           h == [i \in Cf!Buckets |-> CopiesIn(buckets[i], f)]
<1>1. {Cf!First(it), Cf!Second(it)} = pair /\ j \in Cf!Buckets
  BY FirstIsBucket DEF Cf!Second, Pair
<1>2. {x \in Item : Fingerprint(x) = f /\ Cf!First(x) \in pair} = Alike(j, f)
  BY DEF Alike
<1>3. Cf!Total(g, pair) = HeldOf(buckets, j, f)
  <2>1. \A i \in pair : g[i] = h[i]
    BY <1>1, PairIsFinite, CopiesAre
  <2> HIDE DEF g, h
  <2>2. Sum(g, pair) = Sum(h, pair)
    BY <2>1, SumOfSame
  <2> QED BY <2>2, SumIsTotal DEF h, HeldOf
<1>4. Cf!Total(present, Alike(j, f)) = HeldOf(buckets, j, f)
  BY <1>1, SumIsTotal DEF CuckooInv
<1> QED BY <1>1, <1>2, <1>3, <1>4

LEMMA CuckooInvFinds == CuckooInv => Cf!WhatIsAddedIsFound
<1> SUFFICES ASSUME CuckooInv, refused = 0, ~careless, NEW it \in Item, present[it] > 0, ~Cf!Exists(buckets, it)
             PROVE  FALSE
  BY DEF Cf!WhatIsAddedIsFound
<1> DEFINE f == Fingerprint(it)
           j == Cf!First(it)
           A == Alike(j, f)
           h == [i \in Cf!Buckets |-> CopiesIn(buckets[i], f)]
<1>1. /\ CuckooTyped /\ buckets \in BucketMaps /\ j \in Cf!Buckets /\ HeldOf(buckets, j, f) = Sum(present, A)
      /\ Cf!Second(it) = Cf!AltIndex(j, f)
  BY FirstIsBucket DEF CuckooInv, CuckooTyped, Cf!Second
<1>2. A \in SUBSET Item /\ it \in A
  BY DEF Alike, Pair
<1>3. Sum(present, A) > 0
  <2> HIDE DEF A
  <2>1. IsFiniteSet(A) /\ \A x \in A : present[x] \in Nat
    BY <1>1, <1>2, PresentIs
  <2>2. Sum(present, A) = Sum(present, A \ {it}) + present[it] /\ Sum(present, A \ {it}) \in Nat
    BY <1>2, <2>1, SumWithout
  <2> QED BY <1>2, <2>1, <2>2
<1>4. ASSUME NEW i \in Pair(j, f) PROVE h[i] = 0
  <2>1. i \in Cf!Buckets /\ i \in {j, Cf!Second(it)}
    BY <1>1, PairIsFinite DEF Pair
  <2>2. f \notin Cf!Range(buckets[i])
    BY <2>1 DEF Cf!Exists
  <2>3. \A n \in 1 .. Len(buckets[i]) : buckets[i][n] # f
    BY <1>1, <2>1, <2>2, ExistsIs
  <2>4. buckets[i] \in Seq(Cf!Fingerprints)
    BY <1>1, <2>1 DEF BucketMaps
  <2>5. CopiesIn(buckets[i], f) = 0
    BY <2>3, <2>4, CopiesAreNat
  <2> QED BY <2>1, <2>5
<1>5. Sum(h, Pair(j, f)) = 0
  <2> HIDE DEF h
  <2> QED BY <1>4, SumOfNothing
<1>6. HeldOf(buckets, j, f) = 0
  BY <1>5 DEF HeldOf
<1> QED BY <1>1, <1>3, <1>6

LEMMA CuckooInvRefuses == CuckooInv => Cf!RefusalsLoseOne
<1> SUFFICES ASSUME CuckooInv, ~careless
             PROVE  Cf!Total([i \in DOMAIN buckets |-> Len(buckets[i])], DOMAIN buckets) = Cf!Total(present, Item)
  BY DEF Cf!RefusalsLoseOne
<1>1. DOMAIN buckets = Cf!Buckets
  BY DEF CuckooInv, CuckooTyped, BucketMaps
<1>2. Held(buckets) = Sum(present, Item)
  BY DEF CuckooInv
<1> QED BY <1>1, <1>2, SumIsTotal DEF Held

LEMMA FiltersBegin == Init /\ family = "cuckoo" => Cf!Init
BY DEF Init

LEMMA FiltersStep == [Next]_vars => family' = family /\ (family = "cuckoo" => [Cf!Next]_Cf!vars)
BY DEF Next, vars, cuckooVars, Cf!vars

FiltersInv == family = "cuckoo" => CuckooInv

LEMMA FiltersAlways == Spec => []FiltersInv
<1>1. Init => FiltersInv
  BY FiltersBegin, CuckooBegin DEF FiltersInv
<1>2. FiltersInv /\ [Next]_vars => FiltersInv'
  BY FiltersStep, CuckooNext DEF FiltersInv
<1> QED BY <1>1, <1>2, PTL DEF Spec

(* Whatever additions move and deletions take, an item that was added and not deleted is  *)
(* found, its two buckets hold as many copies of its fingerprint as items that look like  *)
(* it were added, and an addition that is refused loses one fingerprint and no more: for  *)
(* any hashes, buckets of any size and any number of moves.                               *)
THEOREM WhatIsAddedStaysThere == Spec => []FiltersFindWhatIsThere
<1>1. FiltersInv => FiltersFindWhatIsThere
  BY CuckooInvTypes, CuckooInvFinds, CuckooInvDeletes, CuckooInvRefuses DEF FiltersInv, FiltersFindWhatIsThere
<1> QED BY <1>1, FiltersAlways, PTL
------------------------------------------------------------------------------
(* Ranges.  FlattenSeq is a recursive function; its value is reached along the prefixes. *)

FlattensTo(g, ss, m) == g = [i \in 1 .. m |-> IF i = 1 THEN ss[i] ELSE g[i - 1] \o ss[i]]

LEMMA FlatteningExists ==
  ASSUME NEW n \in Nat, NEW ss PROVE \E g : FlattensTo(g, ss, n)
<1> DEFINE T == {m \in Nat : ~ \E g : FlattensTo(g, ss, m)}
<1>1. SUFFICES ASSUME T # {} PROVE FALSE
  OBVIOUS
<1>2. PICK m \in T : \A k \in T : m <= k
  <2>1. T \in SUBSET Nat OBVIOUS
  <2> HIDE DEF T
  <2> QED BY <1>1, <2>1, LeastNat
<1>3. m # 0
  <2>1. FlattensTo([i \in 1 .. 0 |-> 0], ss, 0)
    BY DEF FlattensTo
  <2> QED BY <1>2, <2>1
<1>4. PICK h : FlattensTo(h, ss, m - 1)
  <2>1. m - 1 \in Nat /\ ~(m <= m - 1)
    BY <1>2, <1>3
  <2> QED BY <1>2, <2>1
<1> DEFINE last == IF m = 1 THEN ss[1] ELSE h[m - 1] \o ss[m]
           g == [i \in 1 .. m |-> IF i = m THEN last ELSE h[i]]
<1>5. m \in Nat
  BY <1>2
<1>6. ASSUME NEW i \in 1 .. m PROVE g[i] = IF i = 1 THEN ss[i] ELSE g[i - 1] \o ss[i]
  <2>1. CASE i = m
    <3>1. i # 1 => i - 1 \in 1 .. m /\ i - 1 # m
      BY <1>5, <2>1
    <3> QED BY <2>1, <3>1
  <2>2. CASE i # m
    <3>1. i \in 1 .. m - 1 /\ (i # 1 => i - 1 \in 1 .. m /\ i - 1 # m)
      BY <1>5, <2>2
    <3>2. h[i] = IF i = 1 THEN ss[i] ELSE h[i - 1] \o ss[i]
      BY <1>4, <3>1 DEF FlattensTo
    <3> QED BY <2>2, <3>1, <3>2
  <2> QED BY <2>1, <2>2
<1>7. FlattensTo(g, ss, m)
  <2>1. g = [i \in 1 .. m |-> g[i]]
    OBVIOUS
  <2> HIDE DEF g
  <2> QED BY <1>6, <2>1 DEF FlattensTo
<1> QED BY <1>2, <1>7

LEMMA FlattenedIs ==
  ASSUME NEW S, NEW ss \in Seq(Seq(S))
  PROVE  \E fl \in [0 .. Len(ss) -> Seq(S)] :
           /\ fl[0] = <<>> /\ fl[Len(ss)] = Rg!FlattenSeq(ss)
           /\ \A i \in 1 .. Len(ss) : fl[i] = fl[i - 1] \o ss[i]
<1> DEFINE n == Len(ss)
           g == CHOOSE g : g = [i \in 1 .. n |-> IF i = 1 THEN ss[i] ELSE g[i - 1] \o ss[i]]
           fl == [i \in 0 .. n |-> IF i = 0 THEN <<>> ELSE g[i]]
<1>1. n \in Nat /\ \A i \in 1 .. n : ss[i] \in Seq(S)
  BY LenProperties, ElementOfSeq
<1>2. g = [i \in 1 .. n |-> IF i = 1 THEN ss[i] ELSE g[i - 1] \o ss[i]]
  <2>1. \E h : h = [i \in 1 .. n |-> IF i = 1 THEN ss[i] ELSE h[i - 1] \o ss[i]]
    BY <1>1, FlatteningExists DEF FlattensTo
  <2> HIDE DEF n
  <2> QED BY <2>1
<1>3. Rg!FlattenSeq(ss) = IF n = 0 THEN ss ELSE g[n]
  BY DEF Rg!FlattenSeq
<1> HIDE DEF g
<1>4. \A i \in 1 .. n : g[i] = IF i = 1 THEN ss[i] ELSE g[i - 1] \o ss[i]
  BY <1>2
<1>5. \A i \in 1 .. n : g[i] \in Seq(S)
  <2> DEFINE T == {m \in Nat : m \in 1 .. n /\ g[m] \notin Seq(S)}
  <2>1. SUFFICES ASSUME T # {} PROVE FALSE
    OBVIOUS
  <2>2. PICK m \in T : \A k \in T : m <= k
    <3>1. T \in SUBSET Nat OBVIOUS
    <3> HIDE DEF T
    <3> QED BY <2>1, <3>1, LeastNat
  <2>3. m \in 1 .. n /\ g[m] \notin Seq(S) /\ ss[m] \in Seq(S)
    BY <1>1, <2>2
  <2>4. CASE m = 1
    BY <1>4, <2>3, <2>4
  <2>5. CASE m # 1
    <3>1. m - 1 \in 1 .. n /\ m - 1 \in Nat /\ ~(m <= m - 1)
      BY <1>1, <2>3, <2>5
    <3>2. g[m - 1] \in Seq(S)
      BY <2>2, <3>1
    <3>3. g[m] = g[m - 1] \o ss[m]
      BY <1>4, <2>3, <2>5
    <3> QED BY <2>3, <3>2, <3>3, ConcatProperties
  <2> QED BY <2>4, <2>5
<1>6. <<>> \in Seq(S)
  BY EmptySeq
<1>7. fl \in [0 .. n -> Seq(S)] /\ fl[0] = <<>>
  BY <1>1, <1>5, <1>6
<1>8. fl[n] = Rg!FlattenSeq(ss)
  <2>1. CASE n = 0
    <3>1. ss = <<>>
      <4>1. ss # <<>> => Len(ss) \in Nat \ {0}
        BY EmptySeq
      <4> QED BY <2>1, <4>1
    <3> QED BY <1>3, <2>1, <3>1
  <2>2. CASE n # 0
    BY <1>1, <1>3, <2>2
  <2> QED BY <2>1, <2>2
<1>9. ASSUME NEW i \in 1 .. n PROVE fl[i] = fl[i - 1] \o ss[i]
  <2>1. i \in 0 .. n /\ i - 1 \in 0 .. n /\ i # 0 /\ (i # 1 => i - 1 # 0) /\ fl[i] = g[i]
    BY <1>1
  <2>2. CASE i = 1
    <3>1. <<>> \o ss[1] = ss[1]
      BY <1>1, <2>2, ConcatEmptySeq
    <3>2. fl[0] = <<>> BY <1>7
    <3>3. i - 1 = 0 /\ g[i] = ss[1]
      BY <1>4, <2>2
    <3>4. fl[i - 1] = <<>> /\ fl[i] = ss[1]
      BY <2>1, <3>2, <3>3
    <3> QED BY <2>2, <3>1, <3>4
  <2>3. CASE i # 1
    BY <1>4, <2>1, <2>3
  <2> QED BY <2>2, <2>3
<1> HIDE DEF fl
<1> QED BY <1>7, <1>8, <1>9

LEMMA FlattenChain ==
  ASSUME NEW S, NEW ss \in Seq(Seq(S)), NEW G, <<>> \in G[0],
         \A i \in 1 .. Len(ss) : \A t \in G[i - 1] : t \in Seq(S) => t \o ss[i] \in G[i]
  PROVE  Rg!FlattenSeq(ss) \in G[Len(ss)] /\ Rg!FlattenSeq(ss) \in Seq(S)
<1>1. PICK fl \in [0 .. Len(ss) -> Seq(S)] :
           /\ fl[0] = <<>> /\ fl[Len(ss)] = Rg!FlattenSeq(ss)
           /\ \A i \in 1 .. Len(ss) : fl[i] = fl[i - 1] \o ss[i]
  BY FlattenedIs
<1>2. Len(ss) \in Nat
  BY LenProperties
<1> DEFINE T == {m \in Nat : m <= Len(ss) /\ fl[m] \notin G[m]}
<1>3. SUFFICES ASSUME T # {} PROVE FALSE
  <2>1. Len(ss) \in 0 .. Len(ss)
    BY <1>2
  <2>2. fl[Len(ss)] \in Seq(S)
    BY <2>1
  <2>3. CASE T = {}
    BY <1>1, <1>2, <2>2, <2>3
  <2> QED BY <2>3
<1>4. PICK m \in T : \A k \in T : m <= k
  <2>1. T \in SUBSET Nat OBVIOUS
  <2> HIDE DEF T
  <2> QED BY <1>3, <2>1, LeastNat
<1>5. m # 0
  BY <1>1, <1>4
<1>6. m \in 1 .. Len(ss) /\ m - 1 \in Nat /\ m - 1 \in 0 .. Len(ss) /\ ~(m <= m - 1) /\ m - 1 <= Len(ss)
  BY <1>2, <1>4, <1>5
<1>7. fl[m - 1] \in G[m - 1] /\ fl[m - 1] \in Seq(S)
  BY <1>4, <1>6
<1>8. fl[m] \in G[m]
  BY <1>1, <1>6, <1>7
<1> QED BY <1>4, <1>8
------------------------------------------------------------------------------
(* LRANGE, LTRIM, LINDEX *)

LEMMA AtIs ==
  ASSUME NEW S, NEW s \in Seq(S), NEW i \in Int PROVE Rg!At(s, i) \in Int /\ Len(s) \in Nat
BY LenProperties DEF Rg!At

LEMMA TrimmedIsSliced ==
  ASSUME NEW S, NEW s \in Seq(S), NEW start \in Int, NEW end \in Int
  PROVE  Rg!Trimmed(s, start, end) = Rg!Sliced(s, start, end)
<1> DEFINE a == Rg!At(s, start)
           b == Rg!At(s, end)
<1>1. a \in Int /\ b \in Int /\ Len(s) \in Nat
  BY AtIs
<1> HIDE DEF a, b
<1>2. /\ Rg!Trimmed(s, start, end) =
           LET first == IF a < 0 THEN 0 ELSE a
               last  == IF b > Len(s) - 1 THEN Len(s) - 1 ELSE b
           IN  IF last < first THEN <<>> ELSE SubSeq(s, first + 1, last + 1)
      /\ Rg!Sliced(s, start, end) =
           LET first == IF a < 0 THEN 0 ELSE a
               given == IF b < 0 THEN -1 ELSE b
               last  == IF given > Len(s) - 1 THEN Len(s) - 1 ELSE given
           IN  IF first > Len(s) - 1 \/ last < first THEN <<>> ELSE SubSeq(s, first + 1, last + 1)
  BY DEF Rg!Trimmed, Rg!Sliced, a, b
<1> QED BY <1>1, <1>2


LEMMA SlicedIsCut ==
  ASSUME NEW S, NEW s \in Seq(S), NEW start \in Int, NEW end \in Int
  PROVE  \E a \in 1 .. Len(s) + 1, b \in 0 .. Len(s) :
           /\ Rg!Sliced(s, start, end) = SubSeq(s, a, b)
           /\ \A i \in 1 .. Len(s) : a <= i /\ i <= b <=> Rg!At(s, start) <= i - 1 /\ i - 1 <= Rg!At(s, end)
<1> DEFINE p == Rg!At(s, start)
           q == Rg!At(s, end)
           n == Len(s)
           first == IF p < 0 THEN 0 ELSE p
           given == IF q < 0 THEN -1 ELSE q
           last  == IF given > n - 1 THEN n - 1 ELSE given
           none == first > n - 1 \/ last < first
           a == IF none THEN n + 1 ELSE first + 1
           b == IF none THEN 0 ELSE last + 1
<1>1. p \in Int /\ q \in Int /\ n \in Nat
  BY AtIs
<1>2. Rg!Sliced(s, start, end) = IF none THEN <<>> ELSE SubSeq(s, first + 1, last + 1)
  BY DEF Rg!Sliced
<1> HIDE DEF p, q, n
<1>3. CASE none
  <2>1. a = n + 1 /\ b = 0 /\ a \in 1 .. n + 1 /\ b \in 0 .. n
    BY <1>1, <1>3
  <2>2. SubSeq(s, a, b) = <<>>
    <3>1. a \in Int /\ b \in Int /\ b < a
      BY <1>1, <2>1
    <3> HIDE DEF a, b
    <3> QED BY <3>1, SubSeqEmpty
  <2>3. \A i \in 1 .. n : a <= i /\ i <= b <=> p <= i - 1 /\ i - 1 <= q
    BY <1>1, <1>3, <2>1
  <2>4. Rg!Sliced(s, start, end) = <<>>
    BY <1>2, <1>3
  <2> HIDE DEF a, b
  <2> QED BY <2>1, <2>2, <2>3, <2>4 DEF p, q, n
<1>4. CASE ~none
  <2>1. a = first + 1 /\ b = last + 1 /\ a \in 1 .. n + 1 /\ b \in 0 .. n
    BY <1>1, <1>4
  <2>2. Rg!Sliced(s, start, end) = SubSeq(s, a, b)
    BY <1>2, <1>4
  <2>3. \A i \in 1 .. n : a <= i /\ i <= b <=> p <= i - 1 /\ i - 1 <= q
    BY <1>1, <1>4
  <2> HIDE DEF a, b
  <2> QED BY <2>1, <2>2, <2>3 DEF p, q, n
<1> QED BY <1>3, <1>4

LEMMA SubSeqOne ==
  ASSUME NEW S, NEW s \in Seq(S), NEW i \in 1 .. Len(s) PROVE SubSeq(s, i, i) = <<s[i]>>
<1>1. i \in Int /\ s[i] \in S
  BY LenProperties, ElementOfSeq
<1>2. SubSeq(s, i, i) \in Seq(S) /\ Len(SubSeq(s, i, i)) = 1 /\ SubSeq(s, i, i)[1] = s[i]
  <2>1. \A j \in i .. i : s[j] \in S
    BY <1>1
  <2>2. /\ SubSeq(s, i, i) \in Seq(S) /\ Len(SubSeq(s, i, i)) = IF i <= i THEN i - i + 1 ELSE 0
        /\ \A j \in 1 .. i - i + 1 : SubSeq(s, i, i)[j] = s[i + j - 1]
    BY <1>1, <2>1, SubSeqProperties
  <2> QED BY <1>1, <2>2
<1>3. <<s[i]>> \in Seq(S) /\ Len(<<s[i]>>) = 1 /\ <<s[i]>>[1] = s[i]
  BY <1>1
<1>4. \A j \in 1 .. 1 : j = 1
  OBVIOUS
<1> QED BY <1>2, <1>3, <1>4, SeqEqual

Cut(s, a, b) == [i \in DOMAIN s |-> IF a <= i /\ i <= b THEN <<s[i]>> ELSE <<>>]

LEMMA CutIsFlattened ==
  ASSUME NEW S, NEW s \in Seq(S), NEW a \in 1 .. Len(s) + 1, NEW b \in 0 .. Len(s)
  PROVE  SubSeq(s, a, b) = Rg!FlattenSeq(Cut(s, a, b))
<1> DEFINE n == Len(s)
           ss == [i \in DOMAIN s |-> IF a <= i /\ i <= b THEN <<s[i]>> ELSE <<>>]
           Upto(i) == IF i <= b THEN i ELSE b
           G == [i \in 0 .. n |-> {SubSeq(s, a, Upto(i))}]
<1>1. n \in Nat /\ DOMAIN s = 1 .. n /\ \A i \in 1 .. n : s[i] \in S
  BY LenProperties, ElementOfSeq
<1>2. ss \in Seq(Seq(S)) /\ Len(ss) = n /\ \A i \in 1 .. n : ss[i] = IF a <= i /\ i <= b THEN <<s[i]>> ELSE <<>>
  <2>1. \A i \in 1 .. n : ss[i] \in Seq(S)
    BY <1>1, EmptySeq
  <2>2. ss \in [1 .. n -> Seq(S)]
    BY <1>1, <2>1
  <2> QED BY <1>1, <2>2
<1> HIDE DEF ss
<1>10. \A i \in 0 .. n : (i <= b => Upto(i) = i) /\ (i > b => Upto(i) = b)
  BY <1>1
<1>11. \A i \in 0 .. n : G[i] = {SubSeq(s, a, Upto(i))}
  OBVIOUS
<1>12. a \in Int /\ b \in Int /\ Upto(0) = 0
  BY <1>1
<1> HIDE DEF Upto, G
<1>3. <<>> \in G[0]
  <2>1. SubSeq(s, a, 0) = <<>>
    BY <1>12, SubSeqEmpty
  <2>2. 0 \in 0 .. n
    BY <1>1
  <2> QED BY <1>11, <1>12, <2>1, <2>2
<1>4. ASSUME NEW i \in 1 .. n, NEW t \in G[i - 1], t \in Seq(S) PROVE t \o ss[i] \in G[i]
  <2>1. i \in Int /\ i \in 0 .. n /\ i - 1 \in 0 .. n
    BY <1>1
  <2>5. t = SubSeq(s, a, Upto(i - 1)) /\ G[i] = {SubSeq(s, a, Upto(i))}
    BY <1>4, <1>11, <2>1
  <2>2. CASE i > b
    <3>3. ~(i <= b)
      BY <1>12, <2>1, <2>2
    <3>4. ss[i] = <<>>
      BY <1>2, <3>3
    <3>5. Upto(i) = b
      BY <1>10, <2>1, <2>2
    <3>6. Upto(i - 1) = b
      <4>1. CASE i - 1 > b
        BY <1>10, <2>1, <4>1
      <4>2. CASE ~(i - 1 > b)
        <5>1. i - 1 = b /\ i - 1 <= b
          BY <1>12, <2>1, <2>2, <4>2
        <5> QED BY <1>10, <2>1, <5>1
      <4> QED BY <4>1, <4>2
    <3>1. Upto(i) = b /\ Upto(i - 1) = b /\ ss[i] = <<>>
      BY <3>4, <3>5, <3>6
    <3>2. t \o <<>> = t
      BY <1>4, ConcatEmptySeq
    <3> QED BY <2>5, <3>1, <3>2
  <2>3. CASE i <= b /\ i < a
    <3>4. ~(a <= i) /\ i - 1 <= b /\ i - 1 \in Int /\ i - 1 < a
      BY <1>12, <2>1, <2>3
    <3>5. ss[i] = <<>>
      BY <1>2, <3>4
    <3>1. Upto(i) = i /\ Upto(i - 1) = i - 1 /\ ss[i] = <<>>
      BY <1>10, <2>1, <2>3, <3>4, <3>5
    <3>2. SubSeq(s, a, i) = <<>> /\ SubSeq(s, a, i - 1) = <<>>
      BY <1>12, <2>1, <2>3, <3>4, SubSeqEmpty
    <3>3. t \o <<>> = t
      BY <1>4, ConcatEmptySeq
    <3> QED BY <2>5, <3>1, <3>2, <3>3
  <2>4. CASE i <= b /\ a <= i
    <3>4. i - 1 <= b
      BY <1>12, <2>1, <2>4
    <3>5. ss[i] = <<s[i]>>
      BY <1>2, <2>4
    <3>1. Upto(i) = i /\ Upto(i - 1) = i - 1 /\ ss[i] = <<s[i]>>
      BY <1>10, <2>1, <2>4, <3>4, <3>5
    <3>2. SubSeq(s, a, i) = SubSeq(s, a, i - 1) \o <<s[i]>>
      <4>1. a \in 1 .. n /\ i \in a .. n
        BY <1>1, <2>4
      <4> QED BY <4>1, SubSeqRecursiveSecond
    <3> QED BY <2>5, <3>1, <3>2
  <2> QED BY <1>12, <2>1, <2>2, <2>3, <2>4
<1>5. Rg!FlattenSeq(ss) \in G[n]
  <2> HIDE DEF n
  <2>1. \A i \in 1 .. Len(ss) : \A t \in G[i - 1] : t \in Seq(S) => t \o ss[i] \in G[i]
    BY <1>2, <1>4
  <2> QED BY <1>2, <1>3, <2>1, FlattenChain
<1>6. n \in 0 .. n /\ Upto(n) = b
  <2>1. n \in 0 .. n /\ b <= n BY <1>1
  <2>2. CASE n <= b
    <3>1. n = b
      <4> HIDE DEF n
      <4> QED BY <1>1, <1>12, <2>1, <2>2
    <3> QED BY <1>10, <2>1, <3>1, <2>2
  <2>3. CASE ~(n <= b)
    BY <1>1, <1>10, <1>12, <2>1, <2>3
  <2> QED BY <2>2, <2>3
<1>7. Rg!FlattenSeq(ss) = SubSeq(s, a, b)
  BY <1>5, <1>6, <1>11
<1> QED BY <1>7 DEF ss, Cut

LEMMA RangesOfList ==
  ASSUME NEW S, NEW s \in Seq(S), NEW start \in Int, NEW end \in Int
  PROVE  /\ Rg!Sliced(s, start, end) = Rg!FlattenSeq([i \in DOMAIN s |->
              IF Rg!At(s, start) <= i - 1 /\ i - 1 <= Rg!At(s, end) THEN <<s[i]>> ELSE <<>>])
         /\ Rg!Sliced(s, start, start) = IF Rg!InRange(s, start) THEN <<s[Rg!At(s, start) + 1]>> ELSE <<>>
<1>1. Len(s) \in Nat /\ DOMAIN s = 1 .. Len(s) /\ Rg!At(s, start) \in Int
  BY LenProperties, AtIs
<1>2. Rg!Sliced(s, start, end) = Rg!FlattenSeq([i \in DOMAIN s |->
              IF Rg!At(s, start) <= i - 1 /\ i - 1 <= Rg!At(s, end) THEN <<s[i]>> ELSE <<>>])
  <2>1. PICK a \in 1 .. Len(s) + 1, b \in 0 .. Len(s) :
           /\ Rg!Sliced(s, start, end) = SubSeq(s, a, b)
           /\ \A i \in 1 .. Len(s) : a <= i /\ i <= b <=> Rg!At(s, start) <= i - 1 /\ i - 1 <= Rg!At(s, end)
    BY SlicedIsCut
  <2>2. [i \in DOMAIN s |-> IF Rg!At(s, start) <= i - 1 /\ i - 1 <= Rg!At(s, end) THEN <<s[i]>> ELSE <<>>]
          = [i \in DOMAIN s |-> IF a <= i /\ i <= b THEN <<s[i]>> ELSE <<>>]
    BY <1>1, <2>1
  <2>3. SubSeq(s, a, b) = Rg!FlattenSeq([i \in DOMAIN s |-> IF a <= i /\ i <= b THEN <<s[i]>> ELSE <<>>])
    <3>1. SubSeq(s, a, b) = Rg!FlattenSeq(Cut(s, a, b))
      BY CutIsFlattened
    <3> QED BY <3>1 DEF Cut
  <2> QED BY <2>1, <2>2, <2>3
<1>3. Rg!Sliced(s, start, start) = IF Rg!InRange(s, start) THEN <<s[Rg!At(s, start) + 1]>> ELSE <<>>
  <2> DEFINE p == Rg!At(s, start)
             n == Len(s)
  <2>1. p \in Int /\ n \in Nat
    BY <1>1
  <2>2. Rg!Sliced(s, start, start) = LET first == IF p < 0 THEN 0 ELSE p
                                         given == IF p < 0 THEN -1 ELSE p
                                         last  == IF given > n - 1 THEN n - 1 ELSE given
                                     IN  IF first > n - 1 \/ last < first THEN <<>> ELSE SubSeq(s, first + 1, last + 1)
    BY DEF Rg!Sliced
  <2>3. Rg!InRange(s, start) <=> p \in 0 .. n - 1
    BY DEF Rg!InRange
  <2>4. CASE p \in 0 .. n - 1
    <3>1. p + 1 \in 1 .. n
      BY <2>1, <2>4
    <3>2. SubSeq(s, p + 1, p + 1) = <<s[p + 1]>>
      BY <3>1, SubSeqOne
    <3> HIDE DEF p, n
    <3>4. ~(p < 0) /\ ~(p > n - 1) /\ ~(p < p)
      BY <2>1, <2>4
    <3>3. Rg!Sliced(s, start, start) = SubSeq(s, p + 1, p + 1)
      BY <2>2, <3>4
    <3> QED BY <2>3, <2>4, <3>2, <3>3 DEF p
  <2>5. CASE p \notin 0 .. n - 1
    <3> HIDE DEF p, n
    <3>2. p < 0 \/ p > n - 1
      BY <2>1, <2>5
    <3>1. Rg!Sliced(s, start, start) = <<>>
      <4>1. CASE p < 0
        <5>1. (IF -1 > n - 1 THEN n - 1 ELSE -1) < 0
          BY <2>1
        <5> QED BY <2>2, <4>1, <5>1
      <4>2. CASE ~(p < 0)
        BY <2>2, <3>2, <4>2
      <4> QED BY <4>1, <4>2
    <3> QED BY <2>3, <2>5, <3>1
  <2> QED BY <2>4, <2>5
<1> QED BY <1>2, <1>3

(* LREM *)

Visiting == INSTANCE Folding WITH Step <- Rg!Visit

Same(s, x)      == {i \in DOMAIN s : s[i] = x}
SameUpTo(s, x, i) == {j \in Same(s, x) : j < i}
Left(s, gone)   == [i \in DOMAIN s |-> IF i \in gone THEN <<>> ELSE <<s[i]>>]
KeptOf(s, x, may) == Rg!FoldLeft(Rg!Visit, [x |-> x, may |-> may, kept |-> <<>>], s).kept

LEMMA LeftIs ==
  ASSUME NEW S, NEW s \in Seq(S), NEW gone
  PROVE  /\ Left(s, gone) \in Seq(Seq(S)) /\ Len(Left(s, gone)) = Len(s)
         /\ \A i \in 1 .. Len(s) : Left(s, gone)[i] = IF i \in gone THEN <<>> ELSE <<s[i]>>
<1> DEFINE n == Len(s)
           ss == Left(s, gone)
<1>1. n \in Nat /\ DOMAIN s = 1 .. n /\ \A i \in 1 .. n : s[i] \in S
  BY LenProperties, ElementOfSeq
<1>2. ss = [i \in 1 .. n |-> IF i \in gone THEN <<>> ELSE <<s[i]>>]
  BY <1>1 DEF Left
<1> HIDE DEF ss, n
<1>3. \A i \in 1 .. n : ss[i] = (IF i \in gone THEN <<>> ELSE <<s[i]>>) /\ ss[i] \in Seq(S)
  <2> TAKE i \in 1 .. n
  <2>1. <<s[i]>> \in Seq(S) /\ <<>> \in Seq(S)
    BY <1>1
  <2> QED BY <1>2, <2>1
<1>4. ss \in [1 .. n -> Seq(S)]
  BY <1>2, <1>3
<1>5. ss \in Seq(Seq(S)) /\ Len(ss) = n
  BY <1>1, <1>4
<1> QED BY <1>3, <1>5 DEF ss, n

LEMMA SameCounted ==
  ASSUME NEW S, NEW s \in Seq(S), NEW x, NEW i \in 1 .. Len(s)
  PROVE  /\ Cardinality(SameUpTo(s, x, i)) \in Nat /\ Cardinality(SameUpTo(s, x, i)) < i
         /\ Cardinality(SameUpTo(s, x, 1)) = 0
         /\ Cardinality(SameUpTo(s, x, i + 1)) = Cardinality(SameUpTo(s, x, i)) + (IF s[i] = x THEN 1 ELSE 0)
<1>1. Len(s) \in Nat /\ DOMAIN s = 1 .. Len(s) /\ i \in DOMAIN s /\ i \in Nat
  BY LenProperties
<1>2. SameUpTo(s, x, i) \subseteq 1 .. i - 1
  BY <1>1 DEF SameUpTo, Same
<1>3. IsFiniteSet(1 .. i - 1) /\ Cardinality(1 .. i - 1) = i - 1
  <2>1. IsFiniteSet(1 .. i - 1) /\ Cardinality(1 .. i - 1) = IF 1 <= i - 1 THEN (i - 1) - 1 + 1 ELSE 0
    <3> DEFINE hi == i - 1
    <3>1. hi \in Int /\ 1 \in Int
      BY <1>1
    <3> HIDE DEF hi
    <3>2. IsFiniteSet(1 .. hi) /\ Cardinality(1 .. hi) = IF 1 > hi THEN 0 ELSE hi - 1 + 1
      BY <3>1, FS_Interval
    <3> QED BY <1>1, <3>2 DEF hi
  <2> QED BY <1>1, <2>1
<1>4. /\ IsFiniteSet(SameUpTo(s, x, i)) /\ Cardinality(SameUpTo(s, x, i)) <= i - 1
  BY <1>2, <1>3, FS_Subset
<1>5. Cardinality(SameUpTo(s, x, i)) \in Nat
  BY <1>4, FS_CardinalityType
<1>6. Cardinality(SameUpTo(s, x, 1)) = 0
  <2>1. SameUpTo(s, x, 1) = {}
    BY <1>1 DEF SameUpTo, Same
  <2> QED BY <2>1, FS_EmptySet
<1>7. Cardinality(SameUpTo(s, x, i + 1)) = Cardinality(SameUpTo(s, x, i)) + (IF s[i] = x THEN 1 ELSE 0)
  <2>1. CASE s[i] = x
    <3>1. SameUpTo(s, x, i + 1) = SameUpTo(s, x, i) \cup {i} /\ i \notin SameUpTo(s, x, i)
      BY <1>1, <2>1 DEF SameUpTo, Same
    <3> QED BY <1>4, <2>1, <3>1, FS_AddElement
  <2>2. CASE s[i] # x
    <3>1. SameUpTo(s, x, i + 1) = SameUpTo(s, x, i)
      BY <1>1, <2>2 DEF SameUpTo, Same
    <3> QED BY <1>5, <2>2, <3>1
  <2> QED BY <2>1, <2>2
<1> QED BY <1>1, <1>4, <1>5, <1>6, <1>7

LEMMA VisitIs ==
  ASSUME NEW x, NEW m \in Int, NEW kept, NEW y
  PROVE  Rg!Visit([x |-> x, may |-> m, kept |-> kept], y)
           = IF y = x /\ m > 0 THEN [x |-> x, may |-> m - 1, kept |-> kept]
             ELSE [x |-> x, may |-> m, kept |-> Append(kept, y)]
BY DEF Rg!Visit

LEMMA KeptIs ==
  ASSUME NEW S, NEW s \in Seq(S), NEW x, NEW may \in Nat
  PROVE  KeptOf(s, x, may) = Rg!FlattenSeq(Left(s, {i \in Same(s, x) : Cardinality(SameUpTo(s, x, i)) < may}))
<1> DEFINE n == Len(s)
           gone == {i \in Same(s, x) : Cardinality(SameUpTo(s, x, i)) < may}
           ss == Left(s, gone)
           B(i) == Cardinality(SameUpTo(s, x, i))
           still(i) == IF may > B(i + 1) THEN may - B(i + 1) ELSE 0
<1>1. n \in Nat /\ DOMAIN s = 1 .. n /\ \A i \in 1 .. n : s[i] \in S
  BY LenProperties, ElementOfSeq
<1>2. ss \in Seq(Seq(S)) /\ Len(ss) = n /\ \A i \in 1 .. n : ss[i] = IF i \in gone THEN <<>> ELSE <<s[i]>>
  <2> HIDE DEF gone
  <2> QED BY LeftIs
<1>3. \A i \in 1 .. n : i \in gone <=> s[i] = x /\ B(i) < may
  BY <1>1 DEF Same
<1>4. \A i \in 1 .. n : B(i) \in Nat /\ B(i + 1) = B(i) + (IF s[i] = x THEN 1 ELSE 0)
  BY SameCounted
<1>5. B(1) = 0
  <2>1. SameUpTo(s, x, 1) = {}
    BY <1>1 DEF SameUpTo, Same
  <2> QED BY <2>1, FS_EmptySet
<1> HIDE DEF ss, gone, B
<1>13. PICK fl \in [0 .. Len(ss) -> Seq(S)] :
           /\ fl[0] = <<>> /\ fl[Len(ss)] = Rg!FlattenSeq(ss)
           /\ \A i \in 1 .. Len(ss) : fl[i] = fl[i - 1] \o ss[i]
  BY <1>2, FlattenedIs
<1>6. /\ fl \in [0 .. n -> Seq(S)] /\ fl[0] = <<>> /\ fl[n] = Rg!FlattenSeq(ss)
      /\ \A i \in 1 .. n : fl[i] = fl[i - 1] \o ss[i]
  BY <1>2, <1>13
<1> DEFINE State(i) == [x |-> x, may |-> still(i), kept |-> fl[i]]
           G == [i \in 0 .. n |-> {State(i)}]
           base == [x |-> x, may |-> may, kept |-> <<>>]
<1>7. base \in G[0]
  <2>1. still(0) = may
    BY <1>5
  <2>2. 0 \in 0 .. n BY <1>1
  <2> QED BY <1>6, <2>1, <2>2
<1>8. ASSUME NEW i \in 1 .. n, NEW t \in G[i - 1] PROVE Rg!Visit(t, s[i]) \in G[i]
  <2>1. i \in Int /\ i \in 0 .. n /\ i - 1 \in 0 .. n /\ (i - 1) + 1 = i
    BY <1>1
  <2> DEFINE m == still(i - 1)
  <2>2. t = [x |-> x, may |-> m, kept |-> fl[i - 1]] /\ G[i] = {State(i)}
    BY <2>1
  <2>3. m = IF may > B(i) THEN may - B(i) ELSE 0
    BY <2>1
  <2>9. m \in Int
    BY <1>4, <2>3
  <2>4. Rg!Visit(t, s[i]) = IF s[i] = x /\ m > 0 THEN [x |-> x, may |-> m - 1, kept |-> fl[i - 1]]
                            ELSE [x |-> x, may |-> m, kept |-> Append(fl[i - 1], s[i])]
    <3> HIDE DEF m
    <3> DEFINE had == fl[i - 1]
               y == s[i]
    <3>1. t = [x |-> x, may |-> m, kept |-> had]
      BY <2>2
    <3> HIDE DEF had, y
    <3>2. Rg!Visit(t, y) = IF y = x /\ m > 0 THEN [x |-> x, may |-> m - 1, kept |-> had]
                            ELSE [x |-> x, may |-> m, kept |-> Append(had, y)]
      BY <2>9, <3>1, VisitIs
    <3> QED BY <3>2 DEF had, y
  <2>5. fl[i - 1] \in Seq(S) /\ s[i] \in S /\ fl[i] = fl[i - 1] \o ss[i]
    BY <1>1, <1>6, <2>1
  <2>6. B(i) \in Nat /\ B(i + 1) = B(i) + (IF s[i] = x THEN 1 ELSE 0)
    BY <1>4
  <2>7. CASE s[i] = x /\ m > 0
    <3>1. B(i) < may /\ m = may - B(i)
      BY <2>3, <2>6, <2>7
    <3>2. still(i) = m - 1
      BY <2>6, <2>7, <3>1
    <3>3. ss[i] = <<>>
      BY <1>2, <1>3, <2>7, <3>1
    <3>4. fl[i] = fl[i - 1]
      BY <2>5, <3>3, ConcatEmptySeq
    <3>5. Rg!Visit(t, s[i]) = State(i)
      <4> HIDE DEF m, still
      <4> QED BY <2>4, <2>7, <3>2, <3>4
    <3> QED BY <2>2, <3>5
  <2>8. CASE ~(s[i] = x /\ m > 0)
    <3>1. still(i) = m
      <4>1. CASE s[i] = x
        <5>1. ~(may > B(i)) /\ B(i + 1) = B(i) + 1
          BY <2>3, <2>6, <2>8, <4>1
        <5> QED BY <2>3, <2>6, <5>1
      <4>2. CASE s[i] # x
        BY <2>3, <2>6, <4>2
      <4> QED BY <4>1, <4>2
    <3>2. ~(s[i] = x /\ B(i) < may)
      BY <2>3, <2>6, <2>8
    <3>3. ss[i] = <<s[i]>>
      BY <1>2, <1>3, <3>2
    <3>4. fl[i] = Append(fl[i - 1], s[i])
      BY <2>5, <3>3, AppendIsConcat
    <3>5. Rg!Visit(t, s[i]) = State(i)
      <4> HIDE DEF m, still
      <4> QED BY <2>4, <2>8, <3>1, <3>4
    <3> QED BY <2>2, <3>5
  <2> QED BY <2>7, <2>8
<1>9. Visiting!Fold(base, s) \in G[n]
  <2> HIDE DEF G, base, n
  <2> QED BY <1>1, <1>7, <1>8, LeastNat, Visiting!FoldKeeps DEF Visiting!NatsHaveLeast
<1>10. Rg!FoldLeft(Rg!Visit, base, s) = Visiting!Fold(base, s)
  <2> HIDE DEF base
  <2> QED BY DEF Rg!FoldLeft, Rg!MapThenFoldSet, Rg!Max, Visiting!Fold, Visiting!Folds, Visiting!Highest
<1>11. Rg!FoldLeft(Rg!Visit, base, s) = State(n)
  <2>1. n \in 0 .. n BY <1>1
  <2> HIDE DEF base, State
  <2> QED BY <1>9, <1>10, <2>1
<1>12. KeptOf(s, x, may) = fl[n]
  <2> HIDE DEF still
  <2> QED BY <1>11 DEF KeptOf
<1> QED BY <1>6, <1>12 DEF ss, gone, B

LEMMA ReverseIs ==
  ASSUME NEW S, NEW s \in Seq(S)
  PROVE  /\ Rg!Reverse(s) \in Seq(S) /\ Len(Rg!Reverse(s)) = Len(s)
         /\ \A i \in 1 .. Len(s) : Rg!Reverse(s)[i] = s[Len(s) - i + 1]
<1> DEFINE n == Len(s)
           r == Rg!Reverse(s)
<1>1. n \in Nat /\ \A i \in 1 .. n : s[i] \in S
  BY LenProperties, ElementOfSeq
<1>2. r = [i \in 1 .. n |-> s[n - i + 1]]
  BY DEF Rg!Reverse
<1> HIDE DEF n, r
<1>3. \A i \in 1 .. n : s[n - i + 1] \in S
  <2> TAKE i \in 1 .. n
  <2>1. n - i + 1 \in 1 .. n
    BY <1>1
  <2> QED BY <1>1, <2>1
<1>4. r \in [1 .. n -> S]
  BY <1>2, <1>3
<1>5. r \in Seq(S) /\ Len(r) = n
  BY <1>1, <1>4
<1> QED BY <1>2, <1>5 DEF n, r

LEMMA ReverseAppended ==
  ASSUME NEW S, NEW t \in Seq(S), NEW e \in S
  PROVE  Rg!Reverse(t \o <<e>>) = <<e>> \o Rg!Reverse(t)
<1> DEFINE n == Len(t)
           te == t \o <<e>>
           a == Rg!Reverse(te)
           b == <<e>> \o Rg!Reverse(t)
           one == <<e>>
<1>1. n \in Nat
  BY LenProperties
<1>2. one \in Seq(S) /\ Len(one) = 1 /\ one[1] = e
  OBVIOUS
<1> HIDE DEF one
<1>3. te \in Seq(S) /\ Len(te) = n + 1 /\ \A i \in 1 .. n + 1 : te[i] = IF i <= n THEN t[i] ELSE one[i - n]
  BY <1>2, ConcatProperties DEF one
<1>4. /\ Rg!Reverse(t) \in Seq(S) /\ Len(Rg!Reverse(t)) = n
      /\ \A i \in 1 .. n : Rg!Reverse(t)[i] = t[n - i + 1]
  BY ReverseIs
<1>5. b \in Seq(S) /\ Len(b) = 1 + n /\ \A i \in 1 .. 1 + n : b[i] = IF i <= 1 THEN one[i] ELSE Rg!Reverse(t)[i - 1]
  BY <1>2, <1>4, ConcatProperties DEF one
<1> HIDE DEF te
<1>6. a \in Seq(S) /\ Len(a) = n + 1 /\ \A i \in 1 .. n + 1 : a[i] = te[n + 1 - i + 1]
  BY <1>3, ReverseIs
<1> HIDE DEF a, b
<1>7. ASSUME NEW i \in 1 .. n + 1 PROVE a[i] = b[i]
  <2>1. n + 1 - i + 1 \in 1 .. n + 1
    BY <1>1
  <2>2. CASE i = 1
    <3>1. a[i] = one[1]
      BY <1>1, <1>3, <1>6, <2>1, <2>2
    <3> QED BY <1>5, <2>2, <3>1, <1>1
  <2>3. CASE i # 1
    <3>1. a[i] = te[n + 1 - i + 1] /\ te[n + 1 - i + 1] = t[n + 1 - i + 1]
      BY <1>1, <1>3, <1>6, <2>1, <2>3
    <3>2. i - 1 \in 1 .. n /\ n - (i - 1) + 1 = n + 1 - i + 1
      BY <1>1, <2>3
    <3>3. b[i] = Rg!Reverse(t)[i - 1]
      BY <1>1, <1>5, <2>3
    <3>4. Rg!Reverse(t)[i - 1] = t[n - (i - 1) + 1]
      BY <1>4, <3>2
    <3> QED BY <3>1, <3>2, <3>3, <3>4
  <2> QED BY <2>2, <2>3
<1>8. a = b
  BY <1>1, <1>5, <1>6, <1>7, SeqEqual
<1> QED BY <1>8 DEF a, b, te, one

LEMMA ReverseEmpty == Rg!Reverse(<<>>) = <<>>
<1>1. <<>> \in Seq({}) /\ Len(<<>>) = 0
  BY EmptySeq
<1>2. Rg!Reverse(<<>>) \in Seq({}) /\ Len(Rg!Reverse(<<>>)) = 0
  BY <1>1, ReverseIs
<1> QED BY <1>1, <1>2, EmptySeq

LEMMA FlattenReversed ==
  ASSUME NEW S, NEW ss \in Seq(Seq(S)),
         \A i \in 1 .. Len(ss) : ss[i] = <<>> \/ \E e \in S : ss[i] = <<e>>
  PROVE  Rg!Reverse(Rg!FlattenSeq(ss)) = Rg!FlattenSeq(Rg!Reverse(ss))
<1> DEFINE n == Len(ss)
           rs == Rg!Reverse(ss)
<1>1. n \in Nat /\ \A i \in 1 .. n : ss[i] \in Seq(S)
  BY LenProperties, ElementOfSeq
<1>14. \A i \in 1 .. n : ss[i] = <<>> \/ \E e \in S : ss[i] = <<e>>
  OBVIOUS
<1>2. rs \in Seq(Seq(S)) /\ Len(rs) = n /\ \A i \in 1 .. n : rs[i] = ss[n - i + 1]
  BY ReverseIs
<1> HIDE DEF rs
<1>13. PICK gl \in [0 .. Len(rs) -> Seq(S)] :
           /\ gl[0] = <<>> /\ gl[Len(rs)] = Rg!FlattenSeq(rs)
           /\ \A i \in 1 .. Len(rs) : gl[i] = gl[i - 1] \o rs[i]
  BY <1>2, FlattenedIs
<1>3. /\ gl \in [0 .. n -> Seq(S)] /\ gl[0] = <<>> /\ gl[n] = Rg!FlattenSeq(rs)
      /\ \A i \in 1 .. n : gl[i] = gl[i - 1] \o rs[i]
  BY <1>2, <1>13
<1> HIDE DEF n
<1> DEFINE G == [k \in 0 .. n |-> {t \in Seq(S) : gl[n - k] \o Rg!Reverse(t) = gl[n]}]
<1>4. <<>> \in G[0]
  <2>1. 0 \in 0 .. n /\ n - 0 = n /\ n \in 0 .. n
    BY <1>1
  <2>2. gl[n] \in Seq(S) /\ <<>> \in Seq(S)
    BY <1>3, <2>1, EmptySeq
  <2>3. gl[n] \o <<>> = gl[n]
    BY <2>2, ConcatEmptySeq
  <2> QED BY <2>1, <2>2, <2>3, ReverseEmpty
<1>5. ASSUME NEW i \in 1 .. n, NEW t \in G[i - 1], t \in Seq(S) PROVE t \o ss[i] \in G[i]
  <2> DEFINE p == n - i + 1
             q == n - i
  <2>1. i \in 0 .. n /\ i - 1 \in 0 .. n /\ q \in 0 .. n /\ p \in 1 .. n /\ n - (i - 1) = p /\ n - p + 1 = i /\ p - 1 = q
    BY <1>1
  <2>2. G[i - 1] = {u \in Seq(S) : gl[n - (i - 1)] \o Rg!Reverse(u) = gl[n]}
        /\ G[i] = {u \in Seq(S) : gl[q] \o Rg!Reverse(u) = gl[n]}
    BY <2>1
  <2> HIDE DEF p, q, G
  <2>3. gl[p] \o Rg!Reverse(t) = gl[n]
    BY <1>5, <2>1, <2>2
  <2>4. gl[p] = gl[q] \o ss[i]
    <3>1. rs[p] = ss[i]
      BY <1>2, <2>1
    <3>2. gl[p] = gl[p - 1] \o rs[p]
      BY <1>3, <2>1
    <3> QED BY <2>1, <3>1, <3>2
  <2>5. gl[q] \in Seq(S) /\ ss[i] \in Seq(S)
    BY <1>1, <1>3, <2>1
  <2>6. Rg!Reverse(t) \in Seq(S)
    BY <1>5, ReverseIs
  <2>7. t \o ss[i] \in Seq(S)
    BY <1>5, <2>5, ConcatProperties
  <2>8. Rg!Reverse(t \o ss[i]) = ss[i] \o Rg!Reverse(t)
    <3>1. CASE ss[i] = <<>>
      BY <1>5, <2>6, <3>1, ConcatEmptySeq
    <3>2. CASE \E e \in S : ss[i] = <<e>>
      BY <1>5, <3>2, ReverseAppended
    <3> QED BY <1>14, <3>1, <3>2
  <2>9. (gl[q] \o ss[i]) \o Rg!Reverse(t) = gl[q] \o (ss[i] \o Rg!Reverse(t))
    <3> DEFINE u == gl[q]
               v == ss[i]
               w == Rg!Reverse(t)
    <3>1. u \in Seq(S) /\ v \in Seq(S) /\ w \in Seq(S)
      BY <2>5, <2>6
    <3> HIDE DEF u, v, w
    <3>2. (u \o v) \o w = u \o (v \o w)
      BY <3>1, ConcatAssociative
    <3> QED BY <3>2 DEF u, v, w
  <2>10. gl[q] \o Rg!Reverse(t \o ss[i]) = gl[n]
    BY <2>3, <2>4, <2>8, <2>9
  <2> QED BY <2>2, <2>7, <2>10
<1>6. Rg!FlattenSeq(ss) \in G[n]
  <2> HIDE DEF G
  <2>1. \A i \in 1 .. Len(ss) : \A t \in G[i - 1] : t \in Seq(S) => t \o ss[i] \in G[i]
    BY <1>5 DEF n
  <2>2. Rg!FlattenSeq(ss) \in G[Len(ss)]
    BY <1>4, <2>1, FlattenChain
  <2> QED BY <2>2 DEF n
<1>7. n \in 0 .. n /\ n - n = 0 /\ 0 \in 0 .. n
  BY <1>1
<1>8. Rg!FlattenSeq(ss) \in Seq(S) /\ gl[0] \o Rg!Reverse(Rg!FlattenSeq(ss)) = gl[n]
  BY <1>6, <1>7
<1>9. Rg!Reverse(Rg!FlattenSeq(ss)) \in Seq(S)
  BY <1>8, ReverseIs
<1>10. <<>> \o Rg!Reverse(Rg!FlattenSeq(ss)) = Rg!Reverse(Rg!FlattenSeq(ss))
  BY <1>9, ConcatEmptySeq
<1> QED BY <1>3, <1>8, <1>10 DEF rs

SameFrom(s, x, i) == {j \in Same(s, x) : j > i}

\* What LREM is to take out.
Gone(s, count, x) ==
  {i \in Same(s, x) : CASE count = 0 -> TRUE
                        [] count > 0 -> Cardinality(SameUpTo(s, x, i)) < count
                        [] count < 0 -> Cardinality(SameFrom(s, x, i)) < -count}

LEMMA SameReversed ==
  ASSUME NEW S, NEW s \in Seq(S), NEW x, NEW i \in 1 .. Len(s)
  PROVE  Cardinality(SameUpTo(Rg!Reverse(s), x, Len(s) - i + 1)) = Cardinality(SameFrom(s, x, i))
<1> DEFINE n == Len(s)
           r == Rg!Reverse(s)
           A == SameUpTo(r, x, n - i + 1)
           B == SameFrom(s, x, i)
           f == [j \in A |-> n - j + 1]
<1>1. n \in Nat /\ DOMAIN s = 1 .. n /\ i \in 1 .. n /\ i \in Int
  BY LenProperties
<1>2. r \in Seq(S) /\ Len(r) = n /\ \A j \in 1 .. n : r[j] = s[n - j + 1]
  BY ReverseIs
<1>3. DOMAIN r = 1 .. n
  BY <1>2, LenProperties
<1> HIDE DEF r, n
<1>4. \A j : j \in A <=> j \in 1 .. n /\ s[n - j + 1] = x /\ j < n - i + 1
  BY <1>2, <1>3 DEF SameUpTo, Same
<1>5. \A j : j \in B <=> j \in 1 .. n /\ s[j] = x /\ j > i
  BY <1>1 DEF SameFrom, Same
<1>6. \A j \in A : f[j] = n - j + 1 /\ j \in Int
  BY <1>4
<1>10. A = DOMAIN f
  OBVIOUS
<1> HIDE DEF A, B
<1>7. f \in [A -> B]
  <2>1. ASSUME NEW j \in A PROVE n - j + 1 \in B
    BY <1>1, <1>4, <1>5
  <2> QED BY <2>1
<1>8. \A a, b \in A : f[a] = f[b] => a = b
  BY <1>1, <1>6
<1>9. \A b \in B : \E a \in A : f[a] = b
  <2> TAKE b \in B
  <2>1. b \in 1 .. n /\ s[b] = x /\ b > i /\ b \in Int
    BY <1>5
  <2>2. n - b + 1 \in 1 .. n /\ n - (n - b + 1) + 1 = b /\ n - b + 1 < n - i + 1
    BY <1>1, <2>1
  <2>3. n - b + 1 \in A
    BY <1>4, <2>1, <2>2
  <2> QED BY <1>6, <2>2, <2>3
<1>11. IsFiniteSet(A)
  <2>1. A \subseteq 1 .. n
    BY <1>4
  <2>2. IsFiniteSet(1 .. n)
    BY <1>1, FS_Interval
  <2> QED BY <2>1, <2>2, FS_Subset
<1> HIDE DEF f
<1>12. ExistsBijection(A, B)
  <2>1. f \in Bijection(A, B)
    BY <1>7, <1>8, <1>9, Fun_IsBij
  <2> QED BY <2>1 DEF ExistsBijection
<1>13. Cardinality(B) = Cardinality(A)
  BY <1>11, <1>12, FS_Bijection
<1> QED BY <1>13 DEF A, B, r, n

LEMMA RemovedIs ==
  ASSUME NEW S, NEW s \in Seq(S), NEW x, NEW count \in Int
  PROVE  Rg!Removed(s, count, x) = Rg!FlattenSeq(Left(s, Gone(s, count, x)))
<1> DEFINE n == Len(s)
<1>1. n \in Nat /\ DOMAIN s = 1 .. n
  BY LenProperties
<1>2. Same(s, x) \subseteq 1 .. n
  BY <1>1 DEF Same
<1>3. CASE count = 0
  <2>1. Rg!Removed(s, count, x) = KeptOf(s, x, n)
    BY <1>3 DEF Rg!Removed, KeptOf
  <2>2. {i \in Same(s, x) : Cardinality(SameUpTo(s, x, i)) < n} = Gone(s, count, x)
    <3>1. ASSUME NEW i \in Same(s, x) PROVE Cardinality(SameUpTo(s, x, i)) < n
      <4>1. i \in 1 .. n /\ i \in Int
        BY <1>1, <1>2
      <4>2. Cardinality(SameUpTo(s, x, i)) \in Nat /\ Cardinality(SameUpTo(s, x, i)) < i
        BY <4>1, SameCounted
      <4> QED BY <1>1, <4>1, <4>2
    <3>2. Gone(s, count, x) = Same(s, x)
      BY <1>3 DEF Gone
    <3> QED BY <3>1, <3>2
  <2>3. KeptOf(s, x, n) = Rg!FlattenSeq(Left(s, {i \in Same(s, x) : Cardinality(SameUpTo(s, x, i)) < n}))
    <3> HIDE DEF n
    <3> QED BY <1>1, KeptIs
  <2> QED BY <2>1, <2>2, <2>3
<1>4. CASE count > 0
  <2>1. Rg!Removed(s, count, x) = KeptOf(s, x, count)
    BY <1>4 DEF Rg!Removed, KeptOf, Rg!Abs
  <2>2. {i \in Same(s, x) : Cardinality(SameUpTo(s, x, i)) < count} = Gone(s, count, x)
    <3>1. count # 0 /\ ~(count < 0)
      BY <1>4
    <3> QED BY <1>4, <3>1 DEF Gone
  <2>3. count \in Nat
    BY <1>4
  <2>4. KeptOf(s, x, count) = Rg!FlattenSeq(Left(s, {i \in Same(s, x) : Cardinality(SameUpTo(s, x, i)) < count}))
    BY <2>3, KeptIs
  <2> QED BY <2>1, <2>2, <2>4
<1>5. CASE count < 0
  <2> DEFINE r == Rg!Reverse(s)
             may == -count
             gr == {i \in Same(r, x) : Cardinality(SameUpTo(r, x, i)) < may}
             ls == Left(r, gr)
             ss == Left(s, Gone(s, count, x))
  <2>1. may \in Nat /\ Rg!Abs(count) = may
    BY <1>5 DEF Rg!Abs
  <2>2. Rg!Removed(s, count, x) = Rg!Reverse(KeptOf(r, x, may))
    BY <1>5, <2>1 DEF Rg!Removed, KeptOf
  <2>3. r \in Seq(S) /\ Len(r) = n /\ \A j \in 1 .. n : r[j] = s[n - j + 1]
    BY ReverseIs
  <2>4. DOMAIN r = 1 .. n
    BY <2>3, LenProperties
  <2> HIDE DEF r, may
  <2>5. KeptOf(r, x, may) = Rg!FlattenSeq(ls)
    BY <2>1, <2>3, KeptIs
  <2>6. ls \in Seq(Seq(S)) /\ Len(ls) = n /\ \A i \in 1 .. n : ls[i] = IF i \in gr THEN <<>> ELSE <<r[i]>>
    <3> HIDE DEF gr, n
    <3> QED BY <2>3, LeftIs
  <2>7. \A i \in 1 .. n : ls[i] = <<>> \/ \E e \in S : ls[i] = <<e>>
    <3> TAKE i \in 1 .. n
    <3>1. r[i] \in S
      BY <2>3, ElementOfSeq
    <3> HIDE DEF ls, gr
    <3> QED BY <2>6, <3>1
  <2>8. Rg!Reverse(Rg!FlattenSeq(ls)) = Rg!FlattenSeq(Rg!Reverse(ls))
    <3> HIDE DEF ls, n
    <3> QED BY <2>6, <2>7, FlattenReversed
  <2>9. ss \in Seq(Seq(S)) /\ Len(ss) = n /\ \A i \in 1 .. n : ss[i] = IF i \in Gone(s, count, x) THEN <<>> ELSE <<s[i]>>
    BY LeftIs
  <2>10. Rg!Reverse(ls) \in Seq(Seq(S)) /\ Len(Rg!Reverse(ls)) = n /\ \A i \in 1 .. n : Rg!Reverse(ls)[i] = ls[n - i + 1]
    <3> HIDE DEF ls
    <3>1. Len(ls) = n BY <2>6
    <3> HIDE DEF n
    <3> QED BY <2>6, <3>1, ReverseIs
  <2>11. ASSUME NEW i \in 1 .. n PROVE Rg!Reverse(ls)[i] = ss[i]
    <3> DEFINE j == n - i + 1
    <3>1. j \in 1 .. n /\ n - j + 1 = i /\ i \in Int
      BY <1>1
    <3>2. r[j] = s[i] /\ Rg!Reverse(ls)[i] = ls[j]
      BY <2>3, <2>10, <3>1
    <3>3. j \in gr <=> s[i] = x /\ Cardinality(SameUpTo(r, x, j)) < may
      <4> HIDE DEF j
      <4> QED BY <2>4, <3>1, <3>2 DEF Same
    <3>4. i \in Gone(s, count, x) <=> s[i] = x /\ Cardinality(SameFrom(s, x, i)) < may
      <4>1. count # 0 /\ ~(count > 0)
        BY <1>5
      <4> QED BY <1>1, <1>5, <4>1 DEF Gone, Same, may
    <3>5. Cardinality(SameUpTo(r, x, j)) = Cardinality(SameFrom(s, x, i))
      BY SameReversed DEF r
    <3>6. ls[j] = IF j \in gr THEN <<>> ELSE <<r[j]>>
      BY <2>6, <3>1
    <3> HIDE DEF j, gr, ls, ss
    <3> QED BY <2>9, <3>2, <3>3, <3>4, <3>5, <3>6
  <2>12. Rg!Reverse(ls) = ss
    <3> HIDE DEF ls, ss, n
    <3> QED BY <2>9, <2>10, <2>11, SeqEqual
  <2> QED BY <2>2, <2>5, <2>8, <2>12
<1> QED BY <1>3, <1>4, <1>5

LEMMA LeftFits ==
  ASSUME NEW S, NEW s \in Seq(S), NEW gone
  PROVE  Rg!FlattenSeq(Left(s, gone)) \in Seq(S) /\ Len(Rg!FlattenSeq(Left(s, gone))) <= Len(s)
<1> DEFINE n == Len(s)
           ss == Left(s, gone)
           G == [i \in 0 .. n |-> {t \in Seq(S) : Len(t) <= i}]
<1>1. n \in Nat /\ \A i \in 1 .. n : s[i] \in S
  BY LenProperties, ElementOfSeq
<1>2. ss \in Seq(Seq(S)) /\ Len(ss) = n /\ \A i \in 1 .. n : ss[i] = IF i \in gone THEN <<>> ELSE <<s[i]>>
  BY LeftIs
<1> HIDE DEF ss
<1>3. <<>> \in G[0]
  <2>1. <<>> \in Seq(S) /\ Len(<<>>) = 0
    BY EmptySeq
  <2> QED BY <1>1, <2>1
<1>4. ASSUME NEW i \in 1 .. n, NEW t \in G[i - 1], t \in Seq(S) PROVE t \o ss[i] \in G[i]
  <2>1. i \in Int /\ i \in 0 .. n /\ i - 1 \in 0 .. n
    BY <1>1
  <2>2. Len(t) <= i - 1 /\ Len(t) \in Nat
    BY <1>4, <2>1, LenProperties
  <2>3. ss[i] \in Seq(S) /\ Len(ss[i]) \in {0, 1}
    <3>1. <<>> \in Seq(S) /\ Len(<<>>) = 0
      BY EmptySeq
    <3>2. <<s[i]>> \in Seq(S) /\ Len(<<s[i]>>) = 1
      BY <1>1
    <3> QED BY <1>2, <3>1, <3>2
  <2>4. t \o ss[i] \in Seq(S) /\ Len(t \o ss[i]) = Len(t) + Len(ss[i])
    BY <1>4, <2>3, ConcatProperties
  <2>5. Len(t \o ss[i]) <= i
    <3> DEFINE u == Len(t)
               v == Len(ss[i])
               w == Len(t \o ss[i])
    <3>1. u \in Nat /\ u <= i - 1 /\ v \in {0, 1} /\ w = u + v
      BY <2>2, <2>3, <2>4
    <3> HIDE DEF u, v, w
    <3>2. w <= i
      BY <2>1, <3>1
    <3> QED BY <3>2 DEF w
  <2> QED BY <2>1, <2>4, <2>5
<1>5. Rg!FlattenSeq(ss) \in G[n]
  <2> HIDE DEF G, n
  <2>1. \A i \in 1 .. Len(ss) : \A t \in G[i - 1] : t \in Seq(S) => t \o ss[i] \in G[i]
    BY <1>2, <1>4
  <2> QED BY <1>2, <1>3, <2>1, FlattenChain
<1>6. n \in 0 .. n
  BY <1>1
<1> QED BY <1>5, <1>6 DEF ss

(* SETRANGE *)

LEMMA OverwrittenIs ==
  ASSUME NEW S, NEW s \in Seq(S), NEW new \in Seq(S), NEW offset \in Nat, Rg!Pad \in S
  PROVE  LET t == Rg!Overwritten(s, offset, new)
             n == Len(s)
             end == offset + Len(new)
         IN  /\ t \in Seq(S) /\ Len(t) = IF end > n THEN end ELSE n
             /\ \A i \in 1 .. Len(t) :
                  t[i] = IF i <= offset THEN IF i <= n THEN s[i] ELSE Rg!Pad
                         ELSE IF i <= end THEN new[i - offset] ELSE s[i]
<1> DEFINE n == Len(s)
           m == Len(new)
           end == offset + m
           lo == IF offset < n THEN offset ELSE n
           gap == IF offset > n THEN offset - n ELSE 0
           more == IF end < n THEN n - end ELSE 0
           a == SubSeq(s, 1, lo)
           b == [i \in 1 .. offset - n |-> Rg!Pad]
           c == SubSeq(s, end + 1, n)
           t == Rg!Overwritten(s, offset, new)
<1>1. n \in Nat /\ m \in Nat /\ end \in Nat /\ \A i \in 1 .. n : s[i] \in S
  BY LenProperties, ElementOfSeq
<1>2. t = ((a \o b) \o new) \o c
  BY DEF Rg!Overwritten
<1> HIDE DEF n, m, t
<1>3. lo \in Nat /\ gap \in Nat /\ more \in Nat /\ lo + gap = offset
  BY <1>1
<1>4. a \in Seq(S) /\ Len(a) = lo /\ \A i \in 1 .. lo : a[i] = s[i]
  <2>1. 1 \in Int /\ lo \in Int /\ lo - 1 + 1 = lo /\ (IF 1 <= lo THEN lo - 1 + 1 ELSE 0) = lo
    BY <1>3
  <2>2. \A i \in 1 .. lo : s[i] \in S
    BY <1>1
  <2> HIDE DEF lo
  <2>3. /\ SubSeq(s, 1, lo) \in Seq(S) /\ Len(SubSeq(s, 1, lo)) = IF 1 <= lo THEN lo - 1 + 1 ELSE 0
        /\ \A i \in 1 .. lo - 1 + 1 : SubSeq(s, 1, lo)[i] = s[1 + i - 1]
    BY <2>1, <2>2, SubSeqProperties
  <2>4. \A i \in 1 .. lo : 1 + i - 1 = i
    BY <2>1
  <2> QED BY <2>1, <2>3, <2>4
<1>5. b \in Seq(S) /\ Len(b) = gap /\ \A i \in 1 .. gap : b[i] = Rg!Pad
  <2>1. 1 .. offset - n = 1 .. gap
    BY <1>1
  <2>2. b = [i \in 1 .. gap |-> Rg!Pad]
    BY <2>1
  <2> HIDE DEF b, gap
  <2>3. b \in [1 .. gap -> S]
    BY <2>2
  <2> QED BY <1>3, <2>2, <2>3
<1>6. c \in Seq(S) /\ Len(c) = more /\ \A i \in 1 .. more : c[i] = s[end + i]
  <2> DEFINE e == end + 1
  <2>1. e \in Int /\ n \in Int /\ n - e + 1 = n - end /\ (IF e <= n THEN n - e + 1 ELSE 0) = more
    BY <1>1
  <2>2. \A i \in e .. n : s[i] \in S
    BY <1>1
  <2>5. \A i \in 1 .. more : i \in 1 .. n - e + 1 /\ e + i - 1 = end + i
    BY <1>1
  <2> HIDE DEF e
  <2>3. /\ SubSeq(s, e, n) \in Seq(S) /\ Len(SubSeq(s, e, n)) = IF e <= n THEN n - e + 1 ELSE 0
        /\ \A i \in 1 .. n - e + 1 : SubSeq(s, e, n)[i] = s[e + i - 1]
    BY <2>1, <2>2, SubSeqProperties
  <2>4. c = SubSeq(s, e, n)
    BY DEF e
  <2> HIDE DEF c, more, end
  <2> QED BY <2>1, <2>3, <2>4, <2>5
<1>7. \A i \in 1 .. n : end < i => i - end \in 1 .. more /\ end + (i - end) = i
  BY <1>1
<1>8. (IF end > n THEN end ELSE n) = end + more /\ end + more \in Nat
  BY <1>1
<1>9. lo <= n /\ (gap # 0 => lo = n)
  BY <1>1
<1>10. more # 0 => end + more = n
  BY <1>1
<1> HIDE DEF a, b, c, lo, gap, more
<1> DEFINE ab == a \o b
           abn == ab \o new
           abnc == abn \o c
<1>11. ab \in Seq(S) /\ Len(ab) = offset
       /\ \A i \in 1 .. offset : ab[i] = IF i <= lo THEN a[i] ELSE b[i - lo]
  <2>1. /\ ab \in Seq(S) /\ Len(ab) = Len(a) + Len(b)
        /\ \A i \in 1 .. Len(a) + Len(b) : ab[i] = IF i <= Len(a) THEN a[i] ELSE b[i - Len(a)]
    BY <1>4, <1>5, ConcatProperties
  <2> HIDE DEF ab
  <2> QED BY <1>3, <1>4, <1>5, <2>1
<1> HIDE DEF ab
<1>12. abn \in Seq(S) /\ Len(abn) = end
       /\ \A i \in 1 .. end : abn[i] = IF i <= offset THEN ab[i] ELSE new[i - offset]
  BY <1>1, <1>11, ConcatProperties DEF m
<1> HIDE DEF abn
<1>13. abnc \in Seq(S) /\ Len(abnc) = end + more
       /\ \A i \in 1 .. end + more : abnc[i] = IF i <= end THEN abn[i] ELSE c[i - end]
  BY <1>1, <1>6, <1>12, ConcatProperties
<1> HIDE DEF abnc
<1>14. t = abnc
  BY <1>2 DEF abnc, abn, ab
<1>15. ASSUME NEW i \in 1 .. end + more
       PROVE  t[i] = IF i <= offset THEN IF i <= n THEN s[i] ELSE Rg!Pad
                     ELSE IF i <= end THEN new[i - offset] ELSE s[i]
  <2>0. i \in Int /\ i >= 1 /\ i <= end + more
    BY <1>8
  <2>1. CASE i <= lo
    <3>1. i <= offset /\ i <= end /\ i <= n /\ i \in 1 .. lo /\ i \in 1 .. offset /\ i \in 1 .. end
      BY <1>1, <1>3, <1>9, <2>0, <2>1
    <3>2. t[i] = s[i]
      BY <1>4, <1>11, <1>12, <1>13, <1>14, <2>1, <3>1
    <3> QED BY <3>1, <3>2
  <2>2. CASE ~(i <= lo) /\ i <= offset
    <3>1. i <= end /\ i \in 1 .. offset /\ i \in 1 .. end /\ i - lo \in 1 .. gap
      BY <1>1, <1>3, <2>0, <2>2
    <3>2. ~(i <= n)
      BY <1>1, <1>3, <1>9, <2>0, <2>2, <3>1
    <3>3. t[i] = Rg!Pad
      BY <1>5, <1>11, <1>12, <1>13, <1>14, <2>2, <3>1
    <3> QED BY <2>2, <3>2, <3>3
  <2>3. CASE ~(i <= offset) /\ i <= end
    <3>1. i \in 1 .. end
      BY <1>1, <2>0, <2>3
    <3> QED BY <1>12, <1>13, <1>14, <2>3, <3>1
  <2>4. CASE ~(i <= end)
    <3>1. ~(i <= offset) /\ more # 0
      BY <1>1, <1>3, <2>0, <2>4
    <3>2. i \in 1 .. n /\ end < i
      BY <1>1, <1>3, <1>10, <2>0, <2>4, <3>1
    <3>3. i - end \in 1 .. more /\ end + (i - end) = i
      BY <1>7, <3>2
    <3>4. t[i] = s[i]
      BY <1>6, <1>13, <1>14, <2>4, <3>3
    <3> QED BY <2>4, <3>1, <3>4
  <2> QED BY <1>1, <2>0, <2>1, <2>2, <2>3, <2>4
<1>16. /\ t \in Seq(S) /\ Len(t) = (IF end > n THEN end ELSE n)
       /\ \A i \in 1 .. Len(t) : t[i] = IF i <= offset THEN IF i <= n THEN s[i] ELSE Rg!Pad
                                        ELSE IF i <= end THEN new[i - offset] ELSE s[i]
  BY <1>8, <1>13, <1>14, <1>15
<1> QED BY <1>16 DEF t, n, m

WrittenWell(s, new, offset) ==
  LET t == Rg!Overwritten(s, offset, new)
  IN  /\ Rg!Sliced(t, offset, offset + Len(new) - 1) = new
      /\ \A i \in DOMAIN t \ (offset + 1 .. offset + Len(new)) :
           t[i] = IF i \in DOMAIN s THEN s[i] ELSE Rg!Pad
      /\ DOMAIN s \subseteq DOMAIN t

LEMMA WrittenReads ==
  ASSUME NEW S, NEW s \in Seq(S), NEW new \in Seq(S), new # <<>>, NEW offset \in Nat, Rg!Pad \in S
  PROVE  WrittenWell(s, new, offset)
<1> DEFINE t == Rg!Overwritten(s, offset, new)
           n == Len(s)
           m == Len(new)
           l == Len(t)
           end == offset + m
<1>1. /\ t \in Seq(S) /\ l = IF end > n THEN end ELSE n
      /\ \A i \in 1 .. l :
           t[i] = IF i <= offset THEN IF i <= n THEN s[i] ELSE Rg!Pad
                  ELSE IF i <= end THEN new[i - offset] ELSE s[i]
  BY OverwrittenIs
<1>2. n \in Nat /\ m \in Nat /\ m > 0 /\ DOMAIN s = 1 .. n
  <2>1. m \in Nat \ {0}
    BY EmptySeq
  <2> QED BY <2>1, LenProperties
<1> HIDE DEF t, n, m
<1>3. l \in Nat /\ DOMAIN t = 1 .. l /\ \A i \in 1 .. l : t[i] \in S
  BY <1>1, LenProperties, ElementOfSeq
<1> HIDE DEF l
<1>4. end <= l /\ n <= l /\ end \in Nat
  BY <1>1, <1>2
<1>5. Rg!Sliced(t, offset, end - 1) = new
  <2> DEFINE p == offset + 1
             u == SubSeq(t, p, end)
  <2>1. Rg!At(t, offset) = offset /\ Rg!At(t, end - 1) = end - 1
    BY <1>2 DEF Rg!At
  <2>2. Rg!Sliced(t, offset, end - 1) = u
    <3>1. /\ ~(offset < 0) /\ ~(end - 1 < 0) /\ ~(end - 1 > l - 1) /\ ~(offset > l - 1)
          /\ ~(end - 1 < offset) /\ end - 1 + 1 = end
      BY <1>2, <1>3, <1>4
    <3> QED BY <2>1, <3>1 DEF Rg!Sliced, l
  <2>3. p \in Int /\ end \in Int /\ p <= end /\ end - p + 1 = m /\ \A i \in p .. end : t[i] \in S
    BY <1>2, <1>3, <1>4
  <2>4. \A i \in 1 .. m : p + i - 1 = offset + i /\ offset + i \in 1 .. l /\ ~(offset + i <= offset)
                          /\ offset + i <= end /\ offset + i - offset = i
    BY <1>2, <1>3, <1>4
  <2> HIDE DEF p, end
  <2>5. /\ SubSeq(t, p, end) \in Seq(S) /\ Len(SubSeq(t, p, end)) = (IF p <= end THEN end - p + 1 ELSE 0)
        /\ \A i \in 1 .. end - p + 1 : SubSeq(t, p, end)[i] = t[p + i - 1]
    BY <2>3, SubSeqProperties
  <2>6. u \in Seq(S) /\ Len(u) = m /\ \A i \in 1 .. m : u[i] = t[p + i - 1]
    BY <2>3, <2>5
  <2> HIDE DEF u
  <2>7. ASSUME NEW i \in 1 .. m PROVE u[i] = new[i]
    <3>1. u[i] = t[offset + i]
      BY <2>4, <2>6
    <3>2. t[offset + i] = new[offset + i - offset]
      BY <1>1, <2>4
    <3> QED BY <2>4, <3>1, <3>2
  <2>8. u = new
    BY <2>6, <2>7, SeqEqual DEF m
  <2> QED BY <2>2, <2>8
<1>6. ASSUME NEW i \in DOMAIN t \ (offset + 1 .. end) PROVE t[i] = IF i \in DOMAIN s THEN s[i] ELSE Rg!Pad
  <2>1. i \in 1 .. l /\ i \in Int /\ (i \in 1 .. n <=> i <= n)
    BY <1>2, <1>3
  <2>2. CASE i <= offset
    BY <1>1, <1>2, <2>1, <2>2
  <2>3. CASE ~(i <= offset)
    <3>1. ~(i <= end) /\ i <= n
      BY <1>1, <1>2, <1>3, <2>1, <2>3
    <3> QED BY <1>1, <1>2, <2>1, <2>3, <3>1
  <2> QED BY <2>2, <2>3
<1>7. DOMAIN s \subseteq DOMAIN t
  BY <1>2, <1>3, <1>4
<1> QED BY <1>5, <1>6, <1>7 DEF t, m, WrittenWell

(* The invariant: every entry is of its type, and what counts is tallied, of what does *)
(* not count nothing is. *)

Characters == Element \cup {Rg!Pad}
Word       == {s \in Seq(Characters) : Len(s) <= MaxLen}
Wide       == -(2 ^ Widest) .. 2 ^ Widest
StringEntry == {Rg!Absent} \cup {Rg!Numeral(n) : n \in Wide} \cup {Rg!Text(s) : s \in Word} \cup {Rg!List(s) : s \in Word}

RangesInv ==
  /\ around \in SUBSET Rg!Circumstances /\ reply \in {"done", "error"} /\ tally \in [Key -> Int]
  /\ kv \in [Key -> StringEntry]
  /\ \A k \in Key : IF kv[k].type = "number" THEN tally[k] = kv[k].value ELSE tally[k] = 0

LEMMA EntriesAre ==
  ASSUME NEW e \in StringEntry
  PROVE  /\ e.type \in {"none", "number", "text", "list"}
         /\ e.type = "none" => e = Rg!Absent
         /\ e.type = "number" => e.value \in Wide /\ e.value \in Int
         /\ e.type \in {"none", "text", "list"} => e.value \in Seq(Characters) /\ (e.type # "none" => e.value \in Word)
<1>1. <<>> \in Seq(Characters)
  BY EmptySeq
<1>2. \A n \in Wide : n \in Int
  BY DEF Wide
<1>3. e = Rg!Absent \/ (\E n \in Wide : e = Rg!Numeral(n)) \/ \E s \in Word : e = Rg!Text(s) \/ e = Rg!List(s)
  BY DEF StringEntry
<1>4. CASE e = Rg!Absent
  BY <1>1, <1>4 DEF Rg!Absent
<1>5. CASE \E n \in Wide : e = Rg!Numeral(n)
  BY <1>2, <1>5 DEF Rg!Numeral
<1>6. CASE \E s \in Word : e = Rg!Text(s) \/ e = Rg!List(s)
  BY <1>6 DEF Rg!Text, Rg!List, Word
<1> QED BY <1>3, <1>4, <1>5, <1>6

LEMMA EntriesAreMade ==
  /\ Rg!Absent \in StringEntry /\ Rg!Absent.type = "none"
  /\ \A n \in Wide : Rg!Numeral(n) \in StringEntry /\ Rg!Numeral(n).type = "number" /\ Rg!Numeral(n).value = n
  /\ \A s \in Word : Rg!Text(s) \in StringEntry /\ Rg!Text(s).type = "text"
  /\ \A s \in Word : Rg!List(s) \in StringEntry /\ Rg!List(s).type = "list" /\ Rg!List(s).value = s
<1>1. Rg!Absent \in StringEntry /\ \A n \in Wide : Rg!Numeral(n) \in StringEntry
  BY DEF StringEntry
<1>2. \A s \in Word : Rg!Text(s) \in StringEntry /\ Rg!List(s) \in StringEntry
  BY DEF StringEntry
<1> QED BY <1>1, <1>2 DEF Rg!Absent, Rg!Numeral, Rg!Text, Rg!List

LEMMA DoesKeeps ==
  ASSUME RangesInv, NEW k \in Key, NEW e \in StringEntry, Rg!Does(k, e, "done"),
         NEW n \in Int, tally' = [tally EXCEPT ![k] = n], n = IF e.type = "number" THEN e.value ELSE 0
  PROVE  RangesInv'
<1>1. /\ kv' = [kv EXCEPT ![k] = e] /\ reply' = "done" /\ around' = around
      /\ kv \in [Key -> StringEntry] /\ tally \in [Key -> Int] /\ around \in SUBSET Rg!Circumstances
  BY DEF Rg!Does, RangesInv
<1>2. kv' \in [Key -> StringEntry] /\ tally' \in [Key -> Int]
  BY <1>1
<1>3. ASSUME NEW q \in Key PROVE IF kv'[q].type = "number" THEN tally'[q] = kv'[q].value ELSE tally'[q] = 0
  <2>1. IF kv[q].type = "number" THEN tally[q] = kv[q].value ELSE tally[q] = 0
    BY DEF RangesInv
  <2>2. CASE q = k
    BY <1>1, <2>2
  <2>3. CASE q # k
    BY <1>1, <2>1, <2>3
  <2> QED BY <2>2, <2>3
<1> QED BY <1>1, <1>2, <1>3 DEF RangesInv

LEMMA BecomesKeeps ==
  ASSUME RangesInv, NEW k \in Key, kv[k].type # "number", NEW s \in Word, Rg!Becomes(k, s)
  PROVE  RangesInv'
<1>1. /\ tally \in [Key -> Int] /\ tally[k] = 0 /\ tally' = tally /\ Rg!Does(k, Rg!List(s), "done")
  BY DEF RangesInv, Rg!Becomes
<1>2. tally' = [tally EXCEPT ![k] = 0]
  BY <1>1
<1> DEFINE e == Rg!List(s)
<1>3. e \in StringEntry /\ e.type # "number"
  BY EntriesAreMade
<1>4. Rg!Does(k, e, "done")
  BY <1>1
<1> HIDE DEF e
<1>5. 0 \in Int /\ 0 = IF e.type = "number" THEN e.value ELSE 0
  BY <1>3
<1> QED BY <1>2, <1>3, <1>4, <1>5, DoesKeeps

LEMMA RefusesKeeps == ASSUME RangesInv, Rg!Refuses PROVE RangesInv'
BY DEF RangesInv, Rg!Refuses

LEMMA WideIsInt == Wide \subseteq Int
BY DEF Wide

LEMMA ExactAreInt == Rg!ExactIntegers \subseteq Int
BY DEF Rg!ExactIntegers

LEMMA IncrByKeeps ==
  ASSUME RangesInv, NEW k \in Key, NEW amount \in Amounts, Rg!IncrBy(k, amount)
  PROVE  RangesInv'
<1> DEFINE count == Rg!Count(k)
           next == Rg!Double(count + Rg!Double(amount))
           w == Rg!Written(k)
<1>1. kv[k] \in StringEntry /\ tally[k] \in Int /\ amount \in Wide /\ amount \in Int
      /\ (IF kv[k].type = "number" THEN tally[k] = kv[k].value ELSE tally[k] = 0)
  BY RangesAssumption, WideIsInt DEF RangesInv, Wide
<1>2. /\ kv[k].type # "list"
      /\ \/ Rg!Refuses
         \/ /\ count # Rg!Unreadable /\ next \in Wide
            /\ Rg!Does(k, Rg!Numeral(next), "done") /\ Rg!Tallied(k, amount, next)
  BY DEF Rg!IncrBy, Wide
<1> HIDE DEF next
<1>3. CASE Rg!Refuses
  BY <1>3, RefusesKeeps
<1>4. CASE /\ count # Rg!Unreadable /\ next \in Wide
           /\ Rg!Does(k, Rg!Numeral(next), "done") /\ Rg!Tallied(k, amount, next)
  <2>1. CASE ~Rg!IsExact(k, amount)
    <3>1. tally' = [tally EXCEPT ![k] = next]
      BY <1>4, <2>1 DEF Rg!Tallied
    <3> QED BY <1>4, <3>1, WideIsInt, EntriesAreMade, DoesKeeps
  <2>2. CASE Rg!IsExact(k, amount)
    <3>1. w \in Rg!ExactIntegers /\ amount \in Rg!ExactIntegers /\ w + amount \in Rg!ExactIntegers
      BY <2>2 DEF Rg!IsExact
    <3>2. tally[k] = w
      BY <1>1 DEF Rg!Written
    <3>3. \A n \in Rg!ExactIntegers : Rg!Double(n) = n
      BY DEF Rg!Double
    <3>4. count = w
      <4>1. CASE kv[k].type = "number"
        <5>1. w = kv[k].value /\ count = Rg!Parsed(w)
          BY <4>1 DEF Rg!Written, Rg!Count
        <5> QED BY <1>4, <3>1, <3>3, <5>1 DEF Rg!Parsed
      <4>2. CASE kv[k].type # "number"
        <5>1. w = 0
          BY <4>2 DEF Rg!Written
        <5>2. ~(kv[k].type = "text" /\ kv[k].value # <<>>)
          BY <1>4, <4>2 DEF Rg!Count
        <5>3. count = 0
          BY <4>2, <5>2 DEF Rg!Count
        <5> QED BY <5>1, <5>3
      <4> QED BY <4>1, <4>2
    <3>5. next = tally[k] + amount
      BY <3>1, <3>2, <3>3, <3>4 DEF next
    <3>6. tally' = [tally EXCEPT ![k] = tally[k] + amount]
      <4>1. tally' = [tally EXCEPT ![k] = @ + amount]
        BY <1>4, <2>2 DEF Rg!Tallied
      <4> QED BY <4>1
    <3>7. tally' = [tally EXCEPT ![k] = next]
      BY <3>5, <3>6
    <3> QED BY <1>4, <3>7, WideIsInt, EntriesAreMade, DoesKeeps
  <2> QED BY <2>1, <2>2
<1> QED BY <1>2, <1>3, <1>4

LEMMA SetNumberKeeps ==
  ASSUME RangesInv, NEW k \in Key, NEW n \in Amounts, Rg!SetNumber(k, n)
  PROVE  RangesInv'
<1>1. n \in Wide /\ n \in Int
  BY RangesAssumption, WideIsInt DEF Wide
<1>2. Rg!Does(k, Rg!Numeral(n), "done") /\ tally' = [tally EXCEPT ![k] = n]
  BY DEF Rg!SetNumber
<1> QED BY <1>1, <1>2, EntriesAreMade, DoesKeeps

LEMMA SetRangeKeeps ==
  ASSUME RangesInv, NEW k \in Key, NEW offset \in Nat, NEW x \in Element, Rg!SetRange(k, offset, <<x>>)
  PROVE  RangesInv'
<1> DEFINE new == <<x>>
           t == Rg!Overwritten(kv[k].value, offset, new)
<1>1. kv[k] \in StringEntry /\ kv[k].type \in {"none", "text"}
  BY DEF RangesInv, Rg!SetRange
<1>2. kv[k].value \in Seq(Characters)
  BY <1>1, EntriesAre
<1>3. new \in Seq(Characters)
  BY DEF Characters
<1>4. Len(t) <= MaxLen /\ Rg!Does(k, Rg!Text(t), "done") /\ tally' = [tally EXCEPT ![k] = 0]
  BY DEF Rg!SetRange
<1> HIDE DEF new
<1>5. t \in Seq(Characters)
  <2>1. Rg!Pad \in Characters
    BY DEF Characters
  <2> QED BY <1>2, <1>3, <2>1, OverwrittenIs
<1> HIDE DEF t
<1>6. t \in Word
  BY <1>4, <1>5 DEF Word
<1> DEFINE e == Rg!Text(t)
<1>7. e \in StringEntry /\ e.type # "number"
  BY <1>6, EntriesAreMade
<1>8. Rg!Does(k, e, "done") /\ tally' = [tally EXCEPT ![k] = 0]
  BY <1>4
<1> HIDE DEF e
<1>9. 0 \in Int /\ 0 = IF e.type = "number" THEN e.value ELSE 0
  BY <1>7
<1> QED BY <1>7, <1>8, <1>9, DoesKeeps

LEMMA RPushKeeps ==
  ASSUME RangesInv, NEW k \in Key, NEW x \in Element, Rg!RPush(k, x)
  PROVE  RangesInv'
<1> DEFINE s == kv[k].value
<1>1. /\ kv[k] \in StringEntry /\ kv[k].type \in {"none", "list"} /\ Len(s) < MaxLen
      /\ Rg!Becomes(k, Append(s, x))
  BY DEF RangesInv, Rg!RPush
<1>2. s \in Seq(Characters)
  BY <1>1, EntriesAre
<1>3. Append(s, x) \in Seq(Characters) /\ Len(Append(s, x)) = Len(s) + 1
  <2>1. x \in Characters
    BY DEF Characters
  <2> HIDE DEF s
  <2> QED BY <1>2, <2>1, AppendProperties
<1>4. Append(s, x) \in Word
  <2>1. Len(s) \in Nat
    BY <1>2, LenProperties
  <2> HIDE DEF s
  <2> QED BY <1>1, <1>3, <2>1, RangesAssumption DEF Word, s
<1> QED BY <1>1, <1>4, BecomesKeeps

LEMMA ListEntry ==
  ASSUME RangesInv, NEW k \in Key, Rg!IsList(k)
  PROVE  kv[k].type = "list" /\ kv[k].value \in Word /\ kv[k].value \in Seq(Characters)
         /\ Len(kv[k].value) \in Nat /\ Len(kv[k].value) <= MaxLen
<1>1. kv[k] \in StringEntry /\ kv[k].type = "list"
  BY DEF RangesInv, Rg!IsList
<1>2. kv[k].value \in Word /\ kv[k].value \in Seq(Characters)
  BY <1>1, EntriesAre
<1> QED BY <1>1, <1>2, LenProperties DEF Word

LEMMA LTrimKeeps ==
  ASSUME RangesInv, NEW k \in Key, NEW start \in Int, NEW end \in Int, Rg!LTrim(k, start, end)
  PROVE  RangesInv'
<1> DEFINE s == kv[k].value
           t == Rg!Trimmed(s, start, end)
<1>1. Rg!IsList(k) /\ Rg!Becomes(k, t)
  BY DEF Rg!LTrim
<1>2. kv[k].type = "list" /\ s \in Seq(Characters) /\ Len(s) \in Nat /\ Len(s) <= MaxLen
  BY <1>1, ListEntry
<1> HIDE DEF s
<1>3. t = Rg!Sliced(s, start, end)
  BY <1>2, TrimmedIsSliced
<1>4. PICK a \in 1 .. Len(s) + 1, b \in 0 .. Len(s) : Rg!Sliced(s, start, end) = SubSeq(s, a, b)
  <2>1. \E a \in 1 .. Len(s) + 1, b \in 0 .. Len(s) :
           /\ Rg!Sliced(s, start, end) = SubSeq(s, a, b)
           /\ \A i \in 1 .. Len(s) : a <= i /\ i <= b <=> Rg!At(s, start) <= i - 1 /\ i - 1 <= Rg!At(s, end)
    BY <1>2, SlicedIsCut
  <2> QED BY <2>1
<1>5. t \in Seq(Characters) /\ Len(t) <= Len(s)
  <2>1. a \in Int /\ b \in Int /\ a >= 1 /\ b <= Len(s) /\ b >= 0
    BY <1>2
  <2>2. \A i \in a .. b : s[i] \in Characters
    BY <1>2, <2>1, ElementOfSeq
  <2>3. SubSeq(s, a, b) \in Seq(Characters) /\ Len(SubSeq(s, a, b)) = IF a <= b THEN b - a + 1 ELSE 0
    BY <2>1, <2>2, SubSeqProperties
  <2> HIDE DEF t
  <2> QED BY <1>2, <1>3, <1>4, <2>1, <2>3
<1>6. t \in Word
  <2>1. Len(t) \in Nat
    BY <1>5, LenProperties
  <2> HIDE DEF t
  <2> QED BY <1>2, <1>5, <2>1, RangesAssumption DEF Word
<1> QED BY <1>1, <1>2, <1>6, BecomesKeeps

LEMMA LRemKeeps ==
  ASSUME RangesInv, NEW k \in Key, NEW count \in Int, NEW x, Rg!LRem(k, count, x)
  PROVE  RangesInv'
<1> DEFINE s == kv[k].value
           t == Rg!Removed(s, count, x)
<1>1. Rg!IsList(k) /\ Rg!Becomes(k, t)
  BY DEF Rg!LRem
<1>2. kv[k].type = "list" /\ s \in Seq(Characters) /\ Len(s) \in Nat /\ Len(s) <= MaxLen
  BY <1>1, ListEntry
<1> HIDE DEF s
<1>3. t = Rg!FlattenSeq(Left(s, Gone(s, count, x)))
  BY <1>2, RemovedIs
<1>4. t \in Seq(Characters) /\ Len(t) <= Len(s)
  <2> HIDE DEF t
  <2> QED BY <1>2, <1>3, LeftFits
<1>5. t \in Word
  <2>1. Len(t) \in Nat
    BY <1>4, LenProperties
  <2> HIDE DEF t
  <2> QED BY <1>2, <1>4, <2>1, RangesAssumption DEF Word
<1> QED BY <1>1, <1>2, <1>5, BecomesKeeps

LEMMA LSetKeeps ==
  ASSUME RangesInv, NEW k \in Key, NEW i \in Int, NEW x \in Element, Rg!LSet(k, i, x)
  PROVE  RangesInv'
<1> DEFINE s == kv[k].value
           p == Rg!At(s, i) + 1
           t == [s EXCEPT ![p] = x]
<1>1. Rg!IsList(k) /\ (Rg!Refuses \/ (Rg!InRange(s, i) /\ Rg!Becomes(k, t)))
  BY DEF Rg!LSet
<1>2. kv[k].type = "list" /\ s \in Seq(Characters) /\ Len(s) \in Nat /\ Len(s) <= MaxLen
  BY <1>1, ListEntry
<1> HIDE DEF s
<1>3. CASE Rg!InRange(s, i) /\ Rg!Becomes(k, t)
  <2>1. p \in 1 .. Len(s)
    BY <1>2, <1>3 DEF Rg!InRange
  <2>2. x \in Characters
    BY DEF Characters
  <2> HIDE DEF p
  <2>3. t \in Seq(Characters) /\ Len(t) = Len(s)
    BY <1>2, <2>1, <2>2, ExceptSeq
  <2> HIDE DEF t
  <2>4. t \in Word
    BY <1>2, <2>3 DEF Word
  <2> QED BY <1>2, <1>3, <2>4, BecomesKeeps
<1> QED BY <1>1, <1>3, RefusesKeeps

LEMMA TakenIs ==
  ASSUME NEW S, NEW s \in Seq(S), s # <<>>, NEW end \in {"LEFT", "RIGHT"}
  PROVE  /\ Rg!Taken(s, end) \in S /\ Rg!Without(s, end) \in Seq(S) /\ Len(Rg!Without(s, end)) = Len(s) - 1
         /\ s = Rg!With(Rg!Without(s, end), end, Rg!Taken(s, end))
<1>1. Len(s) \in Nat \ {0} /\ \A i \in 1 .. Len(s) : s[i] \in S
  BY EmptySeq, ElementOfSeq
<1>2. 1 \in 1 .. Len(s) /\ Len(s) \in 1 .. Len(s)
  BY <1>1
<1>3. CASE end = "LEFT"
  <2>1. Head(s) \in S /\ Tail(s) \in Seq(S) /\ Len(Tail(s)) = Len(s) - 1
    BY HeadTailProperties
  <2>2. SubSeq(s, 1, Len(s)) = <<s[1]>> \o SubSeq(s, 1 + 1, Len(s))
    BY <1>2, SubSeqRecursiveFirst
  <2>3. SubSeq(s, 1, Len(s)) = s /\ Tail(s) = SubSeq(s, 2, Len(s)) /\ 1 + 1 = 2
    BY SubSeqFull, TailIsSubSeq
  <2>4. Head(s) = s[1]
    OBVIOUS
  <2>5. s = <<Head(s)>> \o Tail(s)
    BY <2>2, <2>3, <2>4
  <2> QED BY <1>3, <2>1, <2>5 DEF Rg!Taken, Rg!Without, Rg!With
<1>4. CASE end = "RIGHT"
  <2>1. Rg!Front(s) = SubSeq(s, 1, Len(s) - 1) /\ Rg!Last(s) = s[Len(s)]
    BY DEF Rg!Front, Rg!Last
  <2>2. SubSeq(s, 1, Len(s) - 1) \in Seq(S) /\ Len(SubSeq(s, 1, Len(s) - 1)) = Len(s) - 1
    <3> DEFINE l == Len(s) - 1
    <3>1. 1 \in Int /\ l \in Int /\ l >= 0 /\ \A i \in 1 .. l : s[i] \in S
      BY <1>1
    <3> HIDE DEF l
    <3>2. SubSeq(s, 1, l) \in Seq(S) /\ Len(SubSeq(s, 1, l)) = IF 1 <= l THEN l - 1 + 1 ELSE 0
      BY <3>1, SubSeqProperties
    <3>3. (IF 1 <= l THEN l - 1 + 1 ELSE 0) = l
      BY <3>1
    <3> QED BY <3>2, <3>3 DEF l
  <2>3. SubSeq(s, 1, Len(s)) = SubSeq(s, 1, Len(s) - 1) \o <<s[Len(s)]>>
    BY <1>2, SubSeqRecursiveSecond
  <2>4. SubSeq(s, 1, Len(s)) = s
    BY SubSeqFull
  <2>5. s[Len(s)] \in S
    BY <1>1, <1>2
  <2>6. Append(Rg!Front(s), Rg!Last(s)) = Rg!Front(s) \o <<Rg!Last(s)>>
    BY <2>1, <2>2, <2>5, AppendIsConcat
  <2>7. s = Append(Rg!Front(s), Rg!Last(s))
    BY <2>1, <2>3, <2>4, <2>6
  <2>8. Rg!Taken(s, end) = Rg!Last(s) /\ Rg!Without(s, end) = Rg!Front(s)
        /\ Rg!With(Rg!Without(s, end), end, Rg!Taken(s, end)) = Append(Rg!Front(s), Rg!Last(s))
    BY <1>4 DEF Rg!Taken, Rg!Without, Rg!With
  <2> QED BY <2>1, <2>2, <2>5, <2>7, <2>8
<1> QED BY <1>3, <1>4

LEMMA WithIs ==
  ASSUME NEW S, NEW s \in Seq(S), NEW x \in S, NEW end \in {"LEFT", "RIGHT"}
  PROVE  Rg!With(s, end, x) \in Seq(S)
<1>1. <<x>> \in Seq(S)
  OBVIOUS
<1>2. <<x>> \o s \in Seq(S)
  BY <1>1, ConcatProperties
<1>3. Append(s, x) \in Seq(S)
  BY AppendProperties
<1> QED BY <1>2, <1>3 DEF Rg!With

LEMMA ListsKeep ==
  ASSUME RangesInv, kv' \in [Key -> StringEntry], UNCHANGED <<around, tally>>, reply' \in {"done", "error"},
         \A k \in Key : kv'[k] = kv[k] \/ (kv[k].type # "number" /\ kv'[k].type # "number")
  PROVE  RangesInv'
<1>1. /\ around' \in SUBSET Rg!Circumstances /\ tally' \in [Key -> Int]
  BY DEF RangesInv
<1>2. ASSUME NEW k \in Key PROVE IF kv'[k].type = "number" THEN tally'[k] = kv'[k].value ELSE tally'[k] = 0
  BY DEF RangesInv
<1> QED BY <1>1, <1>2 DEF RangesInv

LEMMA LMoveIs ==
  ASSUME RangesInv, NEW src \in Key, NEW dst \in Key, NEW from \in {"LEFT", "RIGHT"}, NEW to \in {"LEFT", "RIGHT"},
         Rg!LMove(src, dst, from, to)
  PROVE  LET s    == kv[src].value
             rest == [kv EXCEPT ![src] = Rg!List(Rg!Without(s, from))]
             t    == Rg!With(rest[dst].value, to, Rg!Taken(s, from))
         IN  /\ UNCHANGED <<around, tally>> /\ Rg!IsList(src) /\ s # <<>>
             /\ \/ /\ kv[dst].type \in {"none", "list"} /\ t \in Word /\ reply' = "done"
                   /\ kv' = [rest EXCEPT ![dst] = Rg!List(t)]
                \/ kv[dst].type \notin {"none", "list"} /\ "misplaced" \in around /\ kv' = rest /\ reply' = "error"
             /\ rest \in [Key -> StringEntry] /\ Rg!Without(s, from) \in Word
<1> DEFINE s == kv[src].value
           x == Rg!Taken(s, from)
           w == Rg!Without(s, from)
           rest == [kv EXCEPT ![src] = Rg!List(w)]
           t == Rg!With(rest[dst].value, to, x)
<1>1. /\ UNCHANGED <<around, tally>> /\ Rg!IsList(src) /\ s # <<>>
      /\ \/ /\ kv[dst].type \in {"none", "list"} /\ reply' = "done"
            /\ kv' = [rest EXCEPT ![dst] = Rg!List(t)] /\ Len(kv'[dst].value) <= MaxLen
         \/ kv[dst].type \notin {"none", "list"} /\ "misplaced" \in around /\ kv' = rest /\ reply' = "error"
  BY DEF Rg!LMove
<1>2. s \in Seq(Characters) /\ Len(s) \in Nat /\ Len(s) <= MaxLen
  BY <1>1, ListEntry
<1>3. x \in Characters /\ w \in Seq(Characters) /\ Len(w) = Len(s) - 1
  <2> HIDE DEF s
  <2> QED BY <1>1, <1>2, TakenIs
<1> HIDE DEF s, x, w
<1>4. w \in Word
  <2>1. Len(w) \in Nat
    BY <1>3, LenProperties
  <2> QED BY <1>2, <1>3, <2>1, RangesAssumption DEF Word
<1>5. rest \in [Key -> StringEntry]
  <2>1. kv \in [Key -> StringEntry] /\ Rg!List(w) \in StringEntry
    BY <1>4, EntriesAreMade DEF RangesInv
  <2> QED BY <2>1
<1>6. ASSUME kv[dst].type \in {"none", "list"}, kv' = [rest EXCEPT ![dst] = Rg!List(t)], Len(kv'[dst].value) <= MaxLen
      PROVE  t \in Word
  <2>1. rest[dst] = (IF dst = src THEN Rg!List(w) ELSE kv[dst]) /\ kv \in [Key -> StringEntry]
    BY DEF RangesInv
  <2>2. rest[dst].type \in {"none", "list"}
    BY <1>6, <2>1 DEF Rg!List
  <2>3. rest[dst].value \in Seq(Characters)
    <3> HIDE DEF rest
    <3> QED BY <1>5, <2>2, EntriesAre
  <2>4. kv'[dst] = Rg!List(t)
    BY <1>5, <1>6
  <2> HIDE DEF rest
  <2>5. t \in Seq(Characters)
    BY <1>3, <2>3, WithIs
  <2>6. kv'[dst].value = t
    BY <2>4 DEF Rg!List
  <2>7. t \in Word
    BY <1>6, <2>5, <2>6 DEF Word
  <2> QED BY <2>7
<1>7. /\ UNCHANGED <<around, tally>> /\ Rg!IsList(src) /\ s # <<>>
      /\ \/ /\ kv[dst].type \in {"none", "list"} /\ t \in Word /\ reply' = "done"
            /\ kv' = [rest EXCEPT ![dst] = Rg!List(t)]
         \/ kv[dst].type \notin {"none", "list"} /\ "misplaced" \in around /\ kv' = rest /\ reply' = "error"
      /\ rest \in [Key -> StringEntry] /\ w \in Word
  <2> HIDE DEF rest, t
  <2> QED BY <1>1, <1>4, <1>5, <1>6
<1> QED BY <1>7 DEF s, x, w

LEMMA LMoveKeeps ==
  ASSUME RangesInv, NEW src \in Key, NEW dst \in Key, NEW from \in {"LEFT", "RIGHT"}, NEW to \in {"LEFT", "RIGHT"},
         Rg!LMove(src, dst, from, to)
  PROVE  RangesInv'
<1> DEFINE w == Rg!Without(kv[src].value, from)
           rest == [kv EXCEPT ![src] = Rg!List(w)]
           t == Rg!With(rest[dst].value, to, Rg!Taken(kv[src].value, from))
<1>1. /\ UNCHANGED <<around, tally>> /\ Rg!IsList(src)
      /\ \/ /\ kv[dst].type \in {"none", "list"} /\ t \in Word /\ reply' = "done"
            /\ kv' = [rest EXCEPT ![dst] = Rg!List(t)]
         \/ kv' = rest /\ reply' = "error"
      /\ rest \in [Key -> StringEntry] /\ w \in Word
  BY LMoveIs
<1> HIDE DEF w, t
<1>2. kv \in [Key -> StringEntry] /\ kv[src].type = "list" /\ Rg!List(w).type = "list"
  BY <1>1, EntriesAreMade DEF RangesInv, Rg!IsList
<1>3. \A k \in Key : rest[k] = kv[k] \/ (kv[k].type # "number" /\ rest[k].type # "number")
  BY <1>2
<1>4. CASE kv' = rest /\ reply' = "error"
  <2> HIDE DEF rest
  <2> QED BY <1>1, <1>3, <1>4, ListsKeep
<1>5. CASE /\ kv[dst].type \in {"none", "list"} /\ t \in Word /\ reply' = "done"
           /\ kv' = [rest EXCEPT ![dst] = Rg!List(t)]
  <2>1. Rg!List(t) \in StringEntry /\ Rg!List(t).type = "list"
    BY <1>5, EntriesAreMade
  <2> HIDE DEF rest
  <2>2. kv' \in [Key -> StringEntry]
    BY <1>1, <1>5, <2>1
  <2>3. \A k \in Key : kv'[k] = kv[k] \/ (kv[k].type # "number" /\ kv'[k].type # "number")
    <3> TAKE k \in Key
    <3>1. CASE k = dst
      BY <1>1, <1>5, <2>1, <3>1
    <3>2. CASE k # dst
      BY <1>1, <1>3, <1>5, <3>2
    <3> QED BY <3>1, <3>2
  <2> QED BY <1>1, <1>5, <2>2, <2>3, ListsKeep
<1> QED BY <1>1, <1>4, <1>5

LEMMA RangesDelKeeps == ASSUME RangesInv, NEW k \in Key, Rg!Del(k) PROVE RangesInv'
<1>1. Rg!Does(k, Rg!Absent, "done") /\ tally' = [tally EXCEPT ![k] = 0]
  BY DEF Rg!Del
<1>2. Rg!Absent \in StringEntry /\ Rg!Absent.type # "number"
  BY EntriesAreMade
<1>3. 0 \in Int /\ 0 = IF Rg!Absent.type = "number" THEN Rg!Absent.value ELSE 0
  BY <1>2
<1> QED BY <1>1, <1>2, <1>3, DoesKeeps

LEMMA RangesBegin == Rg!Init => RangesInv
<1> SUFFICES ASSUME Rg!Init PROVE RangesInv
  OBVIOUS
<1>1. /\ around \in RangeSurroundings /\ reply = "done"
      /\ kv = [k \in Key |-> Rg!Absent] /\ tally = [k \in Key |-> 0]
  BY DEF Rg!Init
<1>2. Rg!Absent \in StringEntry /\ Rg!Absent.type # "number"
  BY EntriesAreMade
<1>3. around \in SUBSET Rg!Circumstances
  BY <1>1, RangesAssumption DEF Rg!Circumstances
<1>4. kv \in [Key -> StringEntry] /\ tally \in [Key -> Int]
  BY <1>1, <1>2
<1>5. \A k \in Key : kv[k].type # "number" /\ tally[k] = 0
  BY <1>1, <1>2
<1> QED BY <1>1, <1>3, <1>4, <1>5 DEF RangesInv

LEMMA RangesNext == RangesInv /\ [Rg!Next]_Rg!vars => RangesInv'
<1> SUFFICES ASSUME RangesInv, [Rg!Next]_Rg!vars PROVE RangesInv'
  OBVIOUS
<1>1. CASE UNCHANGED Rg!vars
  BY <1>1 DEF Rg!vars, RangesInv
<1>2. CASE Rg!Next
  <2>1. PICK k \in Key :
          \/ \E n \in Amounts : Rg!IncrBy(k, n) \/ Rg!SetNumber(k, n)
          \/ \E offset \in 0 .. 2, x \in Element : Rg!SetRange(k, offset, <<x>>)
          \/ \E x \in Element : Rg!RPush(k, x)
          \/ \E start, end \in -2 .. 2 : Rg!LTrim(k, start, end)
          \/ \E count \in -1 .. 1, x \in Element : Rg!LRem(k, count, x) \/ Rg!LSet(k, count, x)
          \/ \E dst \in Key, from, to \in {"LEFT", "RIGHT"} : Rg!LMove(k, dst, from, to)
          \/ Rg!Del(k)
    BY <1>2 DEF Rg!Next
  <2>2. ASSUME NEW n \in Amounts, Rg!IncrBy(k, n) \/ Rg!SetNumber(k, n) PROVE RangesInv'
    BY <2>2, IncrByKeeps, SetNumberKeeps
  <2>3. ASSUME NEW offset \in 0 .. 2, NEW x \in Element, Rg!SetRange(k, offset, <<x>>) PROVE RangesInv'
    <3>1. offset \in Nat
      OBVIOUS
    <3> QED BY <2>3, <3>1, SetRangeKeeps
  <2>4. ASSUME NEW x \in Element, Rg!RPush(k, x) PROVE RangesInv'
    BY <2>4, RPushKeeps
  <2>5. ASSUME NEW start \in -2 .. 2, NEW end \in -2 .. 2, Rg!LTrim(k, start, end) PROVE RangesInv'
    <3>1. start \in Int /\ end \in Int
      OBVIOUS
    <3> QED BY <2>5, <3>1, LTrimKeeps
  <2>6. ASSUME NEW count \in -1 .. 1, NEW x \in Element, Rg!LRem(k, count, x) \/ Rg!LSet(k, count, x) PROVE RangesInv'
    <3>1. count \in Int
      OBVIOUS
    <3> QED BY <2>6, <3>1, LRemKeeps, LSetKeeps
  <2>7. ASSUME NEW dst \in Key, NEW from \in {"LEFT", "RIGHT"}, NEW to \in {"LEFT", "RIGHT"}, Rg!LMove(k, dst, from, to)
        PROVE  RangesInv'
    BY <2>7, LMoveKeeps
  <2>8. CASE Rg!Del(k)
    BY <2>8, RangesDelKeeps
  <2> QED BY <2>1, <2>2, <2>3, <2>4, <2>5, <2>6, <2>7, <2>8
<1> QED BY <1>1, <1>2

(* What the runs check *)

LEMMA RangesInvTypes == RangesInv => Rg!TypeOK
<1> SUFFICES ASSUME RangesInv PROVE Rg!TypeOK
  OBVIOUS
<1>1. ASSUME NEW k \in Key
      PROVE \/ kv[k] = Rg!Absent
            \/ kv[k].type = "number" /\ kv[k].value \in -(2 ^ Widest) .. 2 ^ Widest
            \/ kv[k].type \in {"text", "list"} /\ kv[k].value \in Seq(Element \cup {Rg!Pad}) /\ Len(kv[k].value) <= MaxLen
  <2>1. kv[k] \in StringEntry
    BY DEF RangesInv
  <2> QED BY <2>1, EntriesAre DEF Wide, Word, Characters
<1> QED BY <1>1 DEF Rg!TypeOK, RangesInv

LEMMA RangesInvCounts == RangesInv => Rg!CountersAddUp
BY DEF RangesInv, Rg!CountersAddUp

LEMMA RangesInvRanges == RangesInv => Rg!RangesAgree
<1> SUFFICES ASSUME RangesInv, NEW k \in Key, Rg!IsList(k),
                    NEW start \in -(MaxLen + 1) .. MaxLen + 1, NEW end \in -(MaxLen + 1) .. MaxLen + 1
             PROVE  LET s == kv[k].value
                    IN  /\ Rg!Trimmed(s, start, end) = Rg!Sliced(s, start, end)
                        /\ Rg!Sliced(s, start, end) =
                             Rg!FlattenSeq([i \in DOMAIN s |->
                               IF Rg!At(s, start) <= i - 1 /\ i - 1 <= Rg!At(s, end) THEN <<s[i]>> ELSE <<>>])
                        /\ Rg!Sliced(s, start, start) =
                             IF Rg!InRange(s, start) THEN <<s[Rg!At(s, start) + 1]>> ELSE <<>>
  BY DEF Rg!RangesAgree
<1>1. start \in Int /\ end \in Int /\ kv[k].value \in Seq(Characters)
  BY ListEntry
<1> QED BY <1>1, TrimmedIsSliced, RangesOfList

LEMMA RangesInvRemovals == RangesInv => Rg!RemovalsCount
<1> SUFFICES ASSUME RangesInv, NEW k \in Key, Rg!IsList(k),
                    NEW x \in Element, NEW count \in -(MaxLen + 1) .. MaxLen + 1
             PROVE  LET s == kv[k].value
                        same == {i \in DOMAIN s : s[i] = x}
                        gone == {i \in same : CASE count = 0 -> TRUE
                                    [] count > 0 -> Rg!Cardinality({j \in same : j < i}) < count
                                    [] count < 0 -> Rg!Cardinality({j \in same : j > i}) < -count}
                    IN  Rg!Removed(s, count, x) = Rg!FlattenSeq([i \in DOMAIN s |-> IF i \in gone THEN <<>> ELSE <<s[i]>>])
  BY DEF Rg!RemovalsCount
<1>1. count \in Int /\ kv[k].value \in Seq(Characters)
  BY ListEntry
<1>2. Rg!Removed(kv[k].value, count, x) = Rg!FlattenSeq(Left(kv[k].value, Gone(kv[k].value, count, x)))
  BY <1>1, RemovedIs
<1> QED BY <1>2 DEF Left, Gone, Same, SameUpTo, SameFrom, Rg!Cardinality, Cardinality

LEMMA RangesInvWrites == RangesInv => Rg!WrittenIsRead
<1> SUFFICES ASSUME RangesInv, NEW k \in Key, kv[k].type = "text", NEW offset \in 0 .. MaxLen,
                    NEW new \in {<<x>> : x \in Element} \cup {<<x, y>> : x, y \in Element}
             PROVE  LET s == kv[k].value
                        t == Rg!Overwritten(s, offset, new)
                    IN  /\ Rg!Sliced(t, offset, offset + Len(new) - 1) = new
                        /\ \A i \in DOMAIN t \ (offset + 1 .. offset + Len(new)) :
                             t[i] = IF i \in DOMAIN s THEN s[i] ELSE Rg!Pad
                        /\ DOMAIN s \subseteq DOMAIN t
  BY DEF Rg!WrittenIsRead
<1>1. kv[k].value \in Seq(Characters) /\ offset \in Nat /\ Rg!Pad \in Characters
  <2>1. kv[k] \in StringEntry
    BY DEF RangesInv
  <2> QED BY <2>1, EntriesAre DEF Characters
<1>2. new \in Seq(Characters) /\ new # <<>>
  <2>1. CASE new \in {<<x>> : x \in Element}
    <3>1. PICK x \in Element : new = <<x>>
      BY <2>1
    <3>2. x \in Characters
      BY DEF Characters
    <3> QED BY <3>1, <3>2
  <2>2. CASE new \in {<<x, y>> : x, y \in Element}
    <3>1. PICK x, y \in Element : new = <<x, y>>
      BY <2>2
    <3>2. x \in Characters /\ y \in Characters
      BY DEF Characters
    <3> QED BY <3>1, <3>2
  <2> QED BY <2>1, <2>2
<1>3. WrittenWell(kv[k].value, new, offset)
  BY <1>1, <1>2, WrittenReads
<1> QED BY <1>3 DEF WrittenWell

LEMMA CountersBegin == Init /\ family = "ranges" => Rg!Init
BY DEF Init

LEMMA CountersStep == [Next]_vars => family' = family /\ (family = "ranges" => [Rg!Next]_Rg!vars)
BY DEF Next, vars, storeVars, Rg!vars

RangesFamilyInv == family = "ranges" => RangesInv

LEMMA RangesAlways == Spec => []RangesFamilyInv
<1>1. Init => RangesFamilyInv
  BY CountersBegin, RangesBegin DEF RangesFamilyInv
<1>2. RangesFamilyInv /\ [Next]_vars => RangesFamilyInv'
  BY CountersStep, RangesNext DEF RangesFamilyInv
<1> QED BY <1>1, <1>2, PTL DEF Spec

(* Counters add up as long as a double holds them, whatever else happens to their keys;  *)
(* LTRIM, LRANGE and LINDEX mean the same elements, LREM takes those it counts from      *)
(* either end, and SETRANGE writes what GETRANGE reads: for lists and strings of any     *)
(* length, numbers of any width and indexes of any sign.                                 *)
THEOREM RangesAlwaysAgree == Spec => []RangesAgree
<1>1. RangesFamilyInv => RangesAgree
  BY RangesInvTypes, RangesInvCounts, RangesInvRanges, RangesInvRemovals, RangesInvWrites DEF RangesFamilyInv, RangesAgree
<1> QED BY <1>1, RangesAlways, PTL
------------------------------------------------------------------------------
(* Time series.  What the values of the variables are: a rule keeps a state for each bucket *)
(* it has seen. *)

Applying == INSTANCE Folding WITH Step <- Ts!ApplyRule

Sample == [t : 0 .. MaxTimestamp, v : Int]
BucketState == [sum : Int, count : Nat, min : Int, max : Int]
BucketStates == UNION {[D -> BucketState] : D \in SUBSET Nat}
SeriesRule == [dest : SeriesKey, agg : {"sum", "min", "max"}, width : Nat \ {0}, state : BucketStates, since : Nat]
SeriesEntry == [type : {"timeseries", "string"}, samples : Seq(Sample), retention : Retention \cup {-1}, rules : Seq(SeriesRule)]
SeriesStores == UNION {[D -> SeriesEntry] : D \in SUBSET SeriesKey}
NoTexts(m) == \A k \in DOMAIN m : m[k].type = "timeseries"

LEMMA SeriesStoresAre ==
  ASSUME NEW m
  PROVE  m \in SeriesStores <=> m = [x \in DOMAIN m |-> m[x]] /\ DOMAIN m \subseteq SeriesKey /\ \A x \in DOMAIN m : m[x] \in SeriesEntry
<1>1. ASSUME m \in SeriesStores
      PROVE  m = [x \in DOMAIN m |-> m[x]] /\ DOMAIN m \subseteq SeriesKey /\ \A x \in DOMAIN m : m[x] \in SeriesEntry
  <2>1. PICK D \in SUBSET SeriesKey : m \in [D -> SeriesEntry]
    BY <1>1 DEF SeriesStores
  <2> QED BY <2>1
<1>2. ASSUME m = [x \in DOMAIN m |-> m[x]], DOMAIN m \subseteq SeriesKey, \A x \in DOMAIN m : m[x] \in SeriesEntry
      PROVE  m \in SeriesStores
  <2>1. m \in [DOMAIN m -> SeriesEntry]
    BY <1>2
  <2> QED BY <1>2, <2>1 DEF SeriesStores
<1> QED BY <1>1, <1>2

LEMMA SeriesPutIs ==
  ASSUME NEW m \in SeriesStores, NEW k \in SeriesKey, NEW e \in SeriesEntry
  PROVE  /\ Ts!Put(m, k, e) \in SeriesStores
         /\ DOMAIN Ts!Put(m, k, e) = DOMAIN m \cup {k}
         /\ Ts!Put(m, k, e)[k] = e
         /\ \A x \in DOMAIN m \ {k} : Ts!Put(m, k, e)[x] = m[x]
<1> DEFINE p == Ts!Put(m, k, e)
<1>1. p = [x \in DOMAIN m \cup {k} |-> IF x = k THEN e ELSE m[x]]
  BY DEF Ts!Put
<1> HIDE DEF p
<1>2. DOMAIN m \subseteq SeriesKey /\ \A x \in DOMAIN m : m[x] \in SeriesEntry
  BY SeriesStoresAre
<1>3. DOMAIN p = DOMAIN m \cup {k} /\ p[k] = e /\ \A x \in DOMAIN m \ {k} : p[x] = m[x]
  BY <1>1
<1>4. p = [x \in DOMAIN p |-> p[x]]
  BY <1>1
<1>5. p \in SeriesStores
  BY <1>2, <1>3, <1>4, SeriesStoresAre
<1> QED BY <1>3, <1>5 DEF p

LEMMA NewSeries ==
  /\ Ts!Series(<<>>, -1, <<>>) \in SeriesEntry /\ Ts!Series(<<>>, -1, <<>>).type = "timeseries"
  /\ Ts!Series(<<>>, -1, <<>>).samples = <<>> /\ Ts!Series(<<>>, -1, <<>>).rules = <<>>
  /\ Ts!Series(<<>>, -1, <<>>).retention = -1
<1>1. <<>> \in Seq(Sample) /\ <<>> \in Seq(SeriesRule)
  BY EmptySeq
<1> QED BY <1>1 DEF Ts!Series, SeriesEntry

LEMMA SeriesGetIs ==
  ASSUME NEW m \in SeriesStores, NEW k
  PROVE  /\ Ts!GetOrInit(m, k) \in SeriesEntry
         /\ k \in DOMAIN m => Ts!GetOrInit(m, k) = m[k]
         /\ k \notin DOMAIN m => Ts!GetOrInit(m, k) = Ts!Series(<<>>, -1, <<>>)
         /\ NoTexts(m) => Ts!GetOrInit(m, k).type = "timeseries"
<1>1. \A x \in DOMAIN m : m[x] \in SeriesEntry
  BY SeriesStoresAre
<1> QED BY <1>1, NewSeries DEF Ts!GetOrInit, NoTexts, Ts!Unlimited

(* Buckets and samples. *)

LEMMA StartIs ==
  ASSUME NEW t \in Nat, NEW w \in Nat \ {0}
  PROVE  /\ Ts!Start(t, w) \in Nat /\ Ts!Start(t, w) <= t /\ t < Ts!Start(t, w) + w
         /\ \A u \in Nat : t <= u => Ts!Start(t, w) <= Ts!Start(u, w)
<1> DEFINE q == t \div w
<1>1. q \in Nat /\ q * w \in Nat /\ q * w <= t /\ t < q * w + w
  OBVIOUS
<1>2. ASSUME NEW u \in Nat, t <= u PROVE q * w <= (u \div w) * w
  <2> DEFINE p == u \div w
  <2>1. p \in Nat /\ p * w \in Nat /\ p * w <= u /\ u < p * w + w
    OBVIOUS
  <2>2. p < q => q * w >= p * w + w
    <3>1. p \in Int /\ q \in Int /\ w \in Nat
      BY <1>1, <2>1
    <3> HIDE DEF p, q
    <3> QED BY <3>1
  <2> HIDE DEF p, q
  <2>3. ~(p < q)
    BY <1>1, <1>2, <2>1, <2>2
  <2>4. q <= p
    BY <1>1, <2>1, <2>3
  <2>5. p # q => p * w >= q * w + w
    <3>1. p > q => p * w >= q * w + w
      BY <1>1, <2>1
    <3> QED BY <1>1, <2>1, <2>4, <3>1
  <2>6. q * w <= p * w
    BY <1>1, <2>1, <2>5
  <2> QED BY <2>6 DEF p
<1>3. Ts!Start(t, w) = q * w /\ \A u \in Nat : Ts!Start(u, w) = (u \div w) * w
  BY DEF Ts!Start
<1> HIDE DEF q
<1> QED BY <1>1, <1>2, <1>3

LEMMA WithIsState ==
  ASSUME NEW st \in BucketState, NEW v \in Int
  PROVE  Ts!With(st, v) \in BucketState
BY DEF Ts!With, BucketState, Ts!Lesser, Ts!Greater

LEMMA NoStateIs == Ts!NoState \in BucketState
BY DEF Ts!NoState, BucketState

LEMMA OutIs ==
  ASSUME NEW st \in BucketState, NEW agg \in {"sum", "min", "max"}
  PROVE  Ts!Out(agg, st) \in Int
BY DEF Ts!Out, BucketState

LEMMA StatesAre ==
  ASSUME NEW f
  PROVE  f \in BucketStates <=> f = [x \in DOMAIN f |-> f[x]] /\ DOMAIN f \subseteq Nat /\ \A x \in DOMAIN f : f[x] \in BucketState
<1>1. ASSUME f \in BucketStates
      PROVE  f = [x \in DOMAIN f |-> f[x]] /\ DOMAIN f \subseteq Nat /\ \A x \in DOMAIN f : f[x] \in BucketState
  <2>1. PICK D \in SUBSET Nat : f \in [D -> BucketState]
    BY <1>1 DEF BucketStates
  <2> QED BY <2>1
<1>2. ASSUME f = [x \in DOMAIN f |-> f[x]], DOMAIN f \subseteq Nat, \A x \in DOMAIN f : f[x] \in BucketState
      PROVE  f \in BucketStates
  <2>1. f \in [DOMAIN f -> BucketState]
    BY <1>2
  <2> QED BY <1>2, <2>1 DEF BucketStates
<1> QED BY <1>1, <1>2

\* The state of a rule's bucket once v has come.
Gathered(rule, b, v) == Ts!With(IF b \in DOMAIN rule.state THEN rule.state[b] ELSE Ts!NoState, v)

LEMMA GatheringIs ==
  ASSUME NEW rule \in SeriesRule, NEW b \in Nat, NEW v \in Int
  PROVE  /\ Ts!Gathering(rule, b, v) \in SeriesRule
         /\ Ts!Gathering(rule, b, v).dest = rule.dest /\ Ts!Gathering(rule, b, v).agg = rule.agg
         /\ Ts!Gathering(rule, b, v).width = rule.width /\ Ts!Gathering(rule, b, v).since = rule.since
         /\ DOMAIN Ts!Gathering(rule, b, v).state = DOMAIN rule.state \cup {b}
         /\ Ts!Gathering(rule, b, v).state[b] = Gathered(rule, b, v)
         /\ Gathered(rule, b, v) \in BucketState
         /\ \A x \in DOMAIN rule.state \ {b} : Ts!Gathering(rule, b, v).state[x] = rule.state[x]
<1> DEFINE st == Gathered(rule, b, v)
           f == Ts!Put(rule.state, b, st)
           g == Ts!Gathering(rule, b, v)
<1>1. /\ rule.state \in BucketStates /\ rule.dest \in SeriesKey /\ rule.agg \in {"sum", "min", "max"}
      /\ rule.width \in Nat \ {0} /\ rule.since \in Nat
  BY DEF SeriesRule
<1>2. DOMAIN rule.state \subseteq Nat /\ \A x \in DOMAIN rule.state : rule.state[x] \in BucketState
  BY <1>1, StatesAre
<1>3. st \in BucketState
  BY <1>2, WithIsState, NoStateIs DEF Gathered
<1>4. g = [rule EXCEPT !.state = f]
  BY DEF Ts!Gathering, Gathered
<1>5. f = [x \in DOMAIN rule.state \cup {b} |-> IF x = b THEN st ELSE rule.state[x]]
  BY DEF Ts!Put
<1> HIDE DEF st, f, g
<1>6. /\ DOMAIN f = DOMAIN rule.state \cup {b} /\ f[b] = st /\ \A x \in DOMAIN rule.state \ {b} : f[x] = rule.state[x]
      /\ f = [x \in DOMAIN f |-> f[x]]
  BY <1>5
<1>7. f \in BucketStates
  BY <1>2, <1>3, <1>6, StatesAre
<1>8. /\ g \in SeriesRule /\ g.state = f /\ g.dest = rule.dest /\ g.agg = rule.agg /\ g.width = rule.width
      /\ g.since = rule.since
  BY <1>4, <1>7 DEF SeriesRule
<1>9. /\ g \in SeriesRule /\ g.dest = rule.dest /\ g.agg = rule.agg /\ g.width = rule.width /\ g.since = rule.since
      /\ DOMAIN g.state = DOMAIN rule.state \cup {b} /\ g.state[b] = st /\ st \in BucketState
      /\ \A x \in DOMAIN rule.state \ {b} : g.state[x] = rule.state[x]
  BY <1>3, <1>6, <1>8
<1> QED BY <1>9 DEF g, st

(* What TS.ADD does to samples. *)

LEMMA SampledIs ==
  ASSUME NEW s \in Seq(Sample), NEW t \in 0 .. MaxTimestamp, NEW v \in Int
  PROVE  /\ Ts!Sampled(s, t, v) \in Seq(Sample) /\ Ts!Sampled(s, t, v) # <<>>
         /\ IF s # <<>> /\ s[Len(s)].t = t
            THEN /\ Len(Ts!Sampled(s, t, v)) = Len(s)
                 /\ \A i \in 1 .. Len(s) - 1 : Ts!Sampled(s, t, v)[i] = s[i]
                 /\ Ts!Sampled(s, t, v)[Len(s)] = [t |-> t, v |-> v]
            ELSE /\ Len(Ts!Sampled(s, t, v)) = Len(s) + 1
                 /\ \A i \in 1 .. Len(s) : Ts!Sampled(s, t, v)[i] = s[i]
                 /\ Ts!Sampled(s, t, v)[Len(s) + 1] = [t |-> t, v |-> v]
<1> DEFINE x == [t |-> t, v |-> v]
           p == Ts!Sampled(s, t, v)
<1>1. x \in Sample /\ Len(s) \in Nat
  BY LenProperties DEF Sample
<1>2. Ts!At(t, v) = x
  BY DEF Ts!At
<1>3. s # <<>> => Ts!Last(s) = s[Len(s)]
  BY DEF Ts!Last
<1>4. CASE s # <<>> /\ s[Len(s)].t = t
  <2> DEFINE r == Ts!Front(s)
  <2>1. p = Append(r, x)
    BY <1>2, <1>3, <1>4 DEF Ts!Sampled
  <2>2. Len(s) >= 1
    BY <1>1, <1>4, EmptySeq
  <2>3. r \in Seq(Sample) /\ Len(r) = Len(s) - 1 /\ \A i \in 1 .. Len(s) - 1 : r[i] = s[i]
    <3> DEFINE n == Len(s) - 1
    <3>1. n \in Nat /\ 1 \in Int /\ \A i \in 1 .. n : s[i] \in Sample
      BY <1>1, <2>2, ElementOfSeq
    <3>2. r = SubSeq(s, 1, n)
      BY DEF Ts!Front
    <3> HIDE DEF r, n
    <3>3. /\ r \in Seq(Sample) /\ Len(r) = IF 1 <= n THEN n - 1 + 1 ELSE 0
          /\ \A i \in 1 .. n - 1 + 1 : r[i] = s[1 + i - 1]
      BY <3>1, <3>2, SubSeqProperties
    <3>4. Len(r) = n /\ \A i \in 1 .. n : r[i] = s[i]
      BY <3>1, <3>3
    <3> QED BY <3>3, <3>4 DEF n
  <2> HIDE DEF r, x, p
  <2>4. p \in Seq(Sample) /\ Len(p) = Len(s) /\ p[Len(s)] = x /\ \A i \in 1 .. Len(s) - 1 : p[i] = s[i]
    <3>1. p \in Seq(Sample) /\ Len(p) = Len(r) + 1 /\ p[Len(r) + 1] = x /\ \A i \in 1 .. Len(r) : p[i] = r[i]
      BY <1>1, <2>1, <2>3, AppendProperties
    <3> QED BY <1>1, <2>2, <2>3, <3>1
  <2>5. p # <<>>
    BY <2>2, <2>4, EmptySeq
  <2> QED BY <1>4, <2>4, <2>5 DEF p, x
<1>5. CASE ~(s # <<>> /\ s[Len(s)].t = t)
  <2>1. p = Append(s, x)
    BY <1>2, <1>3, <1>5 DEF Ts!Sampled
  <2> HIDE DEF p, x
  <2>2. p \in Seq(Sample) /\ Len(p) = Len(s) + 1 /\ p[Len(s) + 1] = x /\ \A i \in 1 .. Len(s) : p[i] = s[i]
    BY <1>1, <2>1, AppendProperties
  <2>3. p # <<>>
    BY <1>1, <2>2, EmptySeq
  <2> QED BY <1>5, <2>2, <2>3 DEF p, x
<1> QED BY <1>4, <1>5

LEMMA OldAreFewer ==
  ASSUME NEW s \in Seq(Sample), NEW cut \in Int, NEW old,
         old = {n \in 1 .. Len(s) : \A i \in 1 .. n : s[i].t < cut}
  PROVE  \E c \in 0 .. Len(s) : old = 1 .. c /\ Cardinality(old) = c /\ (c < Len(s) => ~(s[c + 1].t < cut))
<1>1. Len(s) \in Nat
  BY LenProperties
<1> DEFINE T == {n \in Nat : n >= 1 /\ (n > Len(s) \/ ~(s[n].t < cut))}
<1>2. Len(s) + 1 \in T
  BY <1>1
<1>3. PICK n \in T : \A m \in T : n <= m
  <2>1. T \in SUBSET Nat /\ T # {}
    BY <1>2
  <2> HIDE DEF T
  <2> QED BY <2>1, LeastNat
<1>4. n \in Nat /\ n >= 1 /\ n <= Len(s) + 1 /\ \A m \in 1 .. n - 1 : m <= Len(s) /\ s[m].t < cut
  <2>1. n \in Nat /\ n >= 1 /\ n <= Len(s) + 1
    BY <1>2, <1>3
  <2>2. ASSUME NEW m \in 1 .. n - 1 PROVE m <= Len(s) /\ s[m].t < cut
    <3>1. m \notin T
      <4>1. m \in T => n <= m
        BY <1>3
      <4> QED BY <2>1, <4>1
    <3> QED BY <2>1, <3>1
  <2> QED BY <2>1, <2>2
<1>5. n > Len(s) \/ ~(s[n].t < cut)
  BY <1>3
<1> DEFINE c == n - 1
<1>6. c \in 0 .. Len(s) /\ c + 1 = n /\ c \in Nat
  BY <1>1, <1>4
<1>7. old = 1 .. c
  <2>1. ASSUME NEW j \in old PROVE j \in 1 .. c
    <3>1. j \in 1 .. Len(s) /\ \A i \in 1 .. j : s[i].t < cut
      OBVIOUS
    <3>2. n <= j => n \in 1 .. j /\ n <= Len(s)
      BY <1>1, <1>4, <3>1
    <3>3. ~(n <= j)
      BY <1>1, <1>4, <1>5, <3>1, <3>2
    <3> QED BY <1>1, <1>4, <3>1, <3>3
  <2>2. ASSUME NEW j \in 1 .. c PROVE j \in old
    <3>1. j \in 1 .. Len(s) /\ \A i \in 1 .. j : i \in 1 .. n - 1
      BY <1>1, <1>4
    <3> QED BY <1>4, <3>1
  <2> QED BY <2>1, <2>2
<1> HIDE DEF c, T
<1>8. Cardinality(old) = c
  <2>1. Cardinality(1 .. c) = IF 1 > c THEN 0 ELSE c - 1 + 1
    BY <1>6, FS_Interval
  <2>2. (IF 1 > c THEN 0 ELSE c - 1 + 1) = c
    BY <1>6
  <2>3. Cardinality(1 .. c) = c
    BY <2>1, <2>2
  <2> QED BY <1>7, <2>3
<1>9. c < Len(s) => ~(s[c + 1].t < cut)
  BY <1>1, <1>4, <1>5, <1>6 DEF c
<1> QED BY <1>6, <1>7, <1>8, <1>9

LEMMA PurgedIs ==
  ASSUME NEW s \in Seq(Sample), NEW t \in 0 .. MaxTimestamp, NEW r \in Retention \cup {-1}
  PROVE  \E c \in 0 .. Len(s) :
           /\ Ts!Purged(s, t, r) \in Seq(Sample) /\ Len(Ts!Purged(s, t, r)) = Len(s) - c
           /\ \A i \in 1 .. Len(s) - c : Ts!Purged(s, t, r)[i] = s[c + i]
           /\ \A i \in 1 .. c : s[i].t < t - r /\ r # -1
           /\ c < Len(s) => r = -1 \/ ~(s[c + 1].t < t - r)
<1> DEFINE old == {n \in 1 .. Len(s) : \A i \in 1 .. n : s[i].t < t - r}
           p == Ts!Purged(s, t, r)
<1>1. Len(s) \in Nat /\ MaxTimestamp \in Nat /\ r \in Int /\ t - r \in Int
  BY LenProperties, SeriesAssumption
<1>2. p = IF r = -1 THEN s ELSE SubSeq(s, Cardinality(old) + 1, Len(s))
  BY DEF Ts!Purged, Ts!Unlimited, Ts!Cardinality, Cardinality
<1>3. CASE r = -1
  <2> HIDE DEF p
  <2>1. p = s
    BY <1>2, <1>3
  <2>2. 0 \in 0 .. Len(s) /\ Len(p) = Len(s) - 0 /\ \A i \in 1 .. Len(s) - 0 : p[i] = s[0 + i]
    BY <1>1, <2>1
  <2>3. \A i \in 1 .. 0 : s[i].t < t - r /\ r # -1
    OBVIOUS
  <2> QED BY <1>3, <2>1, <2>2, <2>3 DEF p
<1>4. CASE r # -1
  <2>1. PICK c \in 0 .. Len(s) : old = 1 .. c /\ Cardinality(old) = c /\ (c < Len(s) => ~(s[c + 1].t < t - r))
    <3> DEFINE cut == t - r
    <3>1. old = {n \in 1 .. Len(s) : \A i \in 1 .. n : s[i].t < cut} /\ cut \in Int
      BY <1>1
    <3> HIDE DEF old, cut
    <3>2. \E c \in 0 .. Len(s) : old = 1 .. c /\ Cardinality(old) = c /\ (c < Len(s) => ~(s[c + 1].t < cut))
      BY <3>1, OldAreFewer
    <3> QED BY <3>2 DEF cut
  <2>2. p = SubSeq(s, c + 1, Len(s))
    BY <1>2, <1>4, <2>1
  <2>3. \A i \in 1 .. c : i \in old
    BY <2>1
  <2>4. \A i \in 1 .. c : s[i].t < t - r
    <3>1. ASSUME NEW i \in 1 .. c PROVE s[i].t < t - r
      <4>1. i \in old /\ i \in 1 .. i
        BY <1>1, <2>3
      <4> QED BY <4>1
    <3> QED BY <3>1
  <2> HIDE DEF p, old
  <2>5. p \in Seq(Sample) /\ Len(p) = Len(s) - c /\ \A i \in 1 .. Len(s) - c : p[i] = s[c + i]
    <3> DEFINE m == c + 1
               n == Len(s)
    <3>1. m \in Int /\ n \in Int /\ \A i \in m .. n : s[i] \in Sample
      BY <1>1, ElementOfSeq
    <3>2. p = SubSeq(s, m, n)
      BY <2>2
    <3> HIDE DEF m, n
    <3>3. /\ p \in Seq(Sample) /\ Len(p) = IF m <= n THEN n - m + 1 ELSE 0
          /\ \A i \in 1 .. n - m + 1 : p[i] = s[m + i - 1]
      BY <3>1, <3>2, SubSeqProperties
    <3>4. Len(p) = Len(s) - c
      BY <1>1, <3>3 DEF m, n
    <3>5. ASSUME NEW i \in 1 .. Len(s) - c PROVE p[i] = s[c + i]
      <4>1. i \in 1 .. n - m + 1 /\ m + i - 1 = c + i
        BY <1>1 DEF m, n
      <4> QED BY <3>3, <4>1
    <3> QED BY <3>3, <3>4, <3>5
  <2> QED BY <1>4, <2>1, <2>4, <2>5 DEF p
<1> QED BY <1>3, <1>4

(* One rule. *)

WithRule(s, k, i, g) == [s EXCEPT ![k].rules[i] = g]
Works == [kv : SeriesStores, failed : BOOLEAN, key : SeriesKey, t : 0 .. MaxTimestamp, v : Int]
SameWork(a, b) == a.key = b.key /\ a.t = b.t /\ a.v = b.v

LEMMA WithRuleIs ==
  ASSUME NEW s \in SeriesStores, NEW k \in DOMAIN s, NEW i \in DOMAIN s[k].rules, NEW g \in SeriesRule
  PROVE  /\ WithRule(s, k, i, g) \in SeriesStores /\ DOMAIN WithRule(s, k, i, g) = DOMAIN s
         /\ \A x \in DOMAIN s \ {k} : WithRule(s, k, i, g)[x] = s[x]
         /\ WithRule(s, k, i, g)[k].type = s[k].type /\ WithRule(s, k, i, g)[k].samples = s[k].samples
         /\ WithRule(s, k, i, g)[k].retention = s[k].retention
         /\ Len(WithRule(s, k, i, g)[k].rules) = Len(s[k].rules)
         /\ WithRule(s, k, i, g)[k].rules[i] = g
         /\ \A j \in 1 .. Len(s[k].rules) : j # i => WithRule(s, k, i, g)[k].rules[j] = s[k].rules[j]
<1> DEFINE m == WithRule(s, k, i, g)
           e == s[k]
           rs == [e.rules EXCEPT ![i] = g]
           f == [e EXCEPT !.rules = rs]
<1>1. e \in SeriesEntry /\ s = [x \in DOMAIN s |-> s[x]] /\ DOMAIN s \subseteq SeriesKey /\ \A x \in DOMAIN s : s[x] \in SeriesEntry
  BY SeriesStoresAre
<1>2. e.rules \in Seq(SeriesRule)
  BY <1>1 DEF SeriesEntry
<1>3. Len(e.rules) \in Nat /\ DOMAIN e.rules = 1 .. Len(e.rules)
  BY <1>2, LenProperties
<1>4. rs \in Seq(SeriesRule) /\ Len(rs) = Len(e.rules) /\ rs[i] = g /\ \A j \in 1 .. Len(e.rules) : j # i => rs[j] = e.rules[j]
  <2>1. i \in 1 .. Len(e.rules)
    BY <1>3
  <2>2. rs \in Seq(SeriesRule) /\ Len(rs) = Len(e.rules) /\ \A j \in 1 .. Len(e.rules) : rs[j] = IF j = i THEN g ELSE e.rules[j]
    <3> DEFINE q == e.rules
    <3>1. q \in Seq(SeriesRule) /\ i \in 1 .. Len(q) /\ rs = [q EXCEPT ![i] = g]
      BY <1>2, <2>1
    <3> HIDE DEF q, rs
    <3>2. rs \in Seq(SeriesRule) /\ Len(rs) = Len(q) /\ \A j \in 1 .. Len(q) : rs[j] = IF j = i THEN g ELSE q[j]
      BY <3>1, ExceptSeq
    <3> QED BY <3>2 DEF q
  <2> HIDE DEF rs
  <2> QED BY <2>1, <2>2
<1>5. m = [s EXCEPT ![k] = f]
  BY DEF WithRule
<1>6. f \in SeriesEntry /\ f.rules = rs /\ f.type = e.type /\ f.samples = e.samples /\ f.retention = e.retention
  <2> HIDE DEF rs, e
  <2> QED BY <1>1, <1>4 DEF SeriesEntry
<1> HIDE DEF f, m, rs
<1>7. DOMAIN m = DOMAIN s /\ m[k] = f /\ (\A x \in DOMAIN s \ {k} : m[x] = s[x]) /\ m = [x \in DOMAIN m |-> m[x]]
  BY <1>5
<1>8. m \in SeriesStores
  <2>1. ASSUME NEW x \in DOMAIN m PROVE m[x] \in SeriesEntry
    BY <1>1, <1>6, <1>7
  <2> QED BY <1>1, <1>7, <2>1, SeriesStoresAre
<1>9. /\ m \in SeriesStores /\ DOMAIN m = DOMAIN s /\ \A x \in DOMAIN s \ {k} : m[x] = s[x]
      /\ m[k].type = e.type /\ m[k].samples = e.samples /\ m[k].retention = e.retention
      /\ Len(m[k].rules) = Len(e.rules) /\ m[k].rules[i] = g
      /\ \A j \in 1 .. Len(e.rules) : j # i => m[k].rules[j] = e.rules[j]
  BY <1>4, <1>6, <1>7, <1>8
<1> QED BY <1>9 DEF m

LEMMA ToldIs ==
  ASSUME NEW e \in SeriesEntry, NEW r \in SeriesRule, NEW b \in 0 .. MaxTimestamp, b \in DOMAIN r.state
  PROVE  /\ Ts!Told(e, r, b) \in SeriesEntry /\ Ts!Told(e, r, b).type = e.type
         /\ Ts!Told(e, r, b).retention = e.retention /\ Ts!Told(e, r, b).rules = e.rules
         /\ Ts!Told(e, r, b).samples = Ts!Sampled(e.samples, b, Ts!Out(r.agg, r.state[b]))
         /\ Ts!Out(r.agg, r.state[b]) \in Int
<1> DEFINE o == Ts!Out(r.agg, r.state[b])
           q == Ts!Sampled(e.samples, b, o)
<1>1. r.agg \in {"sum", "min", "max"} /\ r.state \in BucketStates /\ e.samples \in Seq(Sample)
  BY DEF SeriesRule, SeriesEntry
<1>2. r.state[b] \in BucketState
  BY <1>1, StatesAre
<1>3. o \in Int
  BY <1>1, <1>2, OutIs
<1>4. q \in Seq(Sample)
  <2> HIDE DEF o
  <2> QED BY <1>1, <1>3, SampledIs
<1>5. Ts!Told(e, r, b) = [e EXCEPT !.samples = q]
  BY DEF Ts!Told
<1> HIDE DEF q
<1>6. [e EXCEPT !.samples = q] \in SeriesEntry
  BY <1>4 DEF SeriesEntry
<1> QED BY <1>3, <1>5, <1>6 DEF SeriesEntry, q

Bucketed(s, k, i, t) == Ts!Start(t, s[k].rules[i].width)
Regathered(s, k, i, t, v) == Ts!Gathering(s[k].rules[i], Bucketed(s, k, i, t), v)
Rewritten(s, k, i, t, v) == WithRule(s, k, i, Regathered(s, k, i, t, v))
Destination(s, k, i, t, v) == Ts!GetOrInit(Rewritten(s, k, i, t, v), s[k].rules[i].dest)
Filled(s, k, i, t, v) ==
  Ts!Put(Rewritten(s, k, i, t, v), s[k].rules[i].dest,
         Ts!Told(Destination(s, k, i, t, v), Regathered(s, k, i, t, v), Bucketed(s, k, i, t)))

LEMMA RulePartsAre ==
  ASSUME NEW s \in SeriesStores, NEW k \in DOMAIN s, NEW i \in DOMAIN s[k].rules,
         NEW t \in 0 .. MaxTimestamp, NEW v \in Int
  PROVE  /\ s[k].rules[i] \in SeriesRule /\ s[k].rules[i].dest \in SeriesKey
         /\ Bucketed(s, k, i, t) \in 0 .. MaxTimestamp /\ Bucketed(s, k, i, t) <= t
         /\ Regathered(s, k, i, t, v) \in SeriesRule
         /\ Regathered(s, k, i, t, v).dest = s[k].rules[i].dest
         /\ Regathered(s, k, i, t, v).agg = s[k].rules[i].agg
         /\ Regathered(s, k, i, t, v).width = s[k].rules[i].width
         /\ Regathered(s, k, i, t, v).since = s[k].rules[i].since
         /\ Bucketed(s, k, i, t) \in DOMAIN Regathered(s, k, i, t, v).state
<1> DEFINE r == s[k].rules[i]
           b == Bucketed(s, k, i, t)
<1>1. r \in SeriesRule
  <2>1. s[k].rules \in Seq(SeriesRule)
    BY SeriesStoresAre DEF SeriesEntry
  <2> QED BY <2>1, ElementOfSeq, LenProperties
<1>2. r.width \in Nat \ {0} /\ r.dest \in SeriesKey
  BY <1>1 DEF SeriesRule
<1>3. t \in Nat /\ MaxTimestamp \in Nat
  BY SeriesAssumption
<1>4. b = Ts!Start(t, r.width)
  BY DEF Bucketed
<1> HIDE DEF r, b
<1>5. b \in 0 .. MaxTimestamp /\ b <= t /\ b \in Nat
  <2>1. Ts!Start(t, r.width) \in Nat /\ Ts!Start(t, r.width) <= t
    BY <1>2, <1>3, StartIs
  <2> QED BY <1>3, <1>4, <2>1
<1>6. Regathered(s, k, i, t, v) = Ts!Gathering(r, b, v)
  BY DEF Regathered, r, b
<1>7. /\ Ts!Gathering(r, b, v) \in SeriesRule
      /\ Ts!Gathering(r, b, v).dest = r.dest /\ Ts!Gathering(r, b, v).agg = r.agg
      /\ Ts!Gathering(r, b, v).width = r.width /\ Ts!Gathering(r, b, v).since = r.since
      /\ DOMAIN Ts!Gathering(r, b, v).state = DOMAIN r.state \cup {b}
  BY <1>1, <1>5, GatheringIs
<1> QED BY <1>1, <1>2, <1>5, <1>6, <1>7 DEF r, b

LEMMA WorkWith ==
  ASSUME NEW acc \in Works, NEW m \in SeriesStores
  PROVE  /\ [acc EXCEPT !.kv = m] \in Works /\ [acc EXCEPT !.kv = m].kv = m /\ [acc EXCEPT !.kv = m].failed = acc.failed
         /\ SameWork([acc EXCEPT !.kv = m], acc)
         /\ [acc EXCEPT !.kv = m, !.failed = TRUE] \in Works /\ [acc EXCEPT !.kv = m, !.failed = TRUE].kv = m
         /\ [acc EXCEPT !.kv = m, !.failed = TRUE].failed
         /\ SameWork([acc EXCEPT !.kv = m, !.failed = TRUE], acc)
<1>1. /\ [acc EXCEPT !.kv = m] \in Works /\ [acc EXCEPT !.kv = m].kv = m /\ [acc EXCEPT !.kv = m].failed = acc.failed
      /\ SameWork([acc EXCEPT !.kv = m], acc)
  BY DEF Works, SameWork
<1>2. [acc EXCEPT !.kv = m, !.failed = TRUE] = [[acc EXCEPT !.kv = m] EXCEPT !.failed = TRUE]
  OBVIOUS
<1> DEFINE q == [acc EXCEPT !.kv = m]
<1>3. /\ [q EXCEPT !.failed = TRUE] \in Works /\ [q EXCEPT !.failed = TRUE].kv = q.kv
      /\ [q EXCEPT !.failed = TRUE].failed /\ SameWork([q EXCEPT !.failed = TRUE], q)
  <2>1. q \in Works
    BY <1>1
  <2> HIDE DEF q
  <2> QED BY <2>1 DEF Works, SameWork
<1> QED BY <1>1, <1>2, <1>3 DEF SameWork

LEMMA ApplyRuleIs ==
  ASSUME NEW acc \in Works, ~acc.failed, acc.key \in DOMAIN acc.kv, NEW i \in DOMAIN acc.kv[acc.key].rules
  PROVE  /\ Ts!ApplyRule(acc, i) \in Works /\ SameWork(Ts!ApplyRule(acc, i), acc)
         /\ IF Destination(acc.kv, acc.key, i, acc.t, acc.v).type # "timeseries"
            THEN Ts!ApplyRule(acc, i).failed /\ Ts!ApplyRule(acc, i).kv = Rewritten(acc.kv, acc.key, i, acc.t, acc.v)
            ELSE ~Ts!ApplyRule(acc, i).failed /\ Ts!ApplyRule(acc, i).kv = Filled(acc.kv, acc.key, i, acc.t, acc.v)
<1> DEFINE s == acc.kv
           k == acc.key
           t == acc.t
           v == acc.v
           m == Rewritten(s, k, i, t, v)
           f == Filled(s, k, i, t, v)
           d == Destination(s, k, i, t, v)
           g == Regathered(s, k, i, t, v)
           b == Bucketed(s, k, i, t)
<1>1. /\ s \in SeriesStores /\ k \in DOMAIN s /\ i \in DOMAIN s[k].rules /\ t \in 0 .. MaxTimestamp /\ v \in Int
  BY DEF Works
<1>2. Ts!ApplyRule(acc, i) = IF d.type # "timeseries" THEN [acc EXCEPT !.kv = m, !.failed = TRUE] ELSE [acc EXCEPT !.kv = f]
  <2>1. g.dest = s[k].rules[i].dest
    BY DEF Regathered, Ts!Gathering
  <2> QED BY <2>1 DEF Ts!ApplyRule, Rewritten, Filled, Destination, Regathered, Bucketed, WithRule
<1> HIDE DEF s, k, t, v, m, f, d, g, b
<1>3. m \in SeriesStores /\ d \in SeriesEntry
  <2>1. g \in SeriesRule
    BY <1>1, RulePartsAre DEF g
  <2>2. WithRule(s, k, i, g) \in SeriesStores
    BY <1>1, <2>1, WithRuleIs
  <2>3. m \in SeriesStores
    BY <2>2 DEF m, g, Rewritten
  <2> QED BY <2>3, SeriesGetIs DEF d, m, Destination
<1>4. f \in SeriesStores
  <2>1. g \in SeriesRule /\ b \in 0 .. MaxTimestamp /\ b \in DOMAIN g.state /\ s[k].rules[i].dest \in SeriesKey
    BY <1>1, RulePartsAre DEF g, b
  <2>2. Ts!Told(d, g, b) \in SeriesEntry
    BY <1>3, <2>1, ToldIs
  <2>3. f = Ts!Put(m, s[k].rules[i].dest, Ts!Told(d, g, b))
    BY DEF f, m, d, g, b, Filled
  <2> QED BY <1>3, <2>1, <2>2, <2>3, SeriesPutIs
<1>5. CASE d.type # "timeseries"
  <2>1. Ts!ApplyRule(acc, i) = [acc EXCEPT !.kv = m, !.failed = TRUE]
    BY <1>2, <1>5
  <2>2. /\ [acc EXCEPT !.kv = m, !.failed = TRUE] \in Works /\ [acc EXCEPT !.kv = m, !.failed = TRUE].kv = m
        /\ [acc EXCEPT !.kv = m, !.failed = TRUE].failed
        /\ SameWork([acc EXCEPT !.kv = m, !.failed = TRUE], acc)
    BY <1>3, WorkWith
  <2> QED BY <1>5, <2>1, <2>2 DEF m, d, s, k, t, v
<1>6. CASE d.type = "timeseries"
  <2>1. Ts!ApplyRule(acc, i) = [acc EXCEPT !.kv = f]
    BY <1>2, <1>6
  <2>2. /\ [acc EXCEPT !.kv = f] \in Works /\ [acc EXCEPT !.kv = f].kv = f /\ [acc EXCEPT !.kv = f].failed = acc.failed
        /\ SameWork([acc EXCEPT !.kv = f], acc)
    BY <1>4, WorkWith
  <2> QED BY <1>6, <2>1, <2>2 DEF f, d, s, k, t, v
<1> QED BY <1>5, <1>6

(* All rules of a series, one after the other. *)

LEMMA ApplyRulesAre ==
  ASSUME NEW m, NEW k, NEW t, NEW v
  PROVE  Ts!ApplyRules(m, k, t, v)
           = Applying!Fold([kv |-> m, failed |-> FALSE, key |-> k, t |-> t, v |-> v], [i \in DOMAIN m[k].rules |-> i])
BY DEF Ts!ApplyRules, Ts!FoldLeft, Ts!MapThenFoldSet, Ts!Max, Applying!Fold, Applying!Folds, Applying!Highest

Worked(acc, m, k, t, v) ==
  /\ acc \in Works /\ acc.key = k /\ acc.t = t /\ acc.v = v /\ k \in DOMAIN acc.kv
  /\ Len(acc.kv[k].rules) = Len(m[k].rules)
  /\ NoTexts(m) => ~acc.failed /\ NoTexts(acc.kv)

LEMMA FilledIs ==
  ASSUME NEW s \in SeriesStores, NEW k \in DOMAIN s, NEW i \in DOMAIN s[k].rules,
         NEW t \in 0 .. MaxTimestamp, NEW v \in Int
  PROVE  /\ Filled(s, k, i, t, v) \in SeriesStores
         /\ \A x : x \in DOMAIN Filled(s, k, i, t, v) <=> x \in DOMAIN s \/ x = s[k].rules[i].dest
         /\ \A x \in DOMAIN s : x # s[k].rules[i].dest => Filled(s, k, i, t, v)[x] = Rewritten(s, k, i, t, v)[x]
         /\ Filled(s, k, i, t, v)[s[k].rules[i].dest]
              = Ts!Told(Destination(s, k, i, t, v), Regathered(s, k, i, t, v), Bucketed(s, k, i, t))
         /\ Filled(s, k, i, t, v)[s[k].rules[i].dest].type = Destination(s, k, i, t, v).type
         /\ Filled(s, k, i, t, v)[s[k].rules[i].dest].rules = Destination(s, k, i, t, v).rules
<1> DEFINE m == Rewritten(s, k, i, t, v)
           f == Filled(s, k, i, t, v)
           d == Destination(s, k, i, t, v)
           g == Regathered(s, k, i, t, v)
           b == Bucketed(s, k, i, t)
           y == s[k].rules[i].dest
<1>1. g \in SeriesRule /\ b \in 0 .. MaxTimestamp /\ b \in DOMAIN g.state /\ y \in SeriesKey
  BY RulePartsAre
<1>2. m = WithRule(s, k, i, g) /\ d = Ts!GetOrInit(m, y) /\ f = Ts!Put(m, y, Ts!Told(d, g, b))
  BY DEF Rewritten, Destination, Filled
<1> HIDE DEF m, f, d, g, b, y
<1>3. m \in SeriesStores /\ DOMAIN m = DOMAIN s
  BY <1>1, <1>2, WithRuleIs
<1>4. d \in SeriesEntry
  BY <1>2, <1>3, SeriesGetIs
<1>5. Ts!Told(d, g, b) \in SeriesEntry /\ Ts!Told(d, g, b).type = d.type /\ Ts!Told(d, g, b).rules = d.rules
  BY <1>1, <1>4, ToldIs
<1>6. /\ f \in SeriesStores /\ DOMAIN f = DOMAIN m \cup {y} /\ f[y] = Ts!Told(d, g, b)
      /\ \A x \in DOMAIN m \ {y} : f[x] = m[x]
  BY <1>1, <1>2, <1>3, <1>5, SeriesPutIs
<1> QED BY <1>3, <1>5, <1>6 DEF m, f, d, g, b, y

LEMMA RewrittenIs ==
  ASSUME NEW s \in SeriesStores, NEW k \in DOMAIN s, NEW i \in DOMAIN s[k].rules,
         NEW t \in 0 .. MaxTimestamp, NEW v \in Int
  PROVE  /\ Rewritten(s, k, i, t, v) \in SeriesStores /\ DOMAIN Rewritten(s, k, i, t, v) = DOMAIN s
         /\ \A x \in DOMAIN s \ {k} : Rewritten(s, k, i, t, v)[x] = s[x]
         /\ Rewritten(s, k, i, t, v)[k].type = s[k].type /\ Rewritten(s, k, i, t, v)[k].samples = s[k].samples
         /\ Rewritten(s, k, i, t, v)[k].retention = s[k].retention
         /\ Len(Rewritten(s, k, i, t, v)[k].rules) = Len(s[k].rules)
         /\ Rewritten(s, k, i, t, v)[k].rules[i] = Regathered(s, k, i, t, v)
         /\ \A j \in 1 .. Len(s[k].rules) : j # i => Rewritten(s, k, i, t, v)[k].rules[j] = s[k].rules[j]
<1> DEFINE g == Regathered(s, k, i, t, v)
<1>1. g \in SeriesRule
  BY RulePartsAre
<1> HIDE DEF g
<1>2. Rewritten(s, k, i, t, v) = WithRule(s, k, i, g)
  BY DEF Rewritten, g
<1>3. /\ WithRule(s, k, i, g) \in SeriesStores /\ DOMAIN WithRule(s, k, i, g) = DOMAIN s
      /\ \A x \in DOMAIN s \ {k} : WithRule(s, k, i, g)[x] = s[x]
      /\ WithRule(s, k, i, g)[k].type = s[k].type /\ WithRule(s, k, i, g)[k].samples = s[k].samples
      /\ WithRule(s, k, i, g)[k].retention = s[k].retention
      /\ Len(WithRule(s, k, i, g)[k].rules) = Len(s[k].rules)
      /\ WithRule(s, k, i, g)[k].rules[i] = g
      /\ \A j \in 1 .. Len(s[k].rules) : j # i => WithRule(s, k, i, g)[k].rules[j] = s[k].rules[j]
  BY <1>1, WithRuleIs
<1> QED BY <1>2, <1>3 DEF g

LEMMA WorksOn ==
  ASSUME NEW m, NEW k, NEW t, NEW v, NEW acc, Worked(acc, m, k, t, v), NEW i \in 1 .. Len(m[k].rules)
  PROVE  Worked(Ts!ApplyRule(acc, i), m, k, t, v)
<1> DEFINE s == acc.kv
           p == Ts!ApplyRule(acc, i)
           r == Rewritten(s, k, i, t, v)
           f == Filled(s, k, i, t, v)
           d == Destination(s, k, i, t, v)
           y == s[k].rules[i].dest
<1>1. CASE acc.failed
  <2>1. p = acc
    BY <1>1 DEF Ts!ApplyRule
  <2> QED BY <2>1
<1>2. CASE ~acc.failed
  <2>1. /\ acc \in Works /\ acc.key = k /\ acc.t = t /\ acc.v = v /\ k \in DOMAIN s /\ s \in SeriesStores
        /\ t \in 0 .. MaxTimestamp /\ v \in Int /\ Len(s[k].rules) = Len(m[k].rules) /\ (NoTexts(m) => NoTexts(s))
    BY DEF Worked, Works
  <2>2. i \in DOMAIN s[k].rules
    <3>1. s[k].rules \in Seq(SeriesRule)
      BY <2>1, SeriesStoresAre DEF SeriesEntry
    <3>2. DOMAIN s[k].rules = 1 .. Len(s[k].rules)
      BY <3>1, LenProperties
    <3> QED BY <2>1, <3>2
  <2>3. /\ p \in Works /\ SameWork(p, acc)
        /\ IF d.type # "timeseries" THEN p.failed /\ p.kv = r ELSE ~p.failed /\ p.kv = f
    BY <1>2, <2>1, <2>2, ApplyRuleIs
  <2> HIDE DEF p
  <2>4. /\ r \in SeriesStores /\ DOMAIN r = DOMAIN s /\ (\A x \in DOMAIN s \ {k} : r[x] = s[x])
        /\ r[k].type = s[k].type /\ Len(r[k].rules) = Len(s[k].rules)
    BY <2>1, <2>2, RewrittenIs
  <2>5. NoTexts(m) => NoTexts(r)
    BY <2>1, <2>4 DEF NoTexts
  <2>6. d = Ts!GetOrInit(r, y)
    BY DEF Destination
  <2> HIDE DEF r, d
  <2>7. NoTexts(m) => d.type = "timeseries"
    BY <2>4, <2>5, <2>6, SeriesGetIs
  <2>8. CASE d.type # "timeseries"
    BY <2>1, <2>3, <2>4, <2>7, <2>8 DEF Worked, SameWork, p
  <2>9. CASE d.type = "timeseries"
    <3>1. /\ f \in SeriesStores /\ (\A x : x \in DOMAIN f <=> x \in DOMAIN s \/ x = y)
          /\ \A x \in DOMAIN s : x # y => f[x] = r[x]
          /\ f[y].type = d.type /\ f[y].rules = d.rules
      BY <2>1, <2>2, FilledIs DEF r, d
    <3> HIDE DEF f
    <3>2. Len(f[k].rules) = Len(s[k].rules)
      <4>1. CASE y = k
        <5>1. d = r[k]
          BY <2>1, <2>4, <2>6, <4>1, SeriesGetIs
        <5> QED BY <2>4, <3>1, <4>1, <5>1
      <4>2. CASE y # k
        BY <2>1, <2>4, <3>1, <4>2
      <4> QED BY <4>1, <4>2
    <3>3. NoTexts(m) => NoTexts(f)
      <4> SUFFICES ASSUME NoTexts(m), NEW x \in DOMAIN f PROVE f[x].type = "timeseries"
        BY DEF NoTexts
      <4>1. NoTexts(r)
        BY <2>5
      <4> HIDE DEF y
      <4> QED BY <2>4, <2>9, <3>1, <4>1 DEF NoTexts
    <3> QED BY <2>1, <2>3, <2>9, <3>1, <3>2, <3>3 DEF Worked, SameWork, p
  <2> QED BY <2>8, <2>9
<1> QED BY <1>1, <1>2

LEMMA RulesWork ==
  ASSUME NEW m \in SeriesStores, NEW k \in DOMAIN m, NEW t \in 0 .. MaxTimestamp, NEW v \in Int
  PROVE  Worked(Ts!ApplyRules(m, k, t, v), m, k, t, v)
<1> DEFINE n == Len(m[k].rules)
           is == [i \in DOMAIN m[k].rules |-> i]
           base == [kv |-> m, failed |-> FALSE, key |-> k, t |-> t, v |-> v]
           S == [i \in 0 .. n |-> {acc \in Works : Worked(acc, m, k, t, v)}]
<1>1. k \in SeriesKey /\ m[k].rules \in Seq(SeriesRule)
  BY SeriesStoresAre DEF SeriesEntry
<1>2. n \in Nat /\ DOMAIN m[k].rules = 1 .. n
  BY <1>1, LenProperties
<1>3. DOMAIN is = 1 .. n /\ \A i \in 1 .. n : is[i] = i
  BY <1>2
<1>4. Worked(base, m, k, t, v)
  BY <1>1 DEF Worked, Works
<1>5. \A i \in 0 .. n : \A acc : acc \in S[i] <=> Worked(acc, m, k, t, v)
  BY DEF Worked
<1> HIDE DEF is, base, S
<1>6. base \in S[0]
  BY <1>2, <1>4, <1>5
<1>7. ASSUME NEW i \in 1 .. n, NEW acc \in S[i - 1] PROVE Ts!ApplyRule(acc, is[i]) \in S[i]
  <2>1. i - 1 \in 0 .. n /\ i \in 0 .. n
    BY <1>2
  <2>2. Worked(acc, m, k, t, v)
    BY <1>5, <2>1
  <2>3. Worked(Ts!ApplyRule(acc, i), m, k, t, v)
    BY <2>2, WorksOn
  <2> QED BY <1>3, <1>5, <2>1, <2>3
<1> HIDE DEF n
<1>8. Applying!Fold(base, is) \in S[n]
  BY <1>2, <1>3, <1>6, <1>7, LeastNat, Applying!FoldKeeps DEF Applying!NatsHaveLeast
<1>9. Worked(Applying!Fold(base, is), m, k, t, v)
  BY <1>2, <1>5, <1>8
<1> QED BY <1>9, ApplyRulesAre DEF base, is

(* The rules that stay are some of those that were, in their order. *)

Keeping == INSTANCE Folding WITH Step <- Ts!Kept

SomeOf(r, rs, n, g) ==
  /\ g \in [1 .. Len(r) -> 1 .. n] /\ \A a \in 1 .. Len(r) : r[a] = rs[g[a]]
  /\ \A a, b \in 1 .. Len(r) : a < b => g[a] < g[b]

KeptUpTo(acc, rs, n, d) ==
  /\ acc.dest = d /\ acc.rules \in Seq(SeriesRule) /\ \A a \in 1 .. Len(acc.rules) : acc.rules[a].dest # d
  /\ \E g : SomeOf(acc.rules, rs, n, g)

LEMMA KeptOneMore ==
  ASSUME NEW rs \in Seq(SeriesRule), NEW n \in 1 .. Len(rs), NEW d,
         NEW acc \in [dest : {d}, rules : Seq(SeriesRule)], KeptUpTo(acc, rs, n - 1, d)
  PROVE  Ts!Kept(acc, rs[n]) \in [dest : {d}, rules : Seq(SeriesRule)] /\ KeptUpTo(Ts!Kept(acc, rs[n]), rs, n, d)
<1> DEFINE r == acc.rules
           x == rs[n]
           l == Len(r) + 1
           q == Append(r, x)
<1>1. r \in Seq(SeriesRule) /\ x \in SeriesRule /\ acc.dest = d /\ Len(r) \in Nat /\ Len(rs) \in Nat
  BY ElementOfSeq, LenProperties DEF KeptUpTo
<1>2. PICK g : SomeOf(r, rs, n - 1, g)
  BY DEF KeptUpTo
<1>3. \A a \in 1 .. Len(r) : r[a].dest # d
  BY DEF KeptUpTo
<1>4. CASE x.dest = d
  <2>1. Ts!Kept(acc, x) = acc
    BY <1>1, <1>4 DEF Ts!Kept
  <2>2. SomeOf(r, rs, n, g)
    <3> HIDE DEF r
    <3>1. g \in [1 .. Len(r) -> 1 .. n - 1] /\ 1 .. n - 1 \subseteq 1 .. n
      BY <1>1, <1>2 DEF SomeOf
    <3>2. g \in [1 .. Len(r) -> 1 .. n]
      BY <3>1
    <3> QED BY <1>2, <3>2 DEF SomeOf
  <2> QED BY <1>1, <1>3, <2>1, <2>2 DEF KeptUpTo
<1>5. CASE x.dest # d
  <2>1. Ts!Kept(acc, x) = [acc EXCEPT !.rules = q]
    BY <1>1, <1>5 DEF Ts!Kept
  <2>2. q \in Seq(SeriesRule) /\ Len(q) = l /\ q[l] = x /\ \A a \in 1 .. Len(r) : q[a] = r[a]
    BY <1>1, AppendProperties
  <2> HIDE DEF q
  <2>3. /\ [acc EXCEPT !.rules = q] \in [dest : {d}, rules : Seq(SeriesRule)]
        /\ [acc EXCEPT !.rules = q].dest = d /\ [acc EXCEPT !.rules = q].rules = q
    BY <2>2
  <2>4. \A a \in 1 .. Len(q) : q[a].dest # d
    BY <1>1, <1>3, <1>5, <2>2
  <2> DEFINE h == [a \in 1 .. l |-> IF a = l THEN n ELSE g[a]]
  <2> HIDE DEF r, x
  <2>5. \A a \in 1 .. Len(r) : g[a] \in 1 .. n - 1 /\ r[a] = rs[g[a]] /\ \A b \in 1 .. Len(r) : a < b => g[a] < g[b]
    BY <1>2 DEF SomeOf
  <2>6. h \in [1 .. l -> 1 .. n]
    BY <1>1, <2>5
  <2>7. \A a \in 1 .. l : q[a] = rs[h[a]]
    <3>1. ASSUME NEW a \in 1 .. l PROVE q[a] = rs[h[a]]
      <4>1. CASE a = l
        BY <2>2, <4>1 DEF x
      <4>2. CASE a # l
        <5>1. a \in 1 .. Len(r) /\ h[a] = g[a]
          BY <1>1, <4>2
        <5> QED BY <2>2, <2>5, <5>1
      <4> QED BY <4>1, <4>2
    <3> QED BY <3>1
  <2>8. \A a, b \in 1 .. l : a < b => h[a] < h[b]
    <3>1. ASSUME NEW a \in 1 .. l, NEW b \in 1 .. l, a < b PROVE h[a] < h[b]
      <4>1. a \in 1 .. Len(r) /\ h[a] = g[a] /\ g[a] \in 1 .. n - 1
        BY <1>1, <2>5, <3>1
      <4>2. CASE b = l
        BY <4>1, <4>2
      <4>3. CASE b # l
        <5>1. b \in 1 .. Len(r) /\ h[b] = g[b]
          BY <1>1, <4>3
        <5> QED BY <2>5, <3>1, <4>1, <5>1
      <4> QED BY <4>2, <4>3
    <3> QED BY <3>1
  <2> HIDE DEF h
  <2>9. SomeOf(q, rs, n, h)
    BY <2>2, <2>6, <2>7, <2>8 DEF SomeOf
  <2> QED BY <2>1, <2>2, <2>3, <2>4, <2>9 DEF KeptUpTo, x
<1> QED BY <1>4, <1>5

LEMMA RulesToOthersAre ==
  ASSUME NEW rs \in Seq(SeriesRule), NEW d
  PROVE  /\ Ts!RulesToOthers(rs, d) \in Seq(SeriesRule)
         /\ \A a \in 1 .. Len(Ts!RulesToOthers(rs, d)) : Ts!RulesToOthers(rs, d)[a].dest # d
         /\ \E g : SomeOf(Ts!RulesToOthers(rs, d), rs, Len(rs), g)
<1> DEFINE n == Len(rs)
           base == [dest |-> d, rules |-> <<>>]
           R == [dest : {d}, rules : Seq(SeriesRule)]
           S == [i \in 0 .. n |-> {acc \in R : KeptUpTo(acc, rs, i, d)}]
<1>1. n \in Nat /\ DOMAIN rs = 1 .. n
  BY LenProperties
<1>2. \A i \in 0 .. n : \A acc : acc \in S[i] <=> acc \in R /\ KeptUpTo(acc, rs, i, d)
  OBVIOUS
<1>3. base \in R /\ KeptUpTo(base, rs, 0, d)
  <2>1. <<>> \in Seq(SeriesRule) /\ Len(<<>>) = 0
    BY EmptySeq
  <2>2. base.rules = <<>> /\ base.dest = d
    OBVIOUS
  <2>3. SomeOf(<<>>, rs, 0, <<>>)
    <3>1. 1 .. 0 = {} /\ <<>> \in [1 .. 0 -> 1 .. 0]
      OBVIOUS
    <3> QED BY <2>1, <3>1 DEF SomeOf
  <2>4. base \in R
    BY <2>1
  <2> HIDE DEF base
  <2> QED BY <2>1, <2>2, <2>3, <2>4 DEF KeptUpTo
<1> HIDE DEF base, R, S
<1>4. base \in S[0]
  BY <1>1, <1>2, <1>3
<1>5. ASSUME NEW i \in 1 .. n, NEW acc \in S[i - 1] PROVE Ts!Kept(acc, rs[i]) \in S[i]
  <2>1. i - 1 \in 0 .. n /\ i \in 0 .. n
    BY <1>1
  <2>2. acc \in R /\ KeptUpTo(acc, rs, i - 1, d)
    BY <1>2, <2>1
  <2>3. Ts!Kept(acc, rs[i]) \in R /\ KeptUpTo(Ts!Kept(acc, rs[i]), rs, i, d)
    BY <2>2, KeptOneMore DEF R
  <2> QED BY <1>2, <2>1, <2>3
<1> HIDE DEF n
<1>6. Keeping!Fold(base, rs) \in S[n]
  BY <1>1, <1>4, <1>5, LeastNat, Keeping!FoldKeeps DEF Keeping!NatsHaveLeast
<1>7. KeptUpTo(Keeping!Fold(base, rs), rs, n, d)
  BY <1>1, <1>2, <1>6
<1>8. Ts!RulesToOthers(rs, d) = Keeping!Fold(base, rs).rules
  BY DEF Ts!RulesToOthers, Ts!FoldLeft, Ts!MapThenFoldSet, Ts!Max, Keeping!Fold, Keeping!Folds, Keeping!Highest, base
<1> HIDE DEF base
<1> QED BY <1>7, <1>8 DEF KeptUpTo, n

(* The buckets of samples: what a bucket holds once one more sample has come. *)

Gathering == INSTANCE Folding WITH Step <- Ts!Gathered

BucketBase(b, w) == [bucket |-> b, width |-> w, state |-> Ts!NoState]
BucketWorks(b, w) == [bucket : {b}, width : {w}, state : BucketState]

LEMMA BucketIsFold ==
  ASSUME NEW s, NEW b, NEW w PROVE Ts!Bucket(s, b, w) = Gathering!Fold(BucketBase(b, w), s).state
BY DEF Ts!Bucket, Ts!FoldLeft, Ts!MapThenFoldSet, Ts!Max, Gathering!Fold, Gathering!Folds, Gathering!Highest, BucketBase

LEMMA GatheredIs ==
  ASSUME NEW b, NEW w, NEW acc \in BucketWorks(b, w), NEW x \in Sample
  PROVE  /\ Ts!Gathered(acc, x) \in BucketWorks(b, w)
         /\ Ts!Gathered(acc, x).state = IF Ts!Start(x.t, w) = b THEN Ts!With(acc.state, x.v) ELSE acc.state
<1>1. acc.bucket = b /\ acc.width = w /\ acc.state \in BucketState /\ x.v \in Int
  BY DEF BucketWorks, Sample
<1> DEFINE st == Ts!With(acc.state, x.v)
<1>2. st \in BucketState
  BY <1>1, WithIsState
<1>3. Ts!Gathered(acc, x) = IF Ts!Start(x.t, w) = b THEN [acc EXCEPT !.state = st] ELSE acc
  BY <1>1 DEF Ts!Gathered
<1> HIDE DEF st
<1>4. [acc EXCEPT !.state = st] \in BucketWorks(b, w) /\ [acc EXCEPT !.state = st].state = st
  BY <1>2 DEF BucketWorks
<1> QED BY <1>3, <1>4 DEF st

LEMMA BucketFoldIs ==
  ASSUME NEW s \in Seq(Sample), NEW b, NEW w
  PROVE  Gathering!Fold(BucketBase(b, w), s) \in BucketWorks(b, w)
<1> DEFINE n == Len(s)
           S == [i \in 0 .. n |-> BucketWorks(b, w)]
<1>1. n \in Nat /\ DOMAIN s = 1 .. n /\ \A i \in 1 .. n : s[i] \in Sample
  BY LenProperties, ElementOfSeq
<1>2. \A i \in 0 .. n : S[i] = BucketWorks(b, w)
  OBVIOUS
<1> HIDE DEF n, S
<1>3. BucketBase(b, w) \in S[0]
  <2>1. BucketBase(b, w) \in BucketWorks(b, w)
    BY NoStateIs DEF BucketBase, BucketWorks
  <2> QED BY <1>1, <1>2, <2>1
<1>4. ASSUME NEW i \in 1 .. n, NEW acc \in S[i - 1] PROVE Ts!Gathered(acc, s[i]) \in S[i]
  <2>1. i - 1 \in 0 .. n /\ i \in 0 .. n
    BY <1>1
  <2> QED BY <1>1, <1>2, <2>1, GatheredIs
<1>5. Gathering!Fold(BucketBase(b, w), s) \in S[n]
  BY <1>1, <1>3, <1>4, LeastNat, Gathering!FoldKeeps DEF Gathering!NatsHaveLeast
<1> QED BY <1>1, <1>2, <1>5

LEMMA BucketWithOneMore ==
  ASSUME NEW s \in Seq(Sample), NEW x \in Sample, NEW b, NEW w
  PROVE  /\ Ts!Bucket(s, b, w) \in BucketState
         /\ Ts!Bucket(Append(s, x), b, w)
              = IF Ts!Start(x.t, w) = b THEN Ts!With(Ts!Bucket(s, b, w), x.v) ELSE Ts!Bucket(s, b, w)
<1> DEFINE n == Len(s)
           q == Append(s, x)
           f == Gathering!Fold(BucketBase(b, w), s)
<1>1. n \in Nat /\ DOMAIN s = 1 .. n /\ q \in Seq(Sample) /\ Len(q) = n + 1 /\ q[n + 1] = x /\ \A i \in 1 .. n : q[i] = s[i]
  BY LenProperties, AppendProperties
<1>2. DOMAIN q = 1 .. n + 1
  BY <1>1, LenProperties
<1> HIDE DEF n, q
<1>3. Gathering!Fold(BucketBase(b, w), q) = Ts!Gathered(f, x)
  <2>1. \A i \in 1 .. n : s[i] = q[i]
    BY <1>1
  <2>2. Gathering!Fold(BucketBase(b, w), q) = Ts!Gathered(Gathering!Fold(BucketBase(b, w), s), q[n + 1])
    BY <1>1, <1>2, <2>1, LeastNat, Gathering!FoldAppended DEF Gathering!NatsHaveLeast
  <2> QED BY <1>1, <2>2
<1>4. f \in BucketWorks(b, w)
  BY BucketFoldIs
<1> HIDE DEF f
<1>5. f.state \in BucketState /\ Ts!Gathered(f, x).state = IF Ts!Start(x.t, w) = b THEN Ts!With(f.state, x.v) ELSE f.state
  <2>1. f.state \in BucketState
    BY <1>4 DEF BucketWorks
  <2> QED BY <1>4, <2>1, GatheredIs
<1>6. Ts!Bucket(s, b, w) = f.state /\ Ts!Bucket(q, b, w) = Ts!Gathered(f, x).state
  BY <1>3, BucketIsFold DEF f
<1> QED BY <1>5, <1>6 DEF q

LEMMA BucketOfNothing == ASSUME NEW b, NEW w PROVE Ts!Bucket(<<>>, b, w) = Ts!NoState
<1>1. DOMAIN <<>> = 1 .. 0
  OBVIOUS
<1>2. Gathering!Fold(BucketBase(b, w), <<>>) = BucketBase(b, w)
  BY <1>1, LeastNat, Gathering!FoldEmpty DEF Gathering!NatsHaveLeast
<1>3. BucketBase(b, w).state = Ts!NoState
  BY DEF BucketBase
<1> QED BY <1>2, <1>3, BucketIsFold

(* The starts of buckets in order: the n-th has n - 1 before it. *)

RankOf(S, b) == Cardinality({a \in S : a < b})
Ranked(S) == IsFiniteSet(S) /\ S \subseteq Nat /\ \A n \in 1 .. Cardinality(S) : \E b \in S : RankOf(S, b) = n - 1

LEMMA RankIsNat ==
  ASSUME NEW S, IsFiniteSet(S), NEW b
  PROVE  IsFiniteSet({a \in S : a < b}) /\ RankOf(S, b) \in Nat
<1> DEFINE A == {a \in S : a < b}
<1>1. A \subseteq S
  OBVIOUS
<1> HIDE DEF A
<1>2. IsFiniteSet(A) /\ Cardinality(A) \in Nat
  BY <1>1, FS_Subset, FS_CardinalityType
<1> QED BY <1>2 DEF RankOf, A

LEMMA RankRises ==
  ASSUME NEW S, IsFiniteSet(S), S \subseteq Nat, NEW a \in S, NEW b \in S, a < b
  PROVE  RankOf(S, a) < RankOf(S, b)
<1> DEFINE A == {c \in S : c < a}
           B == {c \in S : c < b}
<1>1. a \in Nat /\ b \in Nat
  OBVIOUS
<1>2. A \subseteq B \ {a} /\ a \in B
  <2>1. ASSUME NEW c \in A PROVE c \in B \ {a}
    <3>1. c \in Nat /\ c \in S /\ c < a
      OBVIOUS
    <3>2. c < b /\ c # a
      BY <1>1, <3>1
    <3> QED BY <3>1, <3>2
  <2> QED BY <1>1, <2>1
<1>3. IsFiniteSet(B)
  BY RankIsNat
<1>4. RankOf(S, a) = Cardinality(A) /\ RankOf(S, b) = Cardinality(B)
  BY DEF RankOf
<1> HIDE DEF A, B
<1>5. IsFiniteSet(B \ {a}) /\ Cardinality(B \ {a}) = Cardinality(B) - 1 /\ Cardinality(B) \in Nat
  BY <1>2, <1>3, FS_RemoveElement, FS_CardinalityType
<1> DEFINE C == B \ {a}
<1>6. Cardinality(A) <= Cardinality(C) /\ Cardinality(A) \in Nat
  <2>1. IsFiniteSet(C) /\ A \in SUBSET C
    BY <1>2, <1>5
  <2> HIDE DEF C
  <2>2. IsFiniteSet(A) /\ Cardinality(A) <= Cardinality(C)
    BY <2>1, FS_Subset
  <2> QED BY <2>2, FS_CardinalityType
<1> QED BY <1>4, <1>5, <1>6

LEMMA NthOf ==
  ASSUME NEW S, IsFiniteSet(S), S \subseteq Nat, NEW n \in Nat, NEW b \in S, RankOf(S, b) = n - 1
  PROVE  Ts!Nth(S, n) = b
<1>1. \A c \in S : RankOf(S, c) = n - 1 => c = b
  <2> SUFFICES ASSUME NEW c \in S, RankOf(S, c) = n - 1 PROVE c = b
    OBVIOUS
  <2>1. c \in Nat /\ b \in Nat
    OBVIOUS
  <2>2. ~(b < c)
    <3>1. b < c => RankOf(S, b) < RankOf(S, c)
      BY RankRises
    <3> QED BY <3>1
  <2>3. ~(c < b)
    <3>1. c < b => RankOf(S, c) < RankOf(S, b)
      BY RankRises
    <3> QED BY <3>1
  <2> QED BY <2>1, <2>2, <2>3
<1>2. Ts!Nth(S, n) = CHOOSE c \in S : RankOf(S, c) = n - 1
  BY DEF Ts!Nth, RankOf, Ts!Cardinality, Cardinality
<1> QED BY <1>1, <1>2

LEMMA NthIs ==
  ASSUME NEW S, Ranked(S), NEW n \in 1 .. Cardinality(S)
  PROVE  Ts!Nth(S, n) \in S /\ RankOf(S, Ts!Nth(S, n)) = n - 1
<1>1. PICK b \in S : RankOf(S, b) = n - 1
  BY DEF Ranked
<1>2. n \in Nat /\ IsFiniteSet(S) /\ S \subseteq Nat
  BY DEF Ranked
<1>3. Ts!Nth(S, n) = b
  BY <1>1, <1>2, NthOf
<1> QED BY <1>1, <1>3

LEMMA NothingRanked == Ranked({}) /\ Cardinality({}) = 0
<1>1. IsFiniteSet({}) /\ Cardinality({}) = 0
  BY FS_EmptySet
<1>2. 1 .. 0 = {}
  OBVIOUS
<1> QED BY <1>1, <1>2 DEF Ranked

LEMMA RankedGrows ==
  ASSUME NEW S, Ranked(S), NEW b \in Nat, \A a \in S : a <= b, NEW T, T = S \cup {b}
  PROVE  /\ Ranked(T) /\ Cardinality(S) \in Nat
         /\ Cardinality(T) = IF b \in S THEN Cardinality(S) ELSE Cardinality(S) + 1
         /\ Ts!Nth(T, Cardinality(T)) = b
         /\ \A n \in 1 .. Cardinality(S) : n < Cardinality(T) => Ts!Nth(T, n) = Ts!Nth(S, n) /\ Ts!Nth(S, n) # b
<1> DEFINE c == Cardinality(S)
<1>1. IsFiniteSet(S) /\ S \subseteq Nat /\ c \in Nat
  BY FS_CardinalityType DEF Ranked
<1>2. CASE b \in S
  <2>1. T = S
    BY <1>2
  <2>2. RankOf(S, b) = c - 1
    <3>1. {a \in S : a < b} = S \ {b}
      <4>1. \A a \in S : a \in Nat /\ (a < b <=> a # b)
        BY <1>1
      <4> QED BY <4>1
    <3> DEFINE U == {a \in S : a < b}
    <3>2. U = S \ {b} /\ RankOf(S, b) = Cardinality(U)
      BY <3>1 DEF RankOf
    <3> HIDE DEF U
    <3>3. Cardinality(S \ {b}) = Cardinality(S) - 1
      BY <1>1, <1>2, FS_RemoveElement
    <3> QED BY <3>2, <3>3
  <2> HIDE DEF c
  <2>3. Ts!Nth(S, c) = b
    BY <1>1, <1>2, <2>2, NthOf
  <2>4. ASSUME NEW n \in 1 .. c, n < c PROVE Ts!Nth(S, n) # b
    <3>1. RankOf(S, Ts!Nth(S, n)) = n - 1
      BY NthIs DEF c
    <3> QED BY <1>1, <2>2, <2>4, <3>1
  <2> QED BY <1>1, <1>2, <2>1, <2>3, <2>4 DEF c
<1>3. CASE b \notin S
  <2>1. IsFiniteSet(T) /\ Cardinality(T) = c + 1 /\ T \subseteq Nat /\ b \in T /\ S \subseteq T
    BY <1>1, <1>3, FS_AddElement
  <2>2. ASSUME NEW x \in S PROVE RankOf(T, x) = RankOf(S, x) /\ x # b
    <3>1. x \in Nat /\ x <= b /\ x # b
      BY <1>1, <1>3
    <3>2. {a \in T : a < x} = {a \in S : a < x}
      BY <1>1, <3>1
    <3> QED BY <3>1, <3>2 DEF RankOf
  <2>3. RankOf(T, b) = c
    <3>1. {a \in T : a < b} = S
      <4>1. (\A a \in S : a < b) /\ ~(b < b)
        BY <1>1, <1>3
      <4> QED BY <4>1
    <3> QED BY <3>1 DEF RankOf
  <2> HIDE DEF c
  <2>4. Ts!Nth(T, c + 1) = b
    <3> DEFINE n == c + 1
    <3>1. n \in Nat /\ RankOf(T, b) = n - 1
      BY <1>1, <2>3
    <3> HIDE DEF n
    <3>2. Ts!Nth(T, n) = b
      BY <2>1, <3>1, NthOf
    <3> QED BY <3>2 DEF n
  <2>5. ASSUME NEW n \in 1 .. c
        PROVE  Ts!Nth(T, n) = Ts!Nth(S, n) /\ Ts!Nth(S, n) # b /\ \E x \in T : RankOf(T, x) = n - 1
    <3>1. Ts!Nth(S, n) \in S /\ RankOf(S, Ts!Nth(S, n)) = n - 1
      BY NthIs DEF c
    <3>2. Ts!Nth(S, n) \in T /\ RankOf(T, Ts!Nth(S, n)) = n - 1 /\ Ts!Nth(S, n) # b
      BY <2>1, <2>2, <3>1
    <3>3. n \in Nat
      BY <1>1
    <3>4. Ts!Nth(T, n) = Ts!Nth(S, n)
      BY <2>1, <3>2, <3>3, NthOf
    <3> QED BY <3>2, <3>4
  <2>6. Ranked(T)
    <3>1. ASSUME NEW n \in 1 .. c + 1 PROVE \E x \in T : RankOf(T, x) = n - 1
      <4>1. CASE n = c + 1
        BY <1>1, <2>1, <2>3, <4>1
      <4>2. CASE n # c + 1
        <5>1. n \in 1 .. c
          BY <1>1, <4>2
        <5> QED BY <2>5, <5>1
      <4> QED BY <4>1, <4>2
    <3> QED BY <2>1, <3>1 DEF Ranked
  <2>7. \A n \in 1 .. c : Ts!Nth(T, n) = Ts!Nth(S, n) /\ Ts!Nth(S, n) # b
    BY <2>5
  <2> QED BY <1>1, <1>3, <2>1, <2>4, <2>6, <2>7 DEF c
<1> QED BY <1>2, <1>3

(* What TS.RANGE returns of the samples once one more has come. *)

LEMMA StartsAre ==
  ASSUME NEW s \in Seq(Sample), NEW w \in Nat \ {0}
  PROVE  /\ \A b : b \in Ts!Starts(s, w) <=> \E i \in 1 .. Len(s) : b = Ts!Start(s[i].t, w)
         /\ Ts!Starts(s, w) \subseteq 0 .. MaxTimestamp
<1>1. DOMAIN s = 1 .. Len(s) /\ \A i \in 1 .. Len(s) : s[i] \in Sample
  BY LenProperties, ElementOfSeq
<1>2. \A b : b \in Ts!Starts(s, w) <=> \E i \in 1 .. Len(s) : b = Ts!Start(s[i].t, w)
  BY <1>1 DEF Ts!Starts
<1>3. ASSUME NEW b \in Ts!Starts(s, w) PROVE b \in 0 .. MaxTimestamp
  <2>1. PICK i \in 1 .. Len(s) : b = Ts!Start(s[i].t, w)
    BY <1>2
  <2> DEFINE u == s[i].t
  <2>2. u \in 0 .. MaxTimestamp /\ MaxTimestamp \in Nat /\ u \in Nat
    <3>1. s[i] \in Sample /\ MaxTimestamp \in Nat
      BY <1>1, SeriesAssumption
    <3> QED BY <3>1 DEF Sample
  <2> HIDE DEF u
  <2>3. Ts!Start(u, w) \in Nat /\ Ts!Start(u, w) <= u
    BY <2>2, StartIs
  <2> QED BY <2>1, <2>2, <2>3 DEF u
<1> QED BY <1>2, <1>3

LEMMA StartsWithOneMore ==
  ASSUME NEW s \in Seq(Sample), NEW x \in Sample, NEW w \in Nat \ {0}
  PROVE  Ts!Starts(Append(s, x), w) = Ts!Starts(s, w) \cup {Ts!Start(x.t, w)}
<1> DEFINE n == Len(s)
           q == Append(s, x)
<1>1. n \in Nat /\ q \in Seq(Sample) /\ Len(q) = n + 1 /\ q[n + 1] = x /\ \A i \in 1 .. n : q[i] = s[i]
  BY LenProperties, AppendProperties
<1>2. /\ \A b : b \in Ts!Starts(s, w) <=> \E i \in 1 .. n : b = Ts!Start(s[i].t, w)
      /\ \A b : b \in Ts!Starts(q, w) <=> \E i \in 1 .. n + 1 : b = Ts!Start(q[i].t, w)
  <2> HIDE DEF q
  <2>1. \A b : b \in Ts!Starts(s, w) <=> \E i \in 1 .. Len(s) : b = Ts!Start(s[i].t, w)
    BY StartsAre
  <2>2. \A b : b \in Ts!Starts(q, w) <=> \E i \in 1 .. Len(q) : b = Ts!Start(q[i].t, w)
    BY <1>1, StartsAre
  <2> QED BY <1>1, <2>1, <2>2
<1> HIDE DEF n, q
<1>3. ASSUME NEW b \in Ts!Starts(q, w) PROVE b \in Ts!Starts(s, w) \cup {Ts!Start(x.t, w)}
  <2>1. PICK i \in 1 .. n + 1 : b = Ts!Start(q[i].t, w)
    BY <1>2
  <2>2. CASE i = n + 1
    BY <1>1, <2>1, <2>2
  <2>3. CASE i # n + 1
    <3>1. i \in 1 .. n
      BY <1>1, <2>3
    <3> QED BY <1>1, <1>2, <2>1, <3>1
  <2> QED BY <2>2, <2>3
<1>4. ASSUME NEW b \in Ts!Starts(s, w) \cup {Ts!Start(x.t, w)} PROVE b \in Ts!Starts(q, w)
  <2>1. CASE b \in Ts!Starts(s, w)
    <3>1. PICK i \in 1 .. n : b = Ts!Start(s[i].t, w)
      BY <1>2, <2>1
    <3>2. i \in 1 .. n + 1 /\ q[i] = s[i]
      BY <1>1
    <3> QED BY <1>2, <3>1, <3>2
  <2>2. CASE b = Ts!Start(x.t, w)
    <3>1. n + 1 \in 1 .. n + 1
      BY <1>1
    <3> QED BY <1>1, <1>2, <2>2, <3>1
  <2> QED BY <2>1, <2>2
<1> QED BY <1>3, <1>4 DEF q

Row(s, agg, w, b) == Ts!At(b, Ts!Out(agg, Ts!Bucket(s, b, w)))

LEMMA AggregatedIs ==
  ASSUME NEW s \in Seq(Sample), NEW w \in Nat \ {0}, NEW agg \in {"sum", "min", "max"}, Ranked(Ts!Starts(s, w))
  PROVE  /\ Ts!Aggregated(s, agg, w) \in Seq(Sample)
         /\ Len(Ts!Aggregated(s, agg, w)) = Cardinality(Ts!Starts(s, w)) /\ Cardinality(Ts!Starts(s, w)) \in Nat
         /\ \A n \in 1 .. Cardinality(Ts!Starts(s, w)) :
              Ts!Aggregated(s, agg, w)[n] = Row(s, agg, w, Ts!Nth(Ts!Starts(s, w), n))
<1> DEFINE S == Ts!Starts(s, w)
           c == Cardinality(S)
           g == Ts!Aggregated(s, agg, w)
<1>1. c \in Nat
  BY FS_CardinalityType DEF Ranked
<1>2. g = [n \in 1 .. c |-> Row(s, agg, w, Ts!Nth(S, n))]
  BY DEF Ts!Aggregated, Row, Ts!Cardinality, Cardinality
<1>3. S \subseteq 0 .. MaxTimestamp /\ MaxTimestamp \in Nat
  BY StartsAre, SeriesAssumption
<1>4. ASSUME NEW n \in 1 .. c PROVE Row(s, agg, w, Ts!Nth(S, n)) \in Sample
  <2> DEFINE b == Ts!Nth(S, n)
  <2>1. b \in 0 .. MaxTimestamp
    BY <1>3, NthIs
  <2>2. Ts!Bucket(s, b, w) \in BucketState
    <3>1. Sample # {}
      <4>1. [t |-> 0, v |-> 0] \in Sample
        BY <1>3 DEF Sample
      <4> QED BY <4>1
    <3>2. PICK x \in Sample : TRUE
      BY <3>1
    <3> HIDE DEF b
    <3> QED BY BucketWithOneMore
  <2>3. Ts!Out(agg, Ts!Bucket(s, b, w)) \in Int
    BY <2>2, OutIs
  <2> HIDE DEF b
  <2>4. Row(s, agg, w, b) \in Sample
    BY <2>1, <2>3 DEF Row, Sample, Ts!At
  <2> QED BY <2>4 DEF b
<1> HIDE DEF S, c, g
<1>5. g \in [1 .. c -> Sample]
  BY <1>2, <1>4
<1>6. g \in Seq(Sample) /\ Len(g) = c
  <2>1. g \in Seq(Sample)
    BY <1>1, <1>5, SeqDef
  <2> QED BY <1>1, <1>5, <2>1, LenProperties
<1>7. \A n \in 1 .. c : g[n] = Row(s, agg, w, Ts!Nth(S, n))
  BY <1>2
<1> QED BY <1>1, <1>6, <1>7 DEF S, c, g

LEMMA AggregatedNothing ==
  ASSUME NEW w \in Nat \ {0}, NEW agg \in {"sum", "min", "max"}
  PROVE  /\ Ts!Starts(<<>>, w) = {} /\ Ranked(Ts!Starts(<<>>, w)) /\ Ts!Aggregated(<<>>, agg, w) = <<>>
<1>1. <<>> \in Seq(Sample) /\ Len(<<>>) = 0 /\ 1 .. 0 = {}
  BY EmptySeq
<1>2. Ts!Starts(<<>>, w) = {}
  BY <1>1, StartsAre
<1>3. Ranked(Ts!Starts(<<>>, w)) /\ Cardinality(Ts!Starts(<<>>, w)) = 0
  BY <1>2, NothingRanked
<1>4. Ts!Aggregated(<<>>, agg, w) \in Seq(Sample) /\ Len(Ts!Aggregated(<<>>, agg, w)) = 0
  BY <1>1, <1>3, AggregatedIs
<1> QED BY <1>2, <1>3, <1>4, EmptySeq

LEMMA AggregatedGrows ==
  ASSUME NEW s \in Seq(Sample), NEW x \in Sample, NEW w \in Nat \ {0}, NEW agg \in {"sum", "min", "max"},
         Ranked(Ts!Starts(s, w)), \A i \in 1 .. Len(s) : s[i].t <= x.t
  PROVE  /\ Ranked(Ts!Starts(Append(s, x), w))
         /\ Ts!Aggregated(Append(s, x), agg, w)
              = Ts!Sampled(Ts!Aggregated(s, agg, w), Ts!Start(x.t, w), Ts!Out(agg, Ts!Bucket(Append(s, x), Ts!Start(x.t, w), w)))
<1> DEFINE q == Append(s, x)
           b == Ts!Start(x.t, w)
           S == Ts!Starts(s, w)
           T == Ts!Starts(q, w)
           c == Cardinality(S)
           o == Ts!Out(agg, Ts!Bucket(q, b, w))
           g == Ts!Aggregated(s, agg, w)
           h == Ts!Aggregated(q, agg, w)
           p == Ts!Sampled(g, b, o)
<1>1. q \in Seq(Sample) /\ T = S \cup {b}
  BY AppendProperties, StartsWithOneMore
<1>2. x.t \in Nat /\ x.t <= MaxTimestamp /\ MaxTimestamp \in Nat
  BY SeriesAssumption DEF Sample
<1>3. b \in Nat /\ b \in 0 .. MaxTimestamp
  <2> DEFINE u == x.t
  <2>1. Ts!Start(u, w) \in Nat /\ Ts!Start(u, w) <= u
    BY <1>2, StartIs
  <2> HIDE DEF u
  <2>2. Ts!Start(u, w) \in 0 .. MaxTimestamp
    BY <1>2, <2>1 DEF u
  <2> QED BY <2>1, <2>2 DEF u
<1>4. \A a \in S : a <= b
  <2> SUFFICES ASSUME NEW a \in S PROVE a <= b
    OBVIOUS
  <2>1. PICK i \in 1 .. Len(s) : a = Ts!Start(s[i].t, w)
    BY StartsAre
  <2> DEFINE u == s[i].t
             y == x.t
  <2>2. u \in Nat /\ y \in Nat /\ u <= y
    <3>1. s[i] \in Sample
      BY ElementOfSeq
    <3> QED BY <1>2, <3>1 DEF Sample
  <2> HIDE DEF u, y
  <2>3. Ts!Start(u, w) <= Ts!Start(y, w)
    BY <2>2, StartIs
  <2> QED BY <2>1, <2>3 DEF u, y
<1> HIDE DEF q, b, S, T, c
<1>5. /\ Ranked(T) /\ c \in Nat
      /\ Cardinality(T) = IF b \in S THEN c ELSE c + 1
      /\ Ts!Nth(T, Cardinality(T)) = b
      /\ \A n \in 1 .. c : n < Cardinality(T) => Ts!Nth(T, n) = Ts!Nth(S, n) /\ Ts!Nth(S, n) # b
  BY <1>1, <1>3, <1>4, RankedGrows DEF S, c
<1>6. /\ g \in Seq(Sample) /\ Len(g) = c
      /\ \A n \in 1 .. c : g[n] = Row(s, agg, w, Ts!Nth(S, n))
  BY AggregatedIs DEF S, c
<1>7. /\ h \in Seq(Sample) /\ Len(h) = Cardinality(T)
      /\ \A n \in 1 .. Cardinality(T) : h[n] = Row(q, agg, w, Ts!Nth(T, n))
  BY <1>1, <1>5, AggregatedIs DEF T
<1>8. \A a : a # b => Row(q, agg, w, a) = Row(s, agg, w, a)
  <2> SUFFICES ASSUME NEW a, a # b PROVE Row(q, agg, w, a) = Row(s, agg, w, a)
    OBVIOUS
  <2>1. Ts!Bucket(q, a, w) = Ts!Bucket(s, a, w)
    BY BucketWithOneMore DEF q, b
  <2> QED BY <2>1 DEF Row
<1>9. Row(q, agg, w, b) = [t |-> b, v |-> o] /\ \A a, f : Row(f, agg, w, a).t = a
  BY DEF Row, Ts!At
<1>10. o \in Int
  <2>1. Ts!Bucket(q, b, w) \in BucketState
    BY <1>1, BucketWithOneMore
  <2> QED BY <2>1, OutIs
<1> HIDE DEF o, g, h
<1>11. /\ p \in Seq(Sample)
       /\ IF g # <<>> /\ g[Len(g)].t = b
          THEN /\ Len(p) = Len(g) /\ \A i \in 1 .. Len(g) - 1 : p[i] = g[i]
               /\ p[Len(g)] = [t |-> b, v |-> o]
          ELSE /\ Len(p) = Len(g) + 1 /\ \A i \in 1 .. Len(g) : p[i] = g[i]
               /\ p[Len(g) + 1] = [t |-> b, v |-> o]
  BY <1>3, <1>6, <1>10, SampledIs
<1> HIDE DEF p
<1>12. g # <<>> <=> c # 0
  BY <1>6, EmptySeq
<1>13. h = p
  <2>1. CASE b \in S
    <3>1. c # 0
      <4>1. IsFiniteSet(S)
        BY DEF Ranked, S
      <4>2. c = 0 <=> S = {}
        BY <4>1, FS_EmptySet DEF c
      <4> QED BY <2>1, <4>2
    <3>2. c \in 1 .. c /\ Cardinality(T) = c /\ T = S
      BY <1>1, <1>5, <2>1, <3>1
    <3>3. Ts!Nth(S, c) = b
      BY <1>5, <3>2
    <3>4. g[c].t = b
      <4>1. g[c] = Row(s, agg, w, b)
        BY <1>6, <3>2, <3>3
      <4> QED BY <1>9, <4>1
    <3>5. Len(p) = c /\ p[c] = [t |-> b, v |-> o] /\ \A i \in 1 .. c - 1 : p[i] = g[i]
      BY <1>6, <1>11, <1>12, <3>1, <3>4
    <3>6. Len(h) = c /\ h[c] = [t |-> b, v |-> o]
      <4>1. h[c] = Row(q, agg, w, b)
        BY <1>7, <3>2, <3>3
      <4> QED BY <1>7, <1>9, <3>2, <4>1
    <3>7. ASSUME NEW i \in 1 .. c PROVE h[i] = p[i]
      <4>1. CASE i = c
        BY <3>5, <3>6, <4>1
      <4>2. CASE i # c
        <5>1. i \in 1 .. c - 1 /\ i < Cardinality(T)
          BY <1>5, <3>2, <4>2
        <5>2. Ts!Nth(S, i) # b /\ g[i] = Row(s, agg, w, Ts!Nth(S, i)) /\ h[i] = Row(q, agg, w, Ts!Nth(S, i))
          BY <1>5, <1>6, <1>7, <3>2, <5>1
        <5> QED BY <1>8, <3>5, <5>1, <5>2
      <4> QED BY <4>1, <4>2
    <3> QED BY <1>7, <1>11, <3>5, <3>6, <3>7, SeqEqual
  <2>2. CASE b \notin S
    <3>1. Cardinality(T) = c + 1 /\ Ts!Nth(T, c + 1) = b
      BY <1>5, <2>2
    <3>2. ASSUME NEW i \in 1 .. c
          PROVE  Ts!Nth(S, i) # b /\ Ts!Nth(T, i) = Ts!Nth(S, i) /\ i \in 1 .. c + 1
      BY <1>5, <3>1
    <3>3. ~(g # <<>> /\ g[Len(g)].t = b)
      <4> SUFFICES ASSUME g # <<>> PROVE g[c].t # b
        BY <1>6
      <4>1. c \in 1 .. c
        BY <1>5, <1>12
      <4>2. g[c] = Row(s, agg, w, Ts!Nth(S, c)) /\ Ts!Nth(S, c) # b
        BY <1>6, <3>2, <4>1
      <4> QED BY <1>9, <4>2
    <3>4. Len(p) = c + 1 /\ p[c + 1] = [t |-> b, v |-> o] /\ \A i \in 1 .. c : p[i] = g[i]
      BY <1>6, <1>11, <3>3
    <3>5. Len(h) = c + 1 /\ h[c + 1] = [t |-> b, v |-> o]
      <4>1. c + 1 \in 1 .. c + 1
        BY <1>5
      <4>2. h[c + 1] = Row(q, agg, w, b)
        BY <1>7, <3>1, <4>1
      <4> QED BY <1>7, <1>9, <3>1, <4>2
    <3>6. ASSUME NEW i \in 1 .. c + 1 PROVE h[i] = p[i]
      <4>1. CASE i = c + 1
        BY <3>4, <3>5, <4>1
      <4>2. CASE i # c + 1
        <5>1. i \in 1 .. c
          BY <1>5, <4>2
        <5>2. h[i] = Row(q, agg, w, Ts!Nth(S, i)) /\ g[i] = Row(s, agg, w, Ts!Nth(S, i)) /\ Ts!Nth(S, i) # b
          BY <1>6, <1>7, <3>1, <3>2, <5>1
        <5> QED BY <1>8, <3>4, <5>1, <5>2
      <4> QED BY <4>1, <4>2
    <3> QED BY <1>7, <1>11, <3>4, <3>5, <3>6, SeqEqual
  <2> QED BY <2>1, <2>2
<1> QED BY <1>5, <1>13 DEF q, b, T, h, p, g, o

(* What holds of the store: unless somebody else writes into destinations, every rule has a *)
(* destination of its own that its source does not overtake; a series that only TS.ADD      *)
(* writes is what is left of its log; and a rule of such a series keeps what TS.RANGE        *)
(* computes.                                                                                *)

Increasing(s) == \A i, j \in 1 .. Len(s) : i < j => s[i].t < s[j].t

Behind(m, x, i) ==
  m[x].rules[i].dest \in DOMAIN m /\ m[m[x].rules[i].dest].samples # <<>> =>
    /\ m[x].samples # <<>>
    /\ m[m[x].rules[i].dest].samples[Len(m[m[x].rules[i].dest].samples)].t
         <= Ts!Start(m[x].samples[Len(m[x].samples)].t, m[x].rules[i].width)

RuleApart(m, x, i) ==
  /\ x \in Source /\ m[x].rules[i].dest \notin Source
  /\ \A y \in DOMAIN m : \A j \in 1 .. Len(m[y].rules) :
       m[y].rules[j].dest = m[x].rules[i].dest => y = x /\ j = i
  /\ Behind(m, x, i)

RulesApart(m) ==
  /\ \A x \in DOMAIN m : \A i \in 1 .. Len(m[x].rules) : RuleApart(m, x, i)
  /\ \A x \in DOMAIN m : Increasing(m[x].samples)

IsNewest(s, n) == \A j \in 1 .. Len(s) : j > n => s[j].t # s[n].t

Window(e, s) ==
  /\ s = <<>> <=> e.samples = <<>>
  /\ s # <<>> => e.samples[Len(e.samples)] = s[Len(s)]
  /\ \A i, j \in 1 .. Len(s) : i < j => s[i].t <= s[j].t
  /\ \A i \in 1 .. Len(e.samples) : \E n \in 1 .. Len(s) : IsNewest(s, n) /\ e.samples[i] = s[n]
  /\ \A n \in 1 .. Len(s) : IsNewest(s, n) =>
       \/ \E i \in 1 .. Len(e.samples) : e.samples[i] = s[n]
       \/ e.retention # -1 /\ \E r \in Retention : s[n].t < s[Len(s)].t - r

Windows(m, l) == \A k \in Source : (k \in DOMAIN m => Window(m[k], l[k])) /\ (k \notin DOMAIN m => l[k] = <<>>)

GathersWell(r, s) ==
  /\ Ranked(Ts!Starts(s, r.width)) /\ DOMAIN r.state = Ts!Starts(s, r.width)
  /\ \A b \in Nat : Ts!Bucket(s, b, r.width) = IF b \in DOMAIN r.state THEN r.state[b] ELSE Ts!NoState

Since(l, r) == SubSeq(l, r.since + 1, Len(l))

RuleExact(m, l, x, i) ==
  /\ m[x].rules[i].since <= Len(l[x]) /\ m[x].rules[i].dest \in DOMAIN m
  /\ GathersWell(m[x].rules[i], Since(l[x], m[x].rules[i]))
  /\ m[m[x].rules[i].dest].samples = Ts!Aggregated(Since(l[x], m[x].rules[i]), m[x].rules[i].agg, m[x].rules[i].width)

RulesExact(m, l) ==
  /\ \A x \in DOMAIN m : \A i \in 1 .. Len(m[x].rules) : RuleExact(m, l, x, i)
  /\ \A k \in SeriesKey : Increasing(l[k])

StoreGood(m, l, a) ==
  /\ m \in SeriesStores /\ l \in [SeriesKey -> Seq(Sample)]
  /\ "retyped" \notin a => NoTexts(m)
  /\ "shared" \notin a => RulesApart(m)
  /\ a \cap {"shared", "deleted", "retyped"} = {} => Windows(m, l)
  /\ a = {} => RulesExact(m, l)

LEMMA RulesOf ==
  ASSUME NEW m \in SeriesStores, NEW x \in DOMAIN m
  PROVE  /\ x \in SeriesKey /\ m[x] \in SeriesEntry /\ m[x].rules \in Seq(SeriesRule) /\ m[x].samples \in Seq(Sample)
         /\ m[x].retention \in Retention \cup {-1}
         /\ Len(m[x].rules) \in Nat /\ DOMAIN m[x].rules = 1 .. Len(m[x].rules)
         /\ \A i \in 1 .. Len(m[x].rules) :
              /\ m[x].rules[i] \in SeriesRule /\ m[x].rules[i].dest \in SeriesKey /\ m[x].rules[i].width \in Nat \ {0}
              /\ m[x].rules[i].agg \in {"sum", "min", "max"} /\ m[x].rules[i].since \in Nat
              /\ m[x].rules[i].state \in BucketStates
<1>1. x \in SeriesKey /\ m[x] \in SeriesEntry
  BY SeriesStoresAre
<1>2. m[x].rules \in Seq(SeriesRule) /\ m[x].samples \in Seq(Sample) /\ m[x].retention \in Retention \cup {-1}
  BY <1>1 DEF SeriesEntry
<1>3. Len(m[x].rules) \in Nat /\ DOMAIN m[x].rules = 1 .. Len(m[x].rules)
  BY <1>2, LenProperties
<1>4. ASSUME NEW i \in 1 .. Len(m[x].rules) PROVE m[x].rules[i] \in SeriesRule
  BY <1>2, ElementOfSeq
<1> QED BY <1>1, <1>2, <1>3, <1>4 DEF SeriesRule

(* A store with the same samples and rules, and series that have neither. *)

LEMMA SameStore ==
  ASSUME NEW m, NEW l, NEW a, StoreGood(m, l, a), NEW p \in SeriesStores, DOMAIN m \subseteq DOMAIN p,
         \A x \in DOMAIN m : /\ p[x].samples = m[x].samples /\ p[x].rules = m[x].rules /\ p[x].type = m[x].type
                             /\ m[x].retention # -1 => p[x].retention # -1,
         \A x \in DOMAIN p : x \notin DOMAIN m => p[x].samples = <<>> /\ p[x].rules = <<>> /\ p[x].type = "timeseries"
  PROVE  StoreGood(p, l, a)
<1>1. m \in SeriesStores /\ l \in [SeriesKey -> Seq(Sample)] /\ Len(<<>>) = 0 /\ 1 .. 0 = {}
  BY EmptySeq DEF StoreGood
<1>2. "retyped" \notin a => NoTexts(p)
  BY DEF StoreGood, NoTexts
<1>3. ASSUME NEW x \in DOMAIN p, NEW i \in 1 .. Len(p[x].rules) PROVE x \in DOMAIN m /\ i \in 1 .. Len(m[x].rules) /\ p[x].rules = m[x].rules
  <2>1. x \in DOMAIN m
    <3>1. CASE x \notin DOMAIN m
      BY <1>1, <3>1
    <3> QED BY <3>1
  <2> QED BY <2>1
<1>4. ASSUME RulesApart(m) PROVE RulesApart(p)
  <2>1. ASSUME NEW x \in DOMAIN p PROVE Increasing(p[x].samples)
    <3>1. CASE x \in DOMAIN m
      BY <1>4, <3>1 DEF RulesApart
    <3>2. CASE x \notin DOMAIN m
      BY <1>1, <3>2 DEF Increasing
    <3> QED BY <3>1, <3>2
  <2>2. ASSUME NEW x \in DOMAIN p, NEW i \in 1 .. Len(p[x].rules) PROVE RuleApart(p, x, i)
    <3>1. x \in DOMAIN m /\ i \in 1 .. Len(m[x].rules) /\ p[x].rules = m[x].rules /\ p[x].samples = m[x].samples
      BY <1>3, <2>2
    <3>2. RuleApart(m, x, i)
      BY <1>4, <3>1 DEF RulesApart
    <3> DEFINE d == m[x].rules[i].dest
    <3>3. Behind(p, x, i)
      <4>1. SUFFICES ASSUME d \in DOMAIN p, p[d].samples # <<>>
                     PROVE  /\ m[x].samples # <<>>
                            /\ p[d].samples[Len(p[d].samples)].t <= Ts!Start(m[x].samples[Len(m[x].samples)].t, m[x].rules[i].width)
        BY <3>1 DEF Behind
      <4>2. d \in DOMAIN m /\ p[d].samples = m[d].samples
        BY <4>1
      <4> QED BY <3>2, <4>1, <4>2 DEF RuleApart, Behind
    <3>4. ASSUME NEW y \in DOMAIN p, NEW j \in 1 .. Len(p[y].rules), p[y].rules[j].dest = p[x].rules[i].dest
          PROVE  y = x /\ j = i
      <4>1. y \in DOMAIN m /\ j \in 1 .. Len(m[y].rules) /\ p[y].rules = m[y].rules
        BY <1>3, <3>4
      <4> QED BY <3>1, <3>2, <3>4, <4>1 DEF RuleApart
    <3> QED BY <3>1, <3>2, <3>3, <3>4 DEF RuleApart
  <2> QED BY <2>1, <2>2 DEF RulesApart
<1>5. ASSUME Windows(m, l) PROVE Windows(p, l)
  <2> SUFFICES ASSUME NEW k \in Source
               PROVE  (k \in DOMAIN p => Window(p[k], l[k])) /\ (k \notin DOMAIN p => l[k] = <<>>)
    BY DEF Windows
  <2>1. (k \in DOMAIN m => Window(m[k], l[k])) /\ (k \notin DOMAIN m => l[k] = <<>>)
    BY <1>5 DEF Windows
  <2>2. CASE k \in DOMAIN m
    <3>1. p[k].samples = m[k].samples /\ (m[k].retention # -1 => p[k].retention # -1) /\ Window(m[k], l[k]) /\ k \in DOMAIN p
      BY <2>1, <2>2
    <3> QED BY <3>1 DEF Window
  <2>3. CASE k \notin DOMAIN m
    <3>1. k \in DOMAIN p => p[k].samples = <<>>
      BY <2>3
    <3> QED BY <1>1, <2>1, <2>3, <3>1 DEF Window
  <2> QED BY <2>2, <2>3
<1>6. ASSUME RulesExact(m, l) PROVE RulesExact(p, l)
  <2>1. ASSUME NEW x \in DOMAIN p, NEW i \in 1 .. Len(p[x].rules) PROVE RuleExact(p, l, x, i)
    <3>1. x \in DOMAIN m /\ i \in 1 .. Len(m[x].rules) /\ p[x].rules = m[x].rules
      BY <1>3, <2>1
    <3>2. RuleExact(m, l, x, i)
      BY <1>6, <3>1 DEF RulesExact
    <3> DEFINE d == m[x].rules[i].dest
    <3>3. d \in DOMAIN m /\ d \in DOMAIN p /\ p[d].samples = m[d].samples
      BY <3>2 DEF RuleExact
    <3> QED BY <3>1, <3>2, <3>3 DEF RuleExact
  <2> QED BY <1>6, <2>1 DEF RulesExact
<1> QED BY <1>1, <1>2, <1>4, <1>5, <1>6 DEF StoreGood

PutIs(p, m, k, e) ==
  p \in SeriesStores /\ DOMAIN p = DOMAIN m \cup {k} /\ p[k] = e /\ \A x \in DOMAIN m \ {k} : p[x] = m[x]

LEMMA SeriesPuts ==
  ASSUME NEW m \in SeriesStores, NEW k \in SeriesKey, NEW e \in SeriesEntry
  PROVE  PutIs(Ts!Put(m, k, e), m, k, e)
<1>1. /\ Ts!Put(m, k, e) \in SeriesStores /\ DOMAIN Ts!Put(m, k, e) = DOMAIN m \cup {k}
      /\ Ts!Put(m, k, e)[k] = e /\ \A x \in DOMAIN m \ {k} : Ts!Put(m, k, e)[x] = m[x]
  BY SeriesPutIs
<1> QED BY <1>1 DEF PutIs

LEMMA PutSame ==
  ASSUME NEW m \in SeriesStores, NEW l, NEW a, StoreGood(m, l, a), NEW k \in SeriesKey, NEW e \in SeriesEntry,
         e.samples = Ts!GetOrInit(m, k).samples, e.rules = Ts!GetOrInit(m, k).rules, e.type = Ts!GetOrInit(m, k).type,
         Ts!GetOrInit(m, k).retention # -1 => e.retention # -1
  PROVE  StoreGood(Ts!Put(m, k, e), l, a)
<1>1. m \in SeriesStores
  BY DEF StoreGood
<1>2. PutIs(Ts!Put(m, k, e), m, k, e)
  BY SeriesPuts
<1>3. (k \in DOMAIN m => Ts!GetOrInit(m, k) = m[k]) /\ (k \notin DOMAIN m => Ts!GetOrInit(m, k) = Ts!Series(<<>>, -1, <<>>))
  BY <1>1, SeriesGetIs
<1> DEFINE p == Ts!Put(m, k, e)
<1>7. p \in SeriesStores /\ DOMAIN p = DOMAIN m \cup {k} /\ p[k] = e /\ \A x \in DOMAIN m \ {k} : p[x] = m[x]
  BY <1>2 DEF PutIs
<1> HIDE DEF p
<1>4. ASSUME NEW x \in DOMAIN m
      PROVE  /\ p[x].samples = m[x].samples /\ p[x].rules = m[x].rules /\ p[x].type = m[x].type
             /\ m[x].retention # -1 => p[x].retention # -1
  BY <1>7, <1>3
<1>5. ASSUME NEW x \in DOMAIN p, x \notin DOMAIN m
      PROVE  p[x].samples = <<>> /\ p[x].rules = <<>> /\ p[x].type = "timeseries"
  <2>1. x = k
    BY <1>7, <1>5
  <2> QED BY <1>7, <1>3, <1>5, <2>1, NewSeries
<1>6. StoreGood(p, l, a)
  BY <1>7, <1>4, <1>5, SameStore
<1> QED BY <1>6 DEF p

(* A rule is made, or others are deleted, and nothing else changes. *)

OnlyRules(p, m, k, q) ==
  /\ p \in SeriesStores /\ DOMAIN p = DOMAIN m /\ p[k].rules = q
  /\ \A x \in DOMAIN m \ {k} : p[x] = m[x]
  /\ p[k].samples = m[k].samples /\ p[k].type = m[k].type /\ p[k].retention = m[k].retention

LEMMA NewRules ==
  ASSUME NEW m \in SeriesStores, NEW k \in DOMAIN m, NEW q \in Seq(SeriesRule)
  PROVE  OnlyRules([m EXCEPT ![k].rules = q], m, k, q)
<1> DEFINE p == [m EXCEPT ![k].rules = q]
           e == m[k]
           f == [e EXCEPT !.rules = q]
<1>1. e \in SeriesEntry /\ m = [x \in DOMAIN m |-> m[x]] /\ DOMAIN m \subseteq SeriesKey /\ \A x \in DOMAIN m : m[x] \in SeriesEntry
  BY SeriesStoresAre
<1>2. p = [m EXCEPT ![k] = f]
  OBVIOUS
<1>3. f \in SeriesEntry /\ f.rules = q /\ f.samples = e.samples /\ f.type = e.type /\ f.retention = e.retention
  <2> HIDE DEF e
  <2> QED BY <1>1 DEF SeriesEntry
<1> HIDE DEF f, p
<1>4. DOMAIN p = DOMAIN m /\ p[k] = f /\ (\A x \in DOMAIN m \ {k} : p[x] = m[x]) /\ p = [x \in DOMAIN p |-> p[x]]
  BY <1>1, <1>2
<1>5. ASSUME NEW x \in DOMAIN p PROVE p[x] \in SeriesEntry
  BY <1>1, <1>3, <1>4
<1>6. p \in SeriesStores
  BY <1>1, <1>4, <1>5, SeriesStoresAre
<1>7. OnlyRules(p, m, k, q)
  BY <1>3, <1>4, <1>6 DEF OnlyRules
<1> QED BY <1>7 DEF p

LEMMA KeepsAlike ==
  ASSUME NEW m \in SeriesStores, NEW k \in DOMAIN m, NEW p, NEW q, OnlyRules(p, m, k, q), NEW x \in DOMAIN m
  PROVE  p[x].samples = m[x].samples /\ p[x].type = m[x].type /\ p[x].retention = m[x].retention
<1>1. CASE x = k
  BY <1>1 DEF OnlyRules
<1>2. CASE x # k
  <2>1. p[x] = m[x]
    BY <1>2 DEF OnlyRules
  <2> QED BY <2>1
<1> QED BY <1>1, <1>2

LEMMA BehindKept ==
  ASSUME NEW m \in SeriesStores, NEW p, DOMAIN p \subseteq DOMAIN m, NEW x \in DOMAIN p,
         p[x].samples = m[x].samples, NEW i, NEW j,
         p[x].rules[i].dest = m[x].rules[j].dest, p[x].rules[i].width = m[x].rules[j].width,
         m[x].rules[j].dest \in DOMAIN p =>
           p[m[x].rules[j].dest].samples = m[m[x].rules[j].dest].samples \/ p[m[x].rules[j].dest].samples = <<>>,
         Behind(m, x, j)
  PROVE  Behind(p, x, i)
<1> DEFINE d == m[x].rules[j].dest
<1>1. SUFFICES ASSUME d \in DOMAIN p, p[d].samples # <<>>
               PROVE  /\ m[x].samples # <<>>
                      /\ p[d].samples[Len(p[d].samples)].t <= Ts!Start(m[x].samples[Len(m[x].samples)].t, m[x].rules[j].width)
  BY DEF Behind
<1>2. d \in DOMAIN m /\ p[d].samples = m[d].samples
  BY <1>1
<1> QED BY <1>1, <1>2 DEF Behind

LEMMA RulesLess ==
  ASSUME NEW m \in SeriesStores, NEW l, NEW a, StoreGood(m, l, a), NEW k \in DOMAIN m,
         NEW q, NEW g, SomeOf(q, m[k].rules, Len(m[k].rules), g), q \in Seq(SeriesRule), NEW p, OnlyRules(p, m, k, q)
  PROVE  StoreGood(p, l, a)
<1>1. l \in [SeriesKey -> Seq(Sample)] /\ p \in SeriesStores /\ DOMAIN p = DOMAIN m
  BY DEF StoreGood, OnlyRules
<1>2. ASSUME NEW x \in DOMAIN m
      PROVE  p[x].samples = m[x].samples /\ p[x].type = m[x].type /\ p[x].retention = m[x].retention
  BY KeepsAlike
<1>3. "retyped" \notin a => NoTexts(p)
  BY <1>1, <1>2 DEF StoreGood, NoTexts
<1> DEFINE at(x, i) == IF x = k THEN g[i] ELSE i
<1>4. ASSUME NEW x \in DOMAIN m, NEW i \in 1 .. Len(p[x].rules)
      PROVE  /\ at(x, i) \in 1 .. Len(m[x].rules) /\ p[x].rules[i] = m[x].rules[at(x, i)]
             /\ \A j \in 1 .. Len(p[x].rules) : at(x, j) = at(x, i) => j = i
  <2>1. CASE x = k
    <3>1. p[x].rules = q /\ i \in 1 .. Len(q) /\ Len(q) \in Nat
      BY <1>4, <2>1, LenProperties DEF OnlyRules
    <3>2. g[i] \in 1 .. Len(m[k].rules) /\ q[i] = m[k].rules[g[i]]
      BY <3>1 DEF SomeOf
    <3>3. ASSUME NEW j \in 1 .. Len(q), g[j] = g[i] PROVE j = i
      <4>1. (j < i => g[j] < g[i]) /\ (i < j => g[i] < g[j]) /\ g[i] \in Int
        BY <3>1, <3>2 DEF SomeOf
      <4> QED BY <3>1, <3>3, <4>1
    <3> QED BY <2>1, <3>1, <3>2, <3>3
  <2>2. CASE x # k
    <3>1. p[x] = m[x]
      BY <2>2 DEF OnlyRules
    <3> QED BY <1>4, <2>2, <3>1
  <2> QED BY <2>1, <2>2
<1> HIDE DEF at
<1>5. ASSUME RulesApart(m) PROVE RulesApart(p)
  <2>1. ASSUME NEW x \in DOMAIN p PROVE Increasing(p[x].samples)
    BY <1>1, <1>2, <1>5 DEF RulesApart
  <2>2. ASSUME NEW x \in DOMAIN p, NEW i \in 1 .. Len(p[x].rules) PROVE RuleApart(p, x, i)
    <3> DEFINE n == at(x, i)
               d == m[x].rules[n].dest
    <3>1. x \in DOMAIN m /\ n \in 1 .. Len(m[x].rules) /\ p[x].rules[i] = m[x].rules[n] /\ p[x].samples = m[x].samples
      BY <1>1, <1>2, <1>4
    <3>2. RuleApart(m, x, n)
      BY <1>5, <3>1 DEF RulesApart
    <3>3. Behind(p, x, i)
      <4>1. d \in DOMAIN p => p[d].samples = m[d].samples
        BY <1>1, <1>2
      <4>2. Behind(m, x, n) /\ DOMAIN p \subseteq DOMAIN m
        BY <1>1, <3>2 DEF RuleApart
      <4> HIDE DEF n
      <4> QED BY <3>1, <4>1, <4>2, BehindKept
    <3>4. ASSUME NEW y \in DOMAIN p, NEW j \in 1 .. Len(p[y].rules), p[y].rules[j].dest = p[x].rules[i].dest
          PROVE  y = x /\ j = i
      <4> DEFINE o == at(y, j)
      <4>1. y \in DOMAIN m /\ o \in 1 .. Len(m[y].rules) /\ p[y].rules[j] = m[y].rules[o]
        BY <1>1, <1>4
      <4>2. y = x /\ o = n
        <5> HIDE DEF n, o
        <5> QED BY <3>1, <3>2, <3>4, <4>1 DEF RuleApart
      <4> QED BY <1>1, <1>4, <4>2
    <3> HIDE DEF n
    <3> QED BY <3>1, <3>2, <3>3, <3>4 DEF RuleApart
  <2> QED BY <2>1, <2>2 DEF RulesApart
<1>6. ASSUME Windows(m, l) PROVE Windows(p, l)
  <2> SUFFICES ASSUME NEW y \in Source
               PROVE  (y \in DOMAIN p => Window(p[y], l[y])) /\ (y \notin DOMAIN p => l[y] = <<>>)
    BY DEF Windows
  <2>1. (y \in DOMAIN m => Window(m[y], l[y])) /\ (y \notin DOMAIN m => l[y] = <<>>)
    BY <1>6 DEF Windows
  <2>2. CASE y \in DOMAIN m
    <3>1. p[y].samples = m[y].samples /\ p[y].retention = m[y].retention /\ Window(m[y], l[y])
      BY <1>2, <2>1, <2>2
    <3> QED BY <1>1, <2>2, <3>1 DEF Window
  <2> QED BY <1>1, <2>1, <2>2
<1>7. ASSUME RulesExact(m, l) PROVE RulesExact(p, l)
  <2>1. ASSUME NEW x \in DOMAIN p, NEW i \in 1 .. Len(p[x].rules) PROVE RuleExact(p, l, x, i)
    <3> DEFINE n == at(x, i)
               d == m[x].rules[n].dest
    <3>1. x \in DOMAIN m /\ n \in 1 .. Len(m[x].rules) /\ p[x].rules[i] = m[x].rules[n]
      BY <1>1, <1>4
    <3> HIDE DEF n
    <3>2. RuleExact(m, l, x, n)
      BY <1>7, <3>1 DEF RulesExact
    <3>3. d \in DOMAIN m /\ d \in DOMAIN p /\ p[d].samples = m[d].samples
      BY <1>1, <1>2, <3>2 DEF RuleExact
    <3> QED BY <3>1, <3>2, <3>3 DEF RuleExact
  <2> QED BY <1>7, <2>1 DEF RulesExact
<1> QED BY <1>1, <1>3, <1>5, <1>6, <1>7 DEF StoreGood

LEMMA SinceNow ==
  ASSUME NEW l \in Seq(Sample), NEW r, r.since = Len(l)
  PROVE  Since(l, r) = <<>>
<1> DEFINE n == Len(l)
           i == n + 1
           q == Since(l, r)
<1>1. n \in Nat /\ i \in Int /\ n \in Int /\ \A j \in i .. n : l[j] \in Sample
  BY LenProperties, ElementOfSeq
<1>2. q = SubSeq(l, i, n)
  BY DEF Since
<1>3. i > n
  BY <1>1
<1> HIDE DEF i, n, q
<1>4. q \in Seq(Sample) /\ Len(q) = IF i <= n THEN n - i + 1 ELSE 0
  BY <1>1, <1>2, SubSeqProperties
<1>5. Len(q) = 0
  BY <1>1, <1>3, <1>4
<1> QED BY <1>4, <1>5, EmptySeq DEF q

LEMMA RuleMade ==
  ASSUME NEW m \in SeriesStores, NEW l, NEW a, StoreGood(m, l, a), NEW k \in DOMAIN m, k \in Source,
         NEW r \in SeriesRule, r.state = <<>>, r.since = Len(l[k]), r.dest \in DOMAIN m,
         "shared" \notin a =>
           /\ r.dest \notin Source /\ m[r.dest].samples = <<>>
           /\ \A x \in DOMAIN m : \A i \in 1 .. Len(m[x].rules) : m[x].rules[i].dest # r.dest,
         NEW p, OnlyRules(p, m, k, Append(m[k].rules, r))
  PROVE  StoreGood(p, l, a)
<1> DEFINE q == Append(m[k].rules, r)
           c == Len(m[k].rules)
<1>1. l \in [SeriesKey -> Seq(Sample)] /\ p \in SeriesStores /\ DOMAIN p = DOMAIN m /\ k \in SeriesKey
  BY RulesOf DEF StoreGood, OnlyRules
<1>2. ASSUME NEW x \in DOMAIN m
      PROVE  p[x].samples = m[x].samples /\ p[x].type = m[x].type /\ p[x].retention = m[x].retention
  BY KeepsAlike
<1>3. "retyped" \notin a => NoTexts(p)
  BY <1>1, <1>2 DEF StoreGood, NoTexts
<1>4. c \in Nat /\ q \in Seq(SeriesRule) /\ Len(q) = c + 1 /\ q[c + 1] = r /\ \A i \in 1 .. c : q[i] = m[k].rules[i]
  <2> DEFINE rs == m[k].rules
  <2>1. rs \in Seq(SeriesRule)
    BY RulesOf
  <2> HIDE DEF rs
  <2>2. Append(rs, r) \in Seq(SeriesRule) /\ Len(Append(rs, r)) = Len(rs) + 1 /\ Append(rs, r)[Len(rs) + 1] = r
        /\ (\A i \in 1 .. Len(rs) : Append(rs, r)[i] = rs[i]) /\ Len(rs) \in Nat
    BY <2>1, AppendProperties, LenProperties
  <2> QED BY <2>2 DEF rs
<1>5. ASSUME NEW x \in DOMAIN m, NEW i \in 1 .. Len(p[x].rules)
      PROVE  \/ i \in 1 .. Len(m[x].rules) /\ p[x].rules[i] = m[x].rules[i]
             \/ x = k /\ i = c + 1 /\ p[x].rules[i] = r
  <2>1. CASE x = k
    <3>1. p[x].rules = q
      BY <2>1 DEF OnlyRules
    <3> HIDE DEF q
    <3> QED BY <1>4, <1>5, <2>1, <3>1
  <2>2. CASE x # k
    <3>1. p[x] = m[x]
      BY <2>2 DEF OnlyRules
    <3> QED BY <1>5, <3>1
  <2> QED BY <2>1, <2>2
<1> HIDE DEF q, c
<1>6. ASSUME RulesApart(m), "shared" \notin a PROVE RulesApart(p)
  <2>1. ASSUME NEW x \in DOMAIN p PROVE Increasing(p[x].samples)
    BY <1>1, <1>2, <1>6 DEF RulesApart
  <2>2. ASSUME NEW x \in DOMAIN p, NEW i \in 1 .. Len(p[x].rules) PROVE RuleApart(p, x, i)
    <3>0. x \in DOMAIN m /\ p[x].samples = m[x].samples
      BY <1>1, <1>2
    <3>1. CASE i \in 1 .. Len(m[x].rules) /\ p[x].rules[i] = m[x].rules[i]
      <4> DEFINE d == m[x].rules[i].dest
      <4>1. RuleApart(m, x, i) /\ d # r.dest
        BY <1>6, <3>0, <3>1 DEF RulesApart
      <4>2. Behind(p, x, i)
        <5>1. d \in DOMAIN p => p[d].samples = m[d].samples
          BY <1>1, <1>2
        <5>2. Behind(m, x, i) /\ DOMAIN p \subseteq DOMAIN m
          BY <1>1, <4>1 DEF RuleApart
        <5> QED BY <3>0, <3>1, <5>1, <5>2, BehindKept
      <4>3. ASSUME NEW y \in DOMAIN p, NEW j \in 1 .. Len(p[y].rules), p[y].rules[j].dest = p[x].rules[i].dest
            PROVE  y = x /\ j = i
        <5>1. y \in DOMAIN m /\ j \in 1 .. Len(m[y].rules) /\ p[y].rules[j] = m[y].rules[j]
          BY <1>1, <1>5, <3>1, <4>1, <4>3
        <5> QED BY <3>1, <4>1, <4>3, <5>1 DEF RuleApart
      <4> QED BY <3>1, <4>1, <4>2, <4>3 DEF RuleApart
    <3>2. CASE x = k /\ i = c + 1 /\ p[x].rules[i] = r
      <4>1. p[r.dest].samples = <<>> /\ r.dest \notin Source
        BY <1>2, <1>6
      <4>2. Behind(p, x, i)
        BY <3>2, <4>1 DEF Behind
      <4>3. ASSUME NEW y \in DOMAIN p, NEW j \in 1 .. Len(p[y].rules), p[y].rules[j].dest = p[x].rules[i].dest
            PROVE  y = x /\ j = i
        <5>1. y \in DOMAIN m /\ ~(j \in 1 .. Len(m[y].rules) /\ p[y].rules[j] = m[y].rules[j])
          BY <1>1, <1>6, <3>2, <4>3
        <5> QED BY <1>5, <3>2, <4>3, <5>1
      <4> QED BY <3>2, <4>1, <4>2, <4>3 DEF RuleApart
    <3> QED BY <1>5, <3>0, <3>1, <3>2
  <2> QED BY <2>1, <2>2 DEF RulesApart
<1>7. ASSUME Windows(m, l) PROVE Windows(p, l)
  <2> SUFFICES ASSUME NEW y \in Source
               PROVE  (y \in DOMAIN p => Window(p[y], l[y])) /\ (y \notin DOMAIN p => l[y] = <<>>)
    BY DEF Windows
  <2>1. (y \in DOMAIN m => Window(m[y], l[y])) /\ (y \notin DOMAIN m => l[y] = <<>>)
    BY <1>7 DEF Windows
  <2>2. CASE y \in DOMAIN m
    <3>1. p[y].samples = m[y].samples /\ p[y].retention = m[y].retention /\ Window(m[y], l[y])
      BY <1>2, <2>1, <2>2
    <3> QED BY <1>1, <2>2, <3>1 DEF Window
  <2> QED BY <1>1, <2>1, <2>2
<1>8. ASSUME RulesExact(m, l), a = {} PROVE RulesExact(p, l)
  <2>1. ASSUME NEW x \in DOMAIN p, NEW i \in 1 .. Len(p[x].rules) PROVE RuleExact(p, l, x, i)
    <3>1. CASE i \in 1 .. Len(m[x].rules) /\ p[x].rules[i] = m[x].rules[i]
      <4> DEFINE d == m[x].rules[i].dest
      <4>1. RuleExact(m, l, x, i)
        BY <1>1, <1>8, <3>1 DEF RulesExact
      <4>2. d \in DOMAIN m /\ d \in DOMAIN p /\ p[d].samples = m[d].samples
        BY <1>1, <1>2, <4>1 DEF RuleExact
      <4> QED BY <3>1, <4>1, <4>2 DEF RuleExact
    <3>2. CASE x = k /\ i = c + 1 /\ p[x].rules[i] = r
      <4>1. p[r.dest].samples = <<>> /\ r.dest \in DOMAIN p
        BY <1>1, <1>2, <1>8
      <4>2. l[k] \in Seq(Sample) /\ Len(l[k]) \in Nat /\ Since(l[k], r) = <<>>
        <5> DEFINE h == l[k]
        <5>1. h \in Seq(Sample) /\ r.since = Len(h)
          BY <1>1
        <5> HIDE DEF h
        <5>2. Len(h) \in Nat /\ Since(h, r) = <<>>
          BY <5>1, SinceNow, LenProperties
        <5> QED BY <5>1, <5>2 DEF h
      <4>3. r.width \in Nat \ {0} /\ r.agg \in {"sum", "min", "max"}
        BY DEF SeriesRule
      <4>4. /\ Ts!Starts(<<>>, r.width) = {} /\ Ranked(Ts!Starts(<<>>, r.width))
            /\ Ts!Aggregated(<<>>, r.agg, r.width) = <<>>
        BY <4>3, AggregatedNothing
      <4>5. GathersWell(r, <<>>)
        <5>1. DOMAIN r.state = {}
          OBVIOUS
        <5>2. \A b \in Nat : Ts!Bucket(<<>>, b, r.width) = Ts!NoState
          BY BucketOfNothing
        <5> QED BY <4>4, <5>1, <5>2 DEF GathersWell
      <4> QED BY <3>2, <4>1, <4>2, <4>4, <4>5 DEF RuleExact
    <3> QED BY <1>1, <1>5, <3>1, <3>2
  <2> QED BY <1>8, <2>1 DEF RulesExact
<1> QED BY <1>1, <1>3, <1>6, <1>7, <1>8 DEF StoreGood

(* A key is deleted, or becomes a string: its rules go, and what others write into it begins again. *)

LEMMA ApartKept ==
  ASSUME NEW m \in SeriesStores, RulesApart(m), NEW p, NEW k,
         \A x \in DOMAIN p : x # k => x \in DOMAIN m /\ p[x] = m[x],
         k \in DOMAIN p => p[k].samples = <<>> /\ p[k].rules = <<>>
  PROVE  RulesApart(p)
<1>1. Len(<<>>) = 0 /\ 1 .. 0 = {}
  OBVIOUS
<1>2. ASSUME NEW x \in DOMAIN p, NEW i \in 1 .. Len(p[x].rules)
      PROVE  x # k /\ x \in DOMAIN m /\ p[x] = m[x]
  <2>1. x # k
    BY <1>1, <1>2
  <2> QED BY <2>1
<1>3. ASSUME NEW x \in DOMAIN p PROVE Increasing(p[x].samples)
  <2>1. CASE x = k
    BY <1>1, <2>1 DEF Increasing
  <2>2. CASE x # k
    BY <2>2 DEF RulesApart
  <2> QED BY <2>1, <2>2
<1>4. ASSUME NEW x \in DOMAIN p, NEW i \in 1 .. Len(p[x].rules) PROVE RuleApart(p, x, i)
  <2> DEFINE d == m[x].rules[i].dest
  <2>1. x # k /\ x \in DOMAIN m /\ p[x] = m[x] /\ i \in 1 .. Len(m[x].rules)
    BY <1>2, <1>4
  <2>2. RuleApart(m, x, i)
    BY <2>1 DEF RulesApart
  <2>3. Behind(p, x, i)
    <3>1. SUFFICES ASSUME d \in DOMAIN p, p[d].samples # <<>>
                   PROVE  /\ m[x].samples # <<>>
                          /\ p[d].samples[Len(p[d].samples)].t <= Ts!Start(m[x].samples[Len(m[x].samples)].t, m[x].rules[i].width)
      BY <2>1 DEF Behind
    <3>2. d \in DOMAIN m /\ p[d] = m[d]
      BY <3>1
    <3> QED BY <2>2, <3>1, <3>2 DEF RuleApart, Behind
  <2>4. ASSUME NEW y \in DOMAIN p, NEW j \in 1 .. Len(p[y].rules), p[y].rules[j].dest = p[x].rules[i].dest
        PROVE  y = x /\ j = i
    <3>1. y \in DOMAIN m /\ p[y] = m[y]
      BY <1>2, <2>4
    <3> QED BY <2>1, <2>2, <2>4, <3>1 DEF RuleApart
  <2> QED BY <2>1, <2>2, <2>3, <2>4 DEF RuleApart
<1> QED BY <1>3, <1>4 DEF RulesApart

LEMMA LogCleared ==
  ASSUME NEW l \in [SeriesKey -> Seq(Sample)], NEW k \in SeriesKey
  PROVE  [l EXCEPT ![k] = <<>>] \in [SeriesKey -> Seq(Sample)]
<1>1. <<>> \in Seq(Sample)
  BY EmptySeq
<1> QED BY <1>1

LEMMA KeyDropped ==
  ASSUME NEW m \in SeriesStores, NEW l, NEW a, StoreGood(m, l, a), "deleted" \in a, NEW k \in DOMAIN m
  PROVE  StoreGood([x \in DOMAIN m \ {k} |-> m[x]], [l EXCEPT ![k] = <<>>], a)
<1> DEFINE p == [x \in DOMAIN m \ {k} |-> m[x]]
           h == [l EXCEPT ![k] = <<>>]
<1>1. l \in [SeriesKey -> Seq(Sample)] /\ k \in SeriesKey /\ DOMAIN m \subseteq SeriesKey /\ \A x \in DOMAIN m : m[x] \in SeriesEntry
  BY SeriesStoresAre DEF StoreGood
<1>2. h \in [SeriesKey -> Seq(Sample)]
  BY <1>1, LogCleared
<1>3. DOMAIN p = DOMAIN m \ {k} /\ (\A x \in DOMAIN m \ {k} : p[x] = m[x]) /\ p = [x \in DOMAIN p |-> p[x]]
  OBVIOUS
<1> HIDE DEF p, h
<1>4. p \in SeriesStores
  <2>1. DOMAIN p \subseteq SeriesKey /\ \A x \in DOMAIN p : p[x] \in SeriesEntry
    BY <1>1, <1>3
  <2> QED BY <1>3, <2>1, SeriesStoresAre
<1>5. "retyped" \notin a => NoTexts(p)
  BY <1>3 DEF StoreGood, NoTexts
<1>6. "shared" \notin a => RulesApart(p)
  <2> SUFFICES ASSUME "shared" \notin a PROVE RulesApart(p)
    OBVIOUS
  <2>1. RulesApart(m)
    BY DEF StoreGood
  <2>2. (\A x \in DOMAIN p : x # k => x \in DOMAIN m /\ p[x] = m[x]) /\ (k \in DOMAIN p => p[k].samples = <<>> /\ p[k].rules = <<>>)
    BY <1>3
  <2> QED BY <2>1, <2>2, ApartKept
<1>7. StoreGood(p, h, a)
  BY <1>2, <1>4, <1>5, <1>6 DEF StoreGood
<1> QED BY <1>7 DEF p, h

LEMMA KeyRetyped ==
  ASSUME NEW m \in SeriesStores, NEW l, NEW a, StoreGood(m, l, a), "retyped" \in a, NEW k \in SeriesKey
  PROVE  StoreGood(Ts!Put(m, k, Ts!Text), [l EXCEPT ![k] = <<>>], a)
<1> DEFINE p == Ts!Put(m, k, Ts!Text)
           h == [l EXCEPT ![k] = <<>>]
<1>1. l \in [SeriesKey -> Seq(Sample)]
  BY DEF StoreGood
<1>2. h \in [SeriesKey -> Seq(Sample)]
  BY <1>1, LogCleared
<1>3. Ts!Text \in SeriesEntry /\ Ts!Text.samples = <<>> /\ Ts!Text.rules = <<>>
  <2>1. <<>> \in Seq(Sample) /\ <<>> \in Seq(SeriesRule)
    BY EmptySeq
  <2> QED BY <2>1 DEF Ts!Text, Ts!Unlimited, SeriesEntry
<1>4. PutIs(p, m, k, Ts!Text)
  BY <1>3, SeriesPuts
<1> HIDE DEF p, h
<1>5. "shared" \notin a => RulesApart(p)
  <2> SUFFICES ASSUME "shared" \notin a PROVE RulesApart(p)
    OBVIOUS
  <2>1. RulesApart(m)
    BY DEF StoreGood
  <2>2. /\ \A x \in DOMAIN p : x # k => x \in DOMAIN m /\ p[x] = m[x]
        /\ k \in DOMAIN p => p[k].samples = <<>> /\ p[k].rules = <<>>
    BY <1>3, <1>4 DEF PutIs
  <2> QED BY <2>1, <2>2, ApartKept
<1>6. StoreGood(p, h, a)
  BY <1>2, <1>4, <1>5 DEF StoreGood, PutIs
<1> QED BY <1>6 DEF p, h

(* A sample is accepted. *)

LEMMA InSamples ==
  ASSUME NEW s \in Seq(Sample)
  PROVE  Len(s) \in Nat /\ (s # <<>> <=> Len(s) >= 1) /\ \A i \in 1 .. Len(s) : s[i] \in Sample /\ s[i].t \in Nat /\ s[i].v \in Int
<1>1. Len(s) \in Nat /\ MaxTimestamp \in Nat /\ \A i \in 1 .. Len(s) : s[i] \in Sample
  BY LenProperties, ElementOfSeq, SeriesAssumption
<1>2. s = <<>> <=> Len(s) = 0
  BY EmptySeq
<1> QED BY <1>1, <1>2 DEF Sample

LEMMA SampledIncreasing ==
  ASSUME NEW s \in Seq(Sample), Increasing(s), NEW t \in 0 .. MaxTimestamp, NEW v \in Int,
         s # <<>> => s[Len(s)].t <= t
  PROVE  /\ Increasing(Ts!Sampled(s, t, v)) /\ Ts!Sampled(s, t, v) # <<>>
         /\ Ts!Sampled(s, t, v)[Len(Ts!Sampled(s, t, v))] = [t |-> t, v |-> v]
<1> DEFINE p == Ts!Sampled(s, t, v)
           n == Len(s)
           x == [t |-> t, v |-> v]
<1>1. /\ p \in Seq(Sample) /\ p # <<>>
      /\ IF s # <<>> /\ s[n].t = t
         THEN Len(p) = n /\ (\A i \in 1 .. n - 1 : p[i] = s[i]) /\ p[n] = x
         ELSE Len(p) = n + 1 /\ (\A i \in 1 .. n : p[i] = s[i]) /\ p[n + 1] = x
  BY SampledIs
<1>2. n \in Nat /\ (s # <<>> <=> n >= 1) /\ (\A i \in 1 .. n : s[i].t \in Nat) /\ t \in Nat /\ x.t = t
  BY InSamples, SeriesAssumption
<1>3. \A i, j \in 1 .. n : i < j => s[i].t < s[j].t
  BY DEF Increasing
<1> HIDE DEF p, n, x
<1>4. n >= 1 => s[n].t <= t
  BY <1>2 DEF n
<1>5. CASE s # <<>> /\ s[n].t = t
  <2>1. Len(p) = n /\ (\A i \in 1 .. n - 1 : p[i] = s[i]) /\ p[n] = x /\ n >= 1
    BY <1>1, <1>2, <1>5
  <2>2. ASSUME NEW i \in 1 .. n, NEW j \in 1 .. n, i < j PROVE p[i].t < p[j].t
    <3>1. i \in 1 .. n - 1 /\ p[i] = s[i] /\ s[i].t < s[j].t
      BY <1>2, <1>3, <2>1, <2>2
    <3>2. p[j].t = s[j].t
      <4>1. CASE j = n
        BY <1>2, <1>5, <2>1, <4>1
      <4>2. CASE j # n
        <5>1. j \in 1 .. n - 1
          BY <1>2, <4>2
        <5> QED BY <2>1, <5>1
      <4> QED BY <4>1, <4>2
    <3> QED BY <3>1, <3>2
  <2> QED BY <1>1, <2>1, <2>2 DEF Increasing, p, x
<1>6. CASE ~(s # <<>> /\ s[n].t = t)
  <2>1. Len(p) = n + 1 /\ (\A i \in 1 .. n : p[i] = s[i]) /\ p[n + 1] = x
    BY <1>1, <1>6
  <2>2. ASSUME NEW i \in 1 .. n + 1, NEW j \in 1 .. n + 1, i < j PROVE p[i].t < p[j].t
    <3>1. i \in 1 .. n /\ p[i] = s[i] /\ n \in 1 .. n /\ s[n].t < t
      BY <1>2, <1>4, <1>6, <2>1, <2>2
    <3>2. CASE j = n + 1
      <4>1. s[i].t <= s[n].t
        <5>1. CASE i = n
          BY <1>2, <3>1, <5>1
        <5>2. CASE i # n
          BY <1>2, <1>3, <3>1, <5>2
        <5> QED BY <5>1, <5>2
      <4> QED BY <1>2, <2>1, <3>1, <3>2, <4>1
    <3>3. CASE j # n + 1
      <4>1. j \in 1 .. n
        BY <1>2, <3>3
      <4> QED BY <1>3, <2>1, <2>2, <3>1, <4>1
    <3> QED BY <3>2, <3>3
  <2> QED BY <1>1, <2>1, <2>2 DEF Increasing, p, x
<1> QED BY <1>5, <1>6

Taking(s, q, t, r, c) ==
  /\ c \in 0 .. Len(s) - 1 /\ q \in Seq(Sample) /\ Len(q) = Len(s) - c
  /\ \A i \in 1 .. Len(s) - c : q[i] = s[c + i]
  /\ \A i \in 1 .. c : s[i].t < t - r /\ r # -1

Purging(s, q, t, r) ==
  \E c \in 0 .. Len(s) :
    /\ q \in Seq(Sample) /\ Len(q) = Len(s) - c
    /\ \A i \in 1 .. Len(s) - c : q[i] = s[c + i]
    /\ \A i \in 1 .. c : s[i].t < t - r /\ r # -1

LEMMA PurgedSo ==
  ASSUME NEW s \in Seq(Sample), NEW t \in 0 .. MaxTimestamp, NEW r \in Retention \cup {-1}
  PROVE  Purging(s, Ts!Purged(s, t, r), t, r)
<1>1. \E c \in 0 .. Len(s) :
        /\ Ts!Purged(s, t, r) \in Seq(Sample) /\ Len(Ts!Purged(s, t, r)) = Len(s) - c
        /\ \A i \in 1 .. Len(s) - c : Ts!Purged(s, t, r)[i] = s[c + i]
        /\ \A i \in 1 .. c : s[i].t < t - r /\ r # -1
        /\ c < Len(s) => r = -1 \/ ~(s[c + 1].t < t - r)
  BY PurgedIs
<1> QED BY <1>1 DEF Purging

LEMMA PurgedKeepsLast ==
  ASSUME NEW s \in Seq(Sample), s # <<>>, NEW t \in 0 .. MaxTimestamp, s[Len(s)].t = t, NEW r \in Retention \cup {-1}
  PROVE  \E c : Taking(s, Ts!Purged(s, t, r), t, r, c)
<1> DEFINE q == Ts!Purged(s, t, r)
<1>1. PICK c \in 0 .. Len(s) :
           /\ q \in Seq(Sample) /\ Len(q) = Len(s) - c
           /\ \A i \in 1 .. Len(s) - c : q[i] = s[c + i]
           /\ \A i \in 1 .. c : s[i].t < t - r /\ r # -1
  BY PurgedSo DEF Purging
<1>2. Len(s) \in Nat /\ Len(s) >= 1 /\ t \in Nat /\ r \in Int /\ (r # -1 => r >= 0)
  BY InSamples, SeriesAssumption
<1> HIDE DEF q
<1>3. c # Len(s)
  <2> SUFFICES ASSUME c = Len(s) PROVE FALSE
    OBVIOUS
  <2>1. Len(s) \in 1 .. c
    BY <1>2
  <2> QED BY <1>1, <1>2, <2>1
<1>4. Taking(s, q, t, r, c)
  BY <1>1, <1>2, <1>3 DEF Taking
<1> QED BY <1>4 DEF q

LEMMA TakenKeepsOrder ==
  ASSUME NEW s \in Seq(Sample), NEW q, NEW t, NEW r, NEW c, Taking(s, q, t, r, c), Increasing(s)
  PROVE  Increasing(q) /\ q # <<>> /\ q[Len(q)] = s[Len(s)]
<1>1. Len(s) \in Nat /\ \A i \in 1 .. Len(s) : s[i].t \in Nat
  BY InSamples
<1>2. ASSUME NEW i \in 1 .. Len(q), NEW j \in 1 .. Len(q), i < j PROVE q[i].t < q[j].t
  <2>1. q[i] = s[c + i] /\ q[j] = s[c + j] /\ c + i \in 1 .. Len(s) /\ c + j \in 1 .. Len(s) /\ c + i < c + j
    BY <1>1, <1>2 DEF Taking
  <2> QED BY <2>1 DEF Increasing
<1>3. q # <<>> /\ q[Len(q)] = s[Len(s)]
  <2>1. Len(q) >= 1 /\ Len(q) \in 1 .. Len(s) - c /\ c + Len(q) = Len(s) /\ q \in Seq(Sample)
    BY <1>1 DEF Taking
  <2> QED BY <2>1, InSamples DEF Taking
<1> QED BY <1>2, <1>3 DEF Increasing

LEMMA WindowStep ==
  ASSUME NEW e \in SeriesEntry, NEW s \in Seq(Sample), Window(e, s), Increasing(e.samples),
         NEW t \in 0 .. MaxTimestamp, NEW v \in Int, e.samples # <<>> => e.samples[Len(e.samples)].t <= t,
         NEW f, f.retention = e.retention, f.samples = Ts!Purged(Ts!Sampled(e.samples, t, v), t, e.retention)
  PROVE  Window(f, Append(s, [t |-> t, v |-> v]))
<1> DEFINE a == e.samples
           p == Ts!Sampled(a, t, v)
           q == f.samples
           r == e.retention
           x == [t |-> t, v |-> v]
           h == Append(s, x)
           n == Len(s)
           z == Len(a)
<1>1. a \in Seq(Sample) /\ r \in Retention \cup {-1} /\ r \in Int /\ x \in Sample /\ x.t = t /\ t \in Nat
  <2>1. a \in Seq(Sample) /\ r \in Retention \cup {-1}
    BY DEF SeriesEntry
  <2>2. x \in Sample /\ x.t = t
    BY DEF Sample
  <2> HIDE DEF a, r, x
  <2> QED BY <2>1, <2>2, SeriesAssumption
<1>2. n \in Nat /\ h \in Seq(Sample) /\ Len(h) = n + 1 /\ h[n + 1] = x /\ (\A i \in 1 .. n : h[i] = s[i])
      /\ (\A i \in 1 .. n : s[i].t \in Nat) /\ (s # <<>> <=> n >= 1)
  BY <1>1, AppendProperties, InSamples
<1>3. /\ p \in Seq(Sample) /\ p # <<>>
      /\ IF a # <<>> /\ a[z].t = t
         THEN Len(p) = z /\ (\A i \in 1 .. z - 1 : p[i] = a[i]) /\ p[z] = x
         ELSE Len(p) = z + 1 /\ (\A i \in 1 .. z : p[i] = a[i]) /\ p[z + 1] = x
  <2> HIDE DEF a, r, h, n
  <2> QED BY <1>1, SampledIs
<1>4. Increasing(p) /\ p[Len(p)] = x
  BY <1>1, SampledIncreasing
<1>5. z \in Nat /\ (a # <<>> <=> z >= 1) /\ \A i \in 1 .. z : a[i].t \in Nat
  BY <1>1, InSamples
<1>6. (z >= 1 => a[z].t <= t) /\ (\A i, j \in 1 .. z : i < j => a[i].t < a[j].t) /\ q = Ts!Purged(p, t, r)
  BY <1>5 DEF Increasing
<1>7. /\ s = <<>> <=> a = <<>>
      /\ s # <<>> => a[z] = s[n]
      /\ \A i, j \in 1 .. n : i < j => s[i].t <= s[j].t
      /\ \A i \in 1 .. z : \E y \in 1 .. n : IsNewest(s, y) /\ a[i] = s[y]
      /\ \A y \in 1 .. n : IsNewest(s, y) =>
           \/ \E i \in 1 .. z : a[i] = s[y]
           \/ r # -1 /\ \E o \in Retention : s[y].t < s[n].t - o
  BY DEF Window
<1> HIDE DEF a, p, q, r, x, h, n, z
<1>8. PICK c : Taking(p, q, t, r, c)
  BY <1>1, <1>3, <1>4, <1>6, PurgedKeepsLast
<1>9. Increasing(q) /\ q # <<>> /\ q[Len(q)] = x
  BY <1>3, <1>4, <1>8, TakenKeepsOrder
<1>10. Len(p) \in Nat /\ Len(q) \in Nat /\ c \in 0 .. Len(p) - 1 /\ Len(q) = Len(p) - c
  BY <1>3, <1>8, InSamples DEF Taking
<1>11. \A i \in 1 .. Len(p) : i < Len(p) => i \in 1 .. z /\ p[i] = a[i] /\ a[i].t < t
  <2> SUFFICES ASSUME NEW i \in 1 .. Len(p), i < Len(p) PROVE i \in 1 .. z /\ p[i] = a[i] /\ a[i].t < t
    OBVIOUS
  <2>1. CASE a # <<>> /\ a[z].t = t
    BY <1>3, <1>5, <1>6, <2>1
  <2>2. CASE ~(a # <<>> /\ a[z].t = t)
    <3>1. Len(p) = z + 1 /\ i \in 1 .. z /\ p[i] = a[i] /\ a[z].t < t
      BY <1>3, <1>5, <1>6, <2>2
    <3>2. a[i].t <= a[z].t
      <4>1. CASE i = z
        BY <1>5, <3>1, <4>1
      <4>2. CASE i # z
        BY <1>5, <1>6, <3>1, <4>2
      <4> QED BY <4>1, <4>2
    <3> QED BY <1>1, <1>5, <3>1, <3>2
  <2> QED BY <2>1, <2>2
<1>12. \A y \in 1 .. n : IsNewest(h, y) <=> IsNewest(s, y) /\ s[y].t # t
  <2> SUFFICES ASSUME NEW y \in 1 .. n PROVE IsNewest(h, y) <=> IsNewest(s, y) /\ s[y].t # t
    OBVIOUS
  <2>1. n + 1 \in 1 .. n + 1 /\ n + 1 > y /\ h[n + 1].t = t /\ h[y] = s[y]
    BY <1>1, <1>2
  <2>2. ASSUME IsNewest(h, y) PROVE IsNewest(s, y) /\ s[y].t # t
    <3>1. s[y].t # t
      BY <1>2, <2>1, <2>2 DEF IsNewest
    <3>2. ASSUME NEW j \in 1 .. n, j > y PROVE s[j].t # s[y].t
      BY <1>2, <2>1, <2>2, <3>2 DEF IsNewest
    <3> QED BY <3>1, <3>2 DEF IsNewest, n
  <2>3. ASSUME IsNewest(s, y), s[y].t # t PROVE IsNewest(h, y)
    <3>1. ASSUME NEW j \in 1 .. n + 1, j > y PROVE h[j].t # h[y].t
      <4>1. CASE j = n + 1
        BY <2>1, <2>3, <4>1
      <4>2. CASE j # n + 1
        <5>1. j \in 1 .. n /\ h[j] = s[j]
          BY <1>2, <4>2
        <5> QED BY <2>1, <2>3, <3>1, <5>1 DEF IsNewest, n
      <4> QED BY <4>1, <4>2
    <3> QED BY <1>2, <3>1 DEF IsNewest
  <2> QED BY <2>2, <2>3
<1>13. h # <<>> /\ h[Len(h)] = x
  BY <1>2, InSamples
<1>14. ASSUME NEW i \in 1 .. Len(h), NEW j \in 1 .. Len(h), i < j PROVE h[i].t <= h[j].t
  <2>1. i \in 1 .. n /\ h[i] = s[i] /\ s[i].t \in Nat /\ s[n].t \in Nat /\ n \in 1 .. n
    BY <1>2, <1>14
  <2>2. CASE j = n + 1
    <3>1. s[i].t <= s[n].t
      <4>1. CASE i = n
        BY <2>1, <4>1
      <4>2. CASE i # n
        BY <1>2, <1>7, <2>1, <4>2
      <4> QED BY <4>1, <4>2
    <3>2. s[n].t <= t
      BY <1>2, <1>5, <1>6, <1>7, <2>1
    <3> QED BY <1>1, <1>2, <2>1, <2>2, <3>1, <3>2
  <2>3. CASE j # n + 1
    <3>1. j \in 1 .. n /\ h[j] = s[j]
      BY <1>2, <2>3
    <3> QED BY <1>7, <1>14, <2>1, <3>1
  <2> QED BY <2>2, <2>3
<1>15. ASSUME NEW i \in 1 .. Len(q) PROVE \E y \in 1 .. Len(h) : IsNewest(h, y) /\ q[i] = h[y]
  <2>1. c + i \in 1 .. Len(p) /\ q[i] = p[c + i]
    BY <1>8, <1>10 DEF Taking
  <2>2. CASE c + i = Len(p)
    <3>1. q[i] = x /\ n + 1 \in 1 .. Len(h) /\ h[n + 1] = x
      BY <1>2, <1>4, <2>1, <2>2
    <3>2. IsNewest(h, n + 1)
      BY <1>2 DEF IsNewest
    <3> QED BY <3>1, <3>2
  <2>3. CASE c + i # Len(p)
    <3>1. c + i < Len(p)
      BY <1>10, <2>1, <2>3
    <3>2. c + i \in 1 .. z /\ q[i] = a[c + i] /\ a[c + i].t < t
      BY <1>11, <2>1, <3>1
    <3>3. PICK y \in 1 .. n : IsNewest(s, y) /\ a[c + i] = s[y]
      BY <1>7, <3>2
    <3>4. IsNewest(h, y) /\ y \in 1 .. Len(h) /\ q[i] = h[y]
      BY <1>1, <1>2, <1>12, <3>2, <3>3
    <3> QED BY <3>4
  <2> QED BY <2>2, <2>3
<1>16. ASSUME NEW y \in 1 .. Len(h), IsNewest(h, y)
       PROVE  \/ \E i \in 1 .. Len(q) : q[i] = h[y]
              \/ r # -1 /\ \E o \in Retention : h[y].t < h[Len(h)].t - o
  <2>1. CASE y = n + 1
    <3>1. Len(q) \in 1 .. Len(q) /\ q[Len(q)] = h[y]
      BY <1>2, <1>9, <1>10, <2>1
    <3> QED BY <3>1
  <2>2. CASE y # n + 1
    <3>1. y \in 1 .. n /\ IsNewest(s, y) /\ s[y].t # t /\ h[y] = s[y] /\ h[Len(h)].t = t
      BY <1>1, <1>2, <1>12, <1>13, <1>16, <2>2
    <3>2. CASE \E i \in 1 .. z : a[i] = s[y]
      <4>1. PICK i \in 1 .. z : a[i] = s[y]
        BY <3>2
      <4>2. i < Len(p) /\ i \in 1 .. Len(p) /\ p[i] = s[y]
        <5>1. CASE a # <<>> /\ a[z].t = t
          <6>1. i # z
            BY <3>1, <4>1, <5>1
          <6> QED BY <1>3, <1>5, <4>1, <5>1, <6>1
        <5>2. CASE ~(a # <<>> /\ a[z].t = t)
          BY <1>3, <1>5, <4>1, <5>2
        <5> QED BY <5>1, <5>2
      <4>3. CASE i <= c
        <5>1. p[i].t < t - r /\ r # -1 /\ r \in Retention
          BY <1>1, <1>8, <1>10, <4>2, <4>3 DEF Taking
        <5> QED BY <3>1, <4>2, <5>1
      <4>4. CASE ~(i <= c)
        <5>1. i - c \in 1 .. Len(q) /\ i - c \in 1 .. Len(p) - c /\ c + (i - c) = i
          BY <1>10, <4>2, <4>4
        <5>2. q[i - c] = h[y]
          BY <1>8, <3>1, <4>2, <5>1 DEF Taking
        <5> QED BY <5>1, <5>2
      <4> QED BY <4>3, <4>4
    <3>3. CASE r # -1 /\ \E o \in Retention : s[y].t < s[n].t - o
      <4>1. PICK o \in Retention : s[y].t < s[n].t - o
        BY <3>3
      <4>2. n \in 1 .. n /\ s[n].t \in Nat /\ s[n].t <= t /\ o \in Nat /\ s[y].t \in Nat
        BY <1>2, <1>5, <1>6, <1>7, <3>1, SeriesAssumption
      <4>3. s[y].t < t - o
        <5> DEFINE b == s[y].t
                   d == s[n].t
        <5>1. b < d - o /\ b \in Nat /\ d \in Nat /\ d <= t /\ o \in Nat /\ t \in Nat
          BY <1>1, <4>1, <4>2
        <5> HIDE DEF b, d
        <5>2. b < t - o
          BY <5>1
        <5> QED BY <5>2 DEF b
      <4>4. h[y].t < h[Len(h)].t - o
        BY <3>1, <4>3
      <4> QED BY <3>3, <4>4
    <3> QED BY <1>7, <3>1, <3>2, <3>3
  <2> QED BY <1>2, <2>1, <2>2
<1> HIDE DEF IsNewest
<1> QED BY <1>9, <1>13, <1>14, <1>15, <1>16 DEF Window, q, h, x, r

(* The sample is stored before the rules are applied; no rule's destination overtakes its source by that. *)

Stored(p, m, k, t) ==
  /\ p \in SeriesStores /\ DOMAIN p = DOMAIN m \cup {k} /\ \A x \in DOMAIN m \ {k} : p[x] = m[x]
  /\ p[k].rules = Ts!GetOrInit(m, k).rules /\ Increasing(p[k].samples)
  /\ p[k].samples # <<>> /\ p[k].samples[Len(p[k].samples)].t = t
  /\ k \in DOMAIN m /\ m[k].samples # <<>> => m[k].samples[Len(m[k].samples)].t <= t

LEMMA StoredApart ==
  ASSUME NEW m \in SeriesStores, RulesApart(m), NEW k \in Source, NEW t \in Nat, NEW p, Stored(p, m, k, t)
  PROVE  RulesApart(p)
<1>1. DOMAIN p = DOMAIN m \cup {k} /\ (\A x \in DOMAIN m \ {k} : p[x] = m[x]) /\ Len(<<>>) = 0 /\ 1 .. 0 = {}
  BY DEF Stored
<1>2. ASSUME NEW x \in DOMAIN p, NEW i \in 1 .. Len(p[x].rules)
      PROVE  x \in DOMAIN m /\ p[x].rules = m[x].rules /\ i \in 1 .. Len(m[x].rules)
  <2>1. CASE x = k
    <3>1. p[k].rules = Ts!GetOrInit(m, k).rules
      BY DEF Stored
    <3>2. CASE k \in DOMAIN m
      BY <1>2, <2>1, <3>1, <3>2, SeriesGetIs
    <3>3. CASE k \notin DOMAIN m
      <4>1. p[k].rules = <<>>
        BY <3>1, <3>3, SeriesGetIs, NewSeries
      <4> QED BY <1>1, <1>2, <2>1, <4>1
    <3> QED BY <3>2, <3>3
  <2>2. CASE x # k
    BY <1>1, <1>2, <2>2
  <2> QED BY <2>1, <2>2
<1>3. ASSUME NEW x \in DOMAIN p PROVE Increasing(p[x].samples)
  <2>1. CASE x = k
    BY <2>1 DEF Stored
  <2>2. CASE x # k
    BY <1>1, <2>2 DEF RulesApart
  <2> QED BY <2>1, <2>2
<1>4. ASSUME NEW x \in DOMAIN p, NEW i \in 1 .. Len(p[x].rules) PROVE RuleApart(p, x, i)
  <2> DEFINE d == m[x].rules[i].dest
             w == m[x].rules[i].width
             a == m[x].samples
             u == a[Len(a)].t
  <2>1. x \in DOMAIN m /\ p[x].rules = m[x].rules /\ i \in 1 .. Len(m[x].rules)
    BY <1>2, <1>4
  <2>2. RuleApart(m, x, i) /\ w \in Nat \ {0} /\ a \in Seq(Sample)
    BY <2>1, RulesOf DEF RulesApart
  <2>3. d # k /\ (d \in DOMAIN p => d \in DOMAIN m /\ p[d] = m[d])
    <3>1. d \notin Source
      BY <2>2 DEF RuleApart
    <3> QED BY <1>1, <3>1
  <2>4. Behind(p, x, i)
    <3>1. CASE x # k
      <4>1. p[x].samples = m[x].samples /\ (d \in DOMAIN p => p[d].samples = m[d].samples) /\ p[x].rules[i] = m[x].rules[i]
        BY <1>1, <2>1, <2>3, <3>1
      <4>3. SUFFICES ASSUME d \in DOMAIN p, p[d].samples # <<>>
                     PROVE  /\ m[x].samples # <<>>
                            /\ p[d].samples[Len(p[d].samples)].t <= Ts!Start(m[x].samples[Len(m[x].samples)].t, m[x].rules[i].width)
        BY <4>1 DEF Behind
      <4> QED BY <2>2, <2>3, <4>1, <4>3 DEF RuleApart, Behind
    <3>2. CASE x = k
      <4>1. p[k].samples # <<>> /\ p[k].samples[Len(p[k].samples)].t = t /\ (a # <<>> => u <= t)
        BY <2>1, <3>2 DEF Stored
      <4>2. SUFFICES ASSUME d \in DOMAIN p, p[d].samples # <<>>
                     PROVE  p[d].samples[Len(p[d].samples)].t <= Ts!Start(t, w)
        BY <2>1, <3>2, <4>1 DEF Behind
      <4>3. a # <<>> /\ m[d].samples[Len(m[d].samples)].t <= Ts!Start(u, w) /\ d \in DOMAIN m /\ p[d] = m[d] /\ m[d].samples # <<>>
        BY <2>2, <2>3, <4>2 DEF RuleApart, Behind
      <4>4. u \in Nat
        BY <2>2, <4>3, InSamples
      <4>5. m[d].samples[Len(m[d].samples)].t \in Nat
        <5> DEFINE b == m[d].samples
        <5>1. b \in Seq(Sample) /\ b # <<>>
          BY <4>3, RulesOf
        <5> HIDE DEF b
        <5>2. b[Len(b)].t \in Nat
          BY <5>1, InSamples
        <5> QED BY <5>2 DEF b
      <4>6. Ts!Start(u, w) <= Ts!Start(t, w) /\ Ts!Start(u, w) \in Nat /\ Ts!Start(t, w) \in Nat
        <5> HIDE DEF u, w
        <5> QED BY <2>2, <4>1, <4>3, <4>4, StartIs
      <4> DEFINE o == m[d].samples[Len(m[d].samples)].t
                 f == Ts!Start(u, w)
                 h == Ts!Start(t, w)
      <4>7. o <= f /\ f <= h /\ o \in Nat /\ f \in Nat /\ h \in Nat
        BY <4>3, <4>5, <4>6
      <4>8. p[d].samples[Len(p[d].samples)].t = o
        BY <4>3
      <4> HIDE DEF o, f, h
      <4>9. o <= h
        BY <4>7
      <4> QED BY <4>8, <4>9 DEF h
    <3> QED BY <3>1, <3>2
  <2>5. ASSUME NEW y \in DOMAIN p, NEW j \in 1 .. Len(p[y].rules), p[y].rules[j].dest = p[x].rules[i].dest
        PROVE  y = x /\ j = i
    <3>1. y \in DOMAIN m /\ p[y].rules = m[y].rules /\ j \in 1 .. Len(m[y].rules)
      BY <1>2, <2>5
    <3> QED BY <2>1, <2>2, <2>5, <3>1 DEF RuleApart
  <2> QED BY <2>1, <2>2, <2>4, <2>5 DEF RuleApart
<1> QED BY <1>3, <1>4 DEF RulesApart

(* What has become of each rule, and of its destination, while the rules are applied. *)

SameAt(s, m, x) == (x \in DOMAIN s <=> x \in DOMAIN m) /\ (x \in DOMAIN m => s[x] = m[x])

RuleWaits(s, m, k, j) == s[k].rules[j] = m[k].rules[j] /\ SameAt(s, m, m[k].rules[j].dest)

RuleFails(s, m, k, j, t, v) == s[k].rules[j] = Regathered(m, k, j, t, v) /\ SameAt(s, m, m[k].rules[j].dest)

RuleDone(s, m, k, j, t, v) ==
  /\ s[k].rules[j] = Regathered(m, k, j, t, v) /\ m[k].rules[j].dest \in DOMAIN s
  /\ s[m[k].rules[j].dest] = Ts!Told(Ts!GetOrInit(m, m[k].rules[j].dest), Regathered(m, k, j, t, v), Bucketed(m, k, j, t))

DestsApart(m, k) ==
  \A i, j \in 1 .. Len(m[k].rules) :
    m[k].rules[i].dest # k /\ (m[k].rules[i].dest = m[k].rules[j].dest => i = j)

Applied(acc, m, k, t, v, n) ==
  /\ Worked(acc, m, k, t, v)
  /\ acc.kv[k].samples = m[k].samples /\ acc.kv[k].type = m[k].type /\ acc.kv[k].retention = m[k].retention
  /\ \A x : x # k /\ (\A j \in 1 .. Len(m[k].rules) : x # m[k].rules[j].dest) => SameAt(acc.kv, m, x)
  /\ \A j \in 1 .. Len(m[k].rules) :
       RuleWaits(acc.kv, m, k, j) \/ RuleFails(acc.kv, m, k, j, t, v) \/ RuleDone(acc.kv, m, k, j, t, v)
  /\ ~acc.failed => \A j \in 1 .. Len(m[k].rules) :
       IF j <= n THEN RuleDone(acc.kv, m, k, j, t, v) ELSE RuleWaits(acc.kv, m, k, j)

\* A rule that is as before, in a store where its destination and its part are.
LEMMA RuleKept ==
  ASSUME NEW m, NEW k, NEW t, NEW v, NEW s, NEW p, NEW j, p[k].rules[j] = s[k].rules[j], SameAt(p, s, m[k].rules[j].dest)
  PROVE  /\ RuleWaits(s, m, k, j) => RuleWaits(p, m, k, j)
         /\ RuleFails(s, m, k, j, t, v) => RuleFails(p, m, k, j, t, v)
         /\ RuleDone(s, m, k, j, t, v) => RuleDone(p, m, k, j, t, v)
<1>1. RuleWaits(s, m, k, j) => RuleWaits(p, m, k, j)
  BY DEF RuleWaits, SameAt
<1>2. RuleFails(s, m, k, j, t, v) => RuleFails(p, m, k, j, t, v)
  BY DEF RuleFails, SameAt
<1>3. RuleDone(s, m, k, j, t, v) => RuleDone(p, m, k, j, t, v)
  BY DEF RuleDone, SameAt
<1> QED BY <1>1, <1>2, <1>3

LEMMA AppliedStep ==
  ASSUME NEW m \in SeriesStores, NEW k \in DOMAIN m, DestsApart(m, k), NEW t \in 0 .. MaxTimestamp, NEW v \in Int,
         NEW i \in 1 .. Len(m[k].rules), NEW acc, Applied(acc, m, k, t, v, i - 1)
  PROVE  Applied(Ts!ApplyRule(acc, i), m, k, t, v, i)
<1> DEFINE s == acc.kv
           p == Ts!ApplyRule(acc, i)
           q == p.kv
           r == Rewritten(s, k, i, t, v)
           f == Filled(s, k, i, t, v)
           d == Destination(s, k, i, t, v)
           y == m[k].rules[i].dest
           g == Regathered(m, k, i, t, v)
           c == Len(m[k].rules)
<1>1. Worked(p, m, k, t, v)
  BY WorksOn DEF Applied
<1>2. /\ acc \in Works /\ acc.key = k /\ acc.t = t /\ acc.v = v /\ k \in DOMAIN s /\ s \in SeriesStores
      /\ Len(s[k].rules) = c /\ c \in Nat
  BY RulesOf DEF Applied, Worked, Works
<1>3. /\ s[k].samples = m[k].samples /\ s[k].type = m[k].type /\ s[k].retention = m[k].retention
      /\ \A x : x # k /\ (\A j \in 1 .. c : x # m[k].rules[j].dest) => SameAt(s, m, x)
      /\ \A j \in 1 .. c : RuleWaits(s, m, k, j) \/ RuleFails(s, m, k, j, t, v) \/ RuleDone(s, m, k, j, t, v)
  BY DEF Applied
<1>4. CASE acc.failed
  <2>1. p = acc
    BY <1>4 DEF Ts!ApplyRule
  <2> QED BY <1>4, <2>1 DEF Applied
<1>5. CASE ~acc.failed
  <2>1. \A j \in 1 .. c : IF j <= i - 1 THEN RuleDone(s, m, k, j, t, v) ELSE RuleWaits(s, m, k, j)
    BY <1>5 DEF Applied
  <2>2. RuleWaits(s, m, k, i)
    <3>1. ~(i <= i - 1)
      BY <1>2
    <3> QED BY <2>1, <3>1
  <2>3. s[k].rules[i] = m[k].rules[i] /\ SameAt(s, m, y) /\ i \in DOMAIN s[k].rules /\ y # k
    <3>1. DOMAIN s[k].rules = 1 .. Len(s[k].rules)
      BY <1>2, RulesOf
    <3> QED BY <1>2, <2>2, <3>1 DEF RuleWaits, DestsApart
  <2>4. Regathered(s, k, i, t, v) = g /\ Bucketed(s, k, i, t) = Bucketed(m, k, i, t)
    BY <2>3 DEF Regathered, Bucketed
  <2>5. /\ r \in SeriesStores /\ DOMAIN r = DOMAIN s /\ (\A x \in DOMAIN s \ {k} : r[x] = s[x])
        /\ r[k].type = s[k].type /\ r[k].samples = s[k].samples /\ r[k].retention = s[k].retention
        /\ Len(r[k].rules) = Len(s[k].rules) /\ r[k].rules[i] = Regathered(s, k, i, t, v)
        /\ \A j \in 1 .. Len(s[k].rules) : j # i => r[k].rules[j] = s[k].rules[j]
    BY <1>2, <2>3, RewrittenIs
  <2>6. IF d.type # "timeseries" THEN p.failed /\ q = r ELSE ~p.failed /\ q = f
    BY <1>2, <1>5, <2>3, ApplyRuleIs
  <2>7. d = Ts!GetOrInit(m, y)
    <3>1. d = Ts!GetOrInit(r, y)
      BY <2>3 DEF Destination
    <3>2. (y \in DOMAIN r <=> y \in DOMAIN m) /\ (y \in DOMAIN m => r[y] = m[y])
      BY <2>3, <2>5 DEF SameAt
    <3> HIDE DEF r, d, y
    <3> QED BY <3>1, <3>2 DEF Ts!GetOrInit
  <2>8. /\ f \in SeriesStores /\ (\A x : x \in DOMAIN f <=> x \in DOMAIN s \/ x = s[k].rules[i].dest)
        /\ (\A x \in DOMAIN s : x # s[k].rules[i].dest => f[x] = r[x])
        /\ f[s[k].rules[i].dest] = Ts!Told(d, Regathered(s, k, i, t, v), Bucketed(s, k, i, t))
    BY <1>2, <2>3, FilledIs
  <2> HIDE DEF r, f, d, p, q
  <2>9. /\ \A x : x \in DOMAIN f <=> x \in DOMAIN s \/ x = y
        /\ \A x \in DOMAIN s : x # y => f[x] = r[x]
        /\ f[y] = Ts!Told(Ts!GetOrInit(m, y), g, Bucketed(m, k, i, t))
    BY <2>3, <2>4, <2>7, <2>8
  <2>10. /\ \A x : x # k /\ x # y => SameAt(q, s, x)
         /\ q[k] = r[k] /\ k \in DOMAIN q
         /\ IF p.failed THEN SameAt(q, s, y) ELSE y \in DOMAIN q /\ q[y] = Ts!Told(Ts!GetOrInit(m, y), g, Bucketed(m, k, i, t))
    <3>1. CASE d.type # "timeseries"
      <4>1. p.failed /\ q = r
        BY <2>6, <3>1
      <4> HIDE DEF y
      <4> QED BY <1>2, <2>3, <2>5, <4>1 DEF SameAt
    <3>2. CASE d.type = "timeseries"
      <4>1. ~p.failed /\ q = f
        BY <2>6, <3>2
      <4> HIDE DEF y
      <4>2. ASSUME NEW x, x # k, x # y PROVE SameAt(q, s, x)
        BY <2>5, <2>9, <4>1, <4>2 DEF SameAt
      <4>3. q[k] = r[k] /\ k \in DOMAIN q
        BY <1>2, <2>3, <2>9, <4>1
      <4>4. y \in DOMAIN q /\ q[y] = Ts!Told(Ts!GetOrInit(m, y), g, Bucketed(m, k, i, t))
        BY <2>9, <4>1
      <4> QED BY <4>1, <4>2, <4>3, <4>4
    <3> QED BY <3>1, <3>2
  <2>11. ASSUME NEW j \in 1 .. c, j # i
         PROVE  /\ RuleWaits(s, m, k, j) => RuleWaits(q, m, k, j)
                /\ RuleFails(s, m, k, j, t, v) => RuleFails(q, m, k, j, t, v)
                /\ RuleDone(s, m, k, j, t, v) => RuleDone(q, m, k, j, t, v)
    <3>1. q[k].rules[j] = s[k].rules[j]
      BY <1>2, <2>5, <2>10, <2>11
    <3>2. m[k].rules[j].dest # k /\ m[k].rules[j].dest # y
      BY <2>11 DEF DestsApart
    <3>3. SameAt(q, s, m[k].rules[j].dest)
      <4> HIDE DEF y
      <4> QED BY <2>10, <3>2
    <3> QED BY <3>1, <3>3, RuleKept
  <2>12. q[k].rules[i] = g
    BY <2>4, <2>5, <2>10
  <2>13. IF p.failed THEN RuleFails(q, m, k, i, t, v) ELSE RuleDone(q, m, k, i, t, v)
    <3>1. SameAt(q, s, y) => SameAt(q, m, y)
      BY <2>3 DEF SameAt
    <3> QED BY <2>10, <2>12, <3>1 DEF RuleFails, RuleDone
  <2>14. q[k].samples = m[k].samples /\ q[k].type = m[k].type /\ q[k].retention = m[k].retention
    BY <1>3, <2>5, <2>10
  <2>15. ASSUME NEW x, x # k, \A j \in 1 .. c : x # m[k].rules[j].dest PROVE SameAt(q, m, x)
    <3>1. x # y /\ SameAt(s, m, x)
      BY <1>3, <2>15
    <3>2. SameAt(q, s, x)
      BY <2>10, <2>15, <3>1
    <3> QED BY <3>1, <3>2 DEF SameAt
  <2>16. ASSUME NEW j \in 1 .. c
         PROVE  RuleWaits(q, m, k, j) \/ RuleFails(q, m, k, j, t, v) \/ RuleDone(q, m, k, j, t, v)
    <3>1. CASE j = i
      BY <2>13, <3>1
    <3>2. CASE j # i
      BY <1>3, <2>11, <3>2
    <3> QED BY <3>1, <3>2
  <2>17. ASSUME ~p.failed, NEW j \in 1 .. c
         PROVE  IF j <= i THEN RuleDone(q, m, k, j, t, v) ELSE RuleWaits(q, m, k, j)
    <3>1. CASE j = i
      BY <1>2, <2>13, <2>17, <3>1
    <3>2. CASE j # i
      <4>1. j <= i - 1 <=> j <= i
        BY <1>2, <3>2
      <4> QED BY <2>1, <2>11, <3>2, <4>1
    <3> QED BY <3>1, <3>2
  <2> QED BY <1>1, <2>14, <2>15, <2>16, <2>17 DEF Applied, q, p
<1> QED BY <1>4, <1>5

LEMMA RulesApplied ==
  ASSUME NEW m \in SeriesStores, NEW k \in DOMAIN m, DestsApart(m, k), NEW t \in 0 .. MaxTimestamp, NEW v \in Int
  PROVE  Applied(Ts!ApplyRules(m, k, t, v), m, k, t, v, Len(m[k].rules))
<1> DEFINE n == Len(m[k].rules)
           is == [i \in DOMAIN m[k].rules |-> i]
           base == [kv |-> m, failed |-> FALSE, key |-> k, t |-> t, v |-> v]
           S == [i \in 0 .. n |-> {acc \in Works : Applied(acc, m, k, t, v, i)}]
<1>1. k \in SeriesKey /\ n \in Nat /\ DOMAIN m[k].rules = 1 .. n
  BY RulesOf
<1>2. DOMAIN is = 1 .. n /\ \A i \in 1 .. n : is[i] = i
  BY <1>1
<1>3. base \in Works /\ Applied(base, m, k, t, v, 0)
  <2>1. base \in Works /\ base.kv = m /\ base.key = k /\ base.t = t /\ base.v = v /\ base.failed = FALSE
    BY <1>1 DEF Works
  <2> HIDE DEF base
  <2>2. Worked(base, m, k, t, v)
    BY <2>1 DEF Worked
  <2>3. \A x : SameAt(m, m, x)
    BY DEF SameAt
  <2>4. \A j \in 1 .. Len(m[k].rules) : RuleWaits(m, m, k, j) /\ ~(j <= 0)
    BY <1>1, <2>3 DEF RuleWaits
  <2> QED BY <2>1, <2>2, <2>3, <2>4 DEF Applied
<1>4. \A i \in 0 .. n : \A acc : acc \in S[i] <=> acc \in Works /\ Applied(acc, m, k, t, v, i)
  OBVIOUS
<1> HIDE DEF is, base, S
<1>5. base \in S[0]
  BY <1>1, <1>3, <1>4
<1>6. ASSUME NEW i \in 1 .. n, NEW acc \in S[i - 1] PROVE Ts!ApplyRule(acc, is[i]) \in S[i]
  <2>1. i - 1 \in 0 .. n /\ i \in 0 .. n
    BY <1>1
  <2>2. Applied(acc, m, k, t, v, i - 1)
    BY <1>4, <2>1
  <2>3. Applied(Ts!ApplyRule(acc, i), m, k, t, v, i)
    BY <2>2, AppliedStep
  <2>4. Ts!ApplyRule(acc, i) \in Works
    BY <2>3 DEF Applied, Worked
  <2> QED BY <1>2, <1>4, <2>1, <2>3, <2>4
<1> HIDE DEF n
<1>7. Applying!Fold(base, is) \in S[n]
  BY <1>1, <1>2, <1>5, <1>6, LeastNat, Applying!FoldKeeps DEF Applying!NatsHaveLeast
<1>8. Applied(Applying!Fold(base, is), m, k, t, v, n)
  BY <1>1, <1>4, <1>7
<1> QED BY <1>8, ApplyRulesAre DEF base, is, n

(* No destination overtakes its source by a rule. *)

Newest(m, k, t) == m[k].samples # <<>> /\ m[k].samples[Len(m[k].samples)].t = t

LEMMA DestinationsApart ==
  ASSUME NEW m, RulesApart(m), NEW k \in DOMAIN m
  PROVE  DestsApart(m, k) /\ k \in DOMAIN m
<1>1. ASSUME NEW i \in 1 .. Len(m[k].rules), NEW j \in 1 .. Len(m[k].rules)
      PROVE  m[k].rules[i].dest # k /\ (m[k].rules[i].dest = m[k].rules[j].dest => i = j)
  <2>1. RuleApart(m, k, i)
    BY DEF RulesApart
  <2> QED BY <2>1 DEF RuleApart
<1> QED BY <1>1 DEF DestsApart

LEMMA DoneIs ==
  ASSUME NEW m \in SeriesStores, RulesApart(m), NEW k \in DOMAIN m, NEW t \in 0 .. MaxTimestamp, NEW v \in Int, Newest(m, k, t),
         NEW j \in 1 .. Len(m[k].rules), NEW s, RuleDone(s, m, k, j, t, v), NEW d, d = m[k].rules[j].dest
  PROVE  /\ Increasing(s[d].samples) /\ s[d].samples # <<>> /\ s[d].samples[Len(s[d].samples)].t = Bucketed(m, k, j, t)
         /\ s[d].rules = Ts!GetOrInit(m, d).rules
         /\ s[d].samples = Ts!Sampled(Ts!GetOrInit(m, d).samples, Bucketed(m, k, j, t),
                                      Ts!Out(Regathered(m, k, j, t, v).agg, Regathered(m, k, j, t, v).state[Bucketed(m, k, j, t)]))
<1> DEFINE e == Ts!GetOrInit(m, d)
           g == Regathered(m, k, j, t, v)
           b == Bucketed(m, k, j, t)
           o == Ts!Out(g.agg, g.state[b])
           a == e.samples
<1>1. g \in SeriesRule /\ b \in 0 .. MaxTimestamp /\ b \in DOMAIN g.state
  <2>1. j \in DOMAIN m[k].rules
    BY RulesOf
  <2> QED BY <2>1, RulePartsAre
<1>2. e \in SeriesEntry /\ (d \in DOMAIN m => e = m[d]) /\ (d \notin DOMAIN m => a = <<>>)
  BY SeriesGetIs, NewSeries
<1>3. a \in Seq(Sample)
  BY <1>2 DEF SeriesEntry
<1>4. s[d] = Ts!Told(e, g, b)
  BY DEF RuleDone
<1>5. Increasing(a)
  <2>1. Increasing(<<>>)
    <3>1. Len(<<>>) = 0 /\ 1 .. 0 = {}
      OBVIOUS
    <3> QED BY <3>1 DEF Increasing
  <2> QED BY <1>2, <2>1 DEF RulesApart
<1>6. a # <<>> => a[Len(a)].t <= b
  <2>1. CASE d \notin DOMAIN m
    BY <1>2, <2>1
  <2>2. CASE d \in DOMAIN m
    <3>1. Behind(m, k, j)
      BY DEF RulesApart, RuleApart
    <3>2. a = m[d].samples
      BY <1>2, <2>2
    <3>3. b = Ts!Start(t, m[k].rules[j].width)
      BY DEF Bucketed
    <3>4. m[k].samples[Len(m[k].samples)].t = t
      BY DEF Newest
    <3> HIDE DEF a, b
    <3> QED BY <2>2, <3>1, <3>2, <3>3, <3>4 DEF Behind
  <2> QED BY <2>1, <2>2
<1> HIDE DEF e, g, b, o, a
<1>7. Ts!Told(e, g, b).rules = e.rules /\ Ts!Told(e, g, b).samples = Ts!Sampled(a, b, o) /\ o \in Int
  BY <1>1, <1>2, ToldIs DEF o, a
<1>8. /\ Increasing(Ts!Sampled(a, b, o)) /\ Ts!Sampled(a, b, o) # <<>>
      /\ Ts!Sampled(a, b, o)[Len(Ts!Sampled(a, b, o))] = [t |-> b, v |-> o]
  BY <1>1, <1>3, <1>5, <1>6, <1>7, SampledIncreasing
<1>9. s[d].rules = e.rules /\ s[d].samples = Ts!Sampled(a, b, o)
  BY <1>4, <1>7
<1> QED BY <1>8, <1>9 DEF e, g, b, o, a

Destined(m, k, x) == \E j \in 1 .. Len(m[k].rules) : x = m[k].rules[j].dest

LEMMA AppliedRule ==
  ASSUME NEW m \in SeriesStores, RulesApart(m), NEW k \in DOMAIN m, NEW t \in 0 .. MaxTimestamp, NEW v \in Int,
         NEW acc, NEW n, Applied(acc, m, k, t, v, n), NEW j \in 1 .. Len(m[k].rules)
  PROVE  /\ RuleApart(m, k, j) /\ m[k].rules[j].dest \notin Source
         /\ acc.kv[k].rules[j].dest = m[k].rules[j].dest /\ acc.kv[k].rules[j].width = m[k].rules[j].width
         /\ \/ SameAt(acc.kv, m, m[k].rules[j].dest)
            \/ RuleDone(acc.kv, m, k, j, t, v) /\ m[k].rules[j].dest \in DOMAIN acc.kv
<1> DEFINE s == acc.kv
<1>1. RuleWaits(s, m, k, j) \/ RuleFails(s, m, k, j, t, v) \/ RuleDone(s, m, k, j, t, v)
  BY DEF Applied
<1>2. RuleApart(m, k, j)
  BY DEF RulesApart
<1>3. j \in DOMAIN m[k].rules
  BY RulesOf
<1>4. Regathered(m, k, j, t, v).dest = m[k].rules[j].dest /\ Regathered(m, k, j, t, v).width = m[k].rules[j].width
  BY <1>3, RulePartsAre
<1> QED BY <1>1, <1>2, <1>4 DEF RuleApart, RuleWaits, RuleFails, RuleDone

LEMMA AppliedFrom ==
  ASSUME NEW m \in SeriesStores, RulesApart(m), NEW k \in DOMAIN m,
         NEW t \in 0 .. MaxTimestamp, NEW v \in Int, Newest(m, k, t),
         NEW acc, NEW n, Applied(acc, m, k, t, v, n), NEW x \in DOMAIN acc.kv, NEW i \in 1 .. Len(acc.kv[x].rules)
  PROVE  /\ x \in DOMAIN m /\ i \in 1 .. Len(m[x].rules) /\ acc.kv[x].samples = m[x].samples
         /\ acc.kv[x].rules[i].dest = m[x].rules[i].dest /\ acc.kv[x].rules[i].width = m[x].rules[i].width
         /\ x # k => acc.kv[x].rules = m[x].rules
<1> DEFINE s == acc.kv
           c == Len(m[k].rules)
<1>1. /\ k \in DOMAIN s /\ s[k].samples = m[k].samples /\ Len(s[k].rules) = c
      /\ \A z : z # k /\ ~Destined(m, k, z) => SameAt(s, m, z)
  BY DEF Applied, Worked, Destined
<1>2. Len(<<>>) = 0 /\ 1 .. 0 = {}
  OBVIOUS
<1>3. CASE x = k
  <2>1. i \in 1 .. Len(m[k].rules)
    BY <1>1, <1>3
  <2> QED BY <1>1, <1>3, <2>1, AppliedRule
<1>4. CASE x # k /\ ~Destined(m, k, x)
  BY <1>1, <1>4 DEF SameAt
<1>5. CASE Destined(m, k, x)
  <2>1. PICK j \in 1 .. Len(m[k].rules) : x = m[k].rules[j].dest
    BY <1>5 DEF Destined
  <2>2. x \notin Source /\ (SameAt(s, m, x) \/ RuleDone(s, m, k, j, t, v))
    BY <2>1, AppliedRule
  <2>3. \A h \in 1 .. Len(m[x].rules) : x \notin DOMAIN m
    BY <2>2 DEF RulesApart, RuleApart
  <2>4. CASE x \in DOMAIN m /\ s[x].rules = m[x].rules
    BY <2>3, <2>4
  <2>5. CASE s[x].rules = <<>>
    BY <1>2, <2>5
  <2>6. (x \in DOMAIN m /\ s[x].rules = m[x].rules) \/ s[x].rules = <<>>
    <3>1. CASE SameAt(s, m, x)
      BY <3>1 DEF SameAt
    <3>2. CASE RuleDone(s, m, k, j, t, v)
      <4>1. s[x].rules = Ts!GetOrInit(m, x).rules
        BY <2>1, <3>2, DoneIs
      <4> QED BY <4>1, SeriesGetIs, NewSeries
    <3> QED BY <2>2, <3>1, <3>2
  <2> QED BY <2>4, <2>5, <2>6
<1> QED BY <1>3, <1>4, <1>5

LEMMA AppliedApart ==
  ASSUME NEW m \in SeriesStores, RulesApart(m), NEW k \in DOMAIN m, k \in Source,
         NEW t \in 0 .. MaxTimestamp, NEW v \in Int, Newest(m, k, t),
         NEW acc, NEW n, Applied(acc, m, k, t, v, n)
  PROVE  RulesApart(acc.kv)
<1> DEFINE s == acc.kv
           c == Len(m[k].rules)
<1>1. /\ k \in DOMAIN s /\ s[k].samples = m[k].samples /\ Len(s[k].rules) = c
      /\ \A x : x # k /\ ~Destined(m, k, x) => SameAt(s, m, x)
  BY DEF Applied, Worked, Destined
<1>3. ASSUME NEW j \in 1 .. c
      PROVE  /\ RuleApart(m, k, j) /\ m[k].rules[j].dest \notin Source
             /\ \/ SameAt(s, m, m[k].rules[j].dest)
                \/ RuleDone(s, m, k, j, t, v) /\ m[k].rules[j].dest \in DOMAIN s
  BY AppliedRule
<1> HIDE DEF s, c
<1>4. ASSUME NEW x \in DOMAIN s PROVE Increasing(s[x].samples)
  <2>1. CASE x = k
    BY <1>1, <2>1 DEF RulesApart
  <2>2. CASE x # k /\ ~Destined(m, k, x)
    BY <1>1, <1>4, <2>2 DEF SameAt, RulesApart
  <2>3. CASE Destined(m, k, x)
    <3>1. PICK j \in 1 .. c : x = m[k].rules[j].dest
      BY <2>3 DEF Destined, c
    <3>2. CASE SameAt(s, m, x)
      BY <1>4, <3>2 DEF SameAt, RulesApart
    <3>3. CASE RuleDone(s, m, k, j, t, v)
      <4>1. j \in 1 .. Len(m[k].rules)
        BY DEF c
      <4> QED BY <3>1, <3>3, <4>1, DoneIs
    <3> QED BY <1>3, <3>1, <3>2, <3>3
  <2> QED BY <2>1, <2>2, <2>3
<1>6. ASSUME NEW x \in DOMAIN s, NEW i \in 1 .. Len(s[x].rules) PROVE RuleApart(s, x, i)
  <2> DEFINE d == m[x].rules[i].dest
  <2>1. /\ x \in DOMAIN m /\ i \in 1 .. Len(m[x].rules) /\ s[x].samples = m[x].samples
        /\ s[x].rules[i].dest = d /\ s[x].rules[i].width = m[x].rules[i].width
    BY <1>6, AppliedFrom DEF s
  <2>2. RuleApart(m, x, i)
    BY <2>1 DEF RulesApart
  <2>3. Behind(s, x, i)
    <3>1. CASE SameAt(s, m, d)
      <4>1. SUFFICES ASSUME d \in DOMAIN s, s[d].samples # <<>>
                     PROVE  /\ m[x].samples # <<>>
                            /\ s[d].samples[Len(s[d].samples)].t <= Ts!Start(m[x].samples[Len(m[x].samples)].t, m[x].rules[i].width)
        BY <2>1 DEF Behind
      <4>2. d \in DOMAIN m /\ s[d] = m[d]
        BY <3>1, <4>1 DEF SameAt
      <4> QED BY <2>2, <4>1, <4>2 DEF RuleApart, Behind
    <3>2. CASE x = k /\ RuleDone(s, m, k, i, t, v)
      <4>1. i \in 1 .. Len(m[k].rules) /\ d = m[k].rules[i].dest
        BY <2>1, <3>2
      <4> HIDE DEF d
      <4>2. s[d].samples[Len(s[d].samples)].t = Bucketed(m, k, i, t)
        BY <3>2, <4>1, DoneIs
      <4>3. Bucketed(m, k, i, t) = Ts!Start(t, m[k].rules[i].width)
        BY DEF Bucketed
      <4>4. m[k].samples # <<>> /\ m[k].samples[Len(m[k].samples)].t = t
        BY DEF Newest
      <4>5. Bucketed(m, k, i, t) \in Int
        <5>1. i \in DOMAIN m[k].rules
          BY <4>1, RulesOf
        <5>2. Bucketed(m, k, i, t) \in 0 .. MaxTimestamp
          BY <5>1, RulePartsAre
        <5> QED BY <5>2
      <4> HIDE DEF Behind
      <4>6. s[d].samples[Len(s[d].samples)].t <= Ts!Start(m[x].samples[Len(m[x].samples)].t, m[x].rules[i].width)
        <5>1. Ts!Start(m[x].samples[Len(m[x].samples)].t, m[x].rules[i].width) = Bucketed(m, k, i, t)
          BY <3>2, <4>3, <4>4
        <5> QED BY <4>2, <4>5, <5>1
      <4>7. m[x].samples # <<>>
        BY <3>2, <4>4
      <4> QED BY <2>1, <4>6, <4>7 DEF Behind, d
    <3>3. SameAt(s, m, d) \/ (x = k /\ RuleDone(s, m, k, i, t, v))
      <4>1. CASE x = k
        <5>1. i \in 1 .. c
          BY <2>1, <4>1 DEF c
        <5> QED BY <1>3, <4>1, <5>1
      <4>2. CASE x # k
        <5>1. d \notin Source
          BY <2>2 DEF RuleApart
        <5>2. ~Destined(m, k, d)
          <6> SUFFICES ASSUME NEW j \in 1 .. c, d = m[k].rules[j].dest PROVE FALSE
            BY DEF Destined, c
          <6> QED BY <2>2, <4>2 DEF RuleApart, c
        <5> QED BY <1>1, <5>1, <5>2
      <4> QED BY <4>1, <4>2
    <3> QED BY <3>1, <3>2, <3>3
  <2>4. ASSUME NEW z \in DOMAIN s, NEW j \in 1 .. Len(s[z].rules), s[z].rules[j].dest = s[x].rules[i].dest
        PROVE  z = x /\ j = i
    <3>1. z \in DOMAIN m /\ j \in 1 .. Len(m[z].rules) /\ s[z].rules[j].dest = m[z].rules[j].dest
      BY <2>4, AppliedFrom DEF s
    <3> QED BY <2>1, <2>2, <2>4, <3>1 DEF RuleApart
  <2> QED BY <2>1, <2>2, <2>3, <2>4 DEF RuleApart
<1> QED BY <1>4, <1>6 DEF RulesApart, s

(* A rule that kept what TS.RANGE computes does so with one more sample. *)

Takes(g, r, x, b) == b = Ts!Start(x.t, r.width) /\ g = Ts!Gathering(r, b, x.v)

LEMMA GathersOneMore ==
  ASSUME NEW r \in SeriesRule, NEW s \in Seq(Sample), GathersWell(r, s), NEW x \in Sample,
         \A i \in 1 .. Len(s) : s[i].t <= x.t, NEW b, NEW g, Takes(g, r, x, b)
  PROVE  /\ GathersWell(g, Append(s, x))
         /\ Ts!Aggregated(Append(s, x), r.agg, r.width) = Ts!Sampled(Ts!Aggregated(s, r.agg, r.width), b, Ts!Out(g.agg, g.state[b]))
<1> DEFINE w == r.width
           h == Append(s, x)
<1>1. w \in Nat \ {0} /\ r.agg \in {"sum", "min", "max"} /\ x.t \in Nat /\ x.v \in Int
  BY SeriesAssumption DEF SeriesRule, Sample
<1>2. b \in Nat /\ b = Ts!Start(x.t, w)
  BY <1>1, StartIs DEF Takes
<1>3. /\ g \in SeriesRule /\ g.agg = r.agg /\ g.width = w /\ DOMAIN g.state = DOMAIN r.state \cup {b}
      /\ g.state[b] = Ts!With(IF b \in DOMAIN r.state THEN r.state[b] ELSE Ts!NoState, x.v)
      /\ \A z \in DOMAIN r.state \ {b} : g.state[z] = r.state[z]
  <2> DEFINE y == x.v
  <2>1. g = Ts!Gathering(r, b, y) /\ y \in Int
    BY <1>1 DEF Takes
  <2> HIDE DEF y
  <2>2. /\ Ts!Gathering(r, b, y) \in SeriesRule /\ Ts!Gathering(r, b, y).agg = r.agg /\ Ts!Gathering(r, b, y).width = r.width
        /\ DOMAIN Ts!Gathering(r, b, y).state = DOMAIN r.state \cup {b} /\ Ts!Gathering(r, b, y).state[b] = Gathered(r, b, y)
        /\ \A z \in DOMAIN r.state \ {b} : Ts!Gathering(r, b, y).state[z] = r.state[z]
    BY <1>2, <2>1, GatheringIs
  <2>3. g.state[b] = Gathered(r, b, y)
    BY <2>1, <2>2
  <2> QED BY <2>1, <2>2, <2>3 DEF Gathered, y
<1>4. /\ Ranked(Ts!Starts(s, w)) /\ DOMAIN r.state = Ts!Starts(s, w)
      /\ \A z \in Nat : Ts!Bucket(s, z, w) = IF z \in DOMAIN r.state THEN r.state[z] ELSE Ts!NoState
  BY DEF GathersWell
<1>5. /\ Ranked(Ts!Starts(h, w))
      /\ Ts!Aggregated(h, r.agg, w) = Ts!Sampled(Ts!Aggregated(s, r.agg, w), b, Ts!Out(r.agg, Ts!Bucket(h, b, w)))
  BY <1>1, <1>2, <1>4, AggregatedGrows
<1>6. Ts!Starts(h, w) = Ts!Starts(s, w) \cup {b}
  BY <1>1, <1>2, StartsWithOneMore
<1>7. \A z \in Nat : Ts!Bucket(h, z, w) = IF b = z THEN Ts!With(Ts!Bucket(s, z, w), x.v) ELSE Ts!Bucket(s, z, w)
  BY <1>2, BucketWithOneMore
<1> HIDE DEF w, h
<1>8. Ts!Bucket(h, b, w) = g.state[b]
  BY <1>2, <1>3, <1>4, <1>7
<1>9. ASSUME NEW z \in Nat
      PROVE  Ts!Bucket(h, z, w) = IF z \in DOMAIN g.state THEN g.state[z] ELSE Ts!NoState
  <2>1. CASE z = b
    BY <1>3, <1>8, <2>1
  <2>2. CASE z # b
    <3>1. z \in DOMAIN g.state <=> z \in DOMAIN r.state
      BY <1>3, <2>2
    <3>2. z \in DOMAIN r.state => g.state[z] = r.state[z]
      BY <1>3, <2>2
    <3> QED BY <1>4, <1>7, <2>2, <3>1, <3>2
  <2> QED BY <2>1, <2>2
<1>10. GathersWell(g, h)
  BY <1>3, <1>4, <1>5, <1>6, <1>9 DEF GathersWell
<1> QED BY <1>3, <1>5, <1>8, <1>10 DEF w, h

LEMMA SinceIs ==
  ASSUME NEW l \in Seq(Sample), NEW r \in SeriesRule, r.since <= Len(l)
  PROVE  /\ Since(l, r) \in Seq(Sample) /\ Len(Since(l, r)) = Len(l) - r.since /\ r.since \in Nat
         /\ \A i \in 1 .. Len(l) - r.since : Since(l, r)[i] = l[r.since + i]
<1> DEFINE n == Len(l)
           c == r.since
           i == c + 1
           q == Since(l, r)
<1>1. c \in Nat /\ n \in Nat /\ i \in Int /\ n \in Int /\ \A j \in 1 .. n : l[j] \in Sample
  BY LenProperties, ElementOfSeq DEF SeriesRule
<1>2. q = SubSeq(l, i, n)
  BY DEF Since
<1>3. c <= n
  OBVIOUS
<1>4. \A j \in i .. n : l[j] \in Sample
  BY <1>1
<1> HIDE DEF n, c, i, q
<1>5. q \in Seq(Sample) /\ Len(q) = (IF i <= n THEN n - i + 1 ELSE 0) /\ \A j \in 1 .. n - i + 1 : q[j] = l[i + j - 1]
  BY <1>1, <1>2, <1>4, SubSeqProperties
<1>6. Len(q) = n - c /\ n - i + 1 = n - c
  BY <1>1, <1>3, <1>5 DEF i
<1>7. ASSUME NEW j \in 1 .. n - c PROVE q[j] = l[c + j]
  <2>1. i + j - 1 = c + j /\ j \in 1 .. n - i + 1
    BY <1>1, <1>6 DEF i
  <2> QED BY <1>5, <2>1
<1> QED BY <1>1, <1>5, <1>6, <1>7 DEF q, n, c

LEMMA SinceAppended ==
  ASSUME NEW l \in Seq(Sample), NEW r \in SeriesRule, r.since <= Len(l), NEW x \in Sample
  PROVE  Since(Append(l, x), r) = Append(Since(l, r), x) /\ r.since <= Len(Append(l, x))
<1> DEFINE h == Append(l, x)
           n == Len(l)
           c == r.since
           p == Since(h, r)
           s == Since(l, r)
           q == Append(s, x)
<1>1. n \in Nat /\ h \in Seq(Sample) /\ Len(h) = n + 1 /\ h[n + 1] = x /\ \A i \in 1 .. n : h[i] = l[i]
  BY AppendProperties, LenProperties
<1>2. s \in Seq(Sample) /\ Len(s) = n - c /\ c \in Nat /\ c <= n /\ \A i \in 1 .. n - c : s[i] = l[c + i]
  BY SinceIs
<1>3. c <= Len(h)
  BY <1>1, <1>2
<1>4. p \in Seq(Sample) /\ Len(p) = Len(h) - c /\ \A i \in 1 .. Len(h) - c : p[i] = h[c + i]
  <2> HIDE DEF h
  <2> QED BY <1>1, <1>3, SinceIs
<1>5. q \in Seq(Sample) /\ Len(q) = Len(s) + 1 /\ q[Len(s) + 1] = x /\ \A i \in 1 .. Len(s) : q[i] = s[i]
  <2> HIDE DEF s
  <2> QED BY <1>2, AppendProperties
<1> HIDE DEF h, n, c, p, s, q
<1>6. Len(p) = Len(q)
  BY <1>1, <1>2, <1>4, <1>5
<1>7. ASSUME NEW i \in 1 .. Len(p) PROVE p[i] = q[i]
  <2>1. CASE i = n - c + 1
    <3>1. c + i = n + 1 /\ i = Len(s) + 1
      BY <1>1, <1>2, <2>1
    <3> QED BY <1>1, <1>4, <1>5, <1>7, <3>1
  <2>2. CASE i # n - c + 1
    <3>1. i \in 1 .. n - c /\ c + i \in 1 .. n
      BY <1>1, <1>2, <1>4, <1>7, <2>2
    <3>2. i \in 1 .. Len(h) - c
      BY <1>4, <1>7
    <3> QED BY <1>1, <1>2, <1>4, <1>5, <3>1, <3>2
  <2> QED BY <2>1, <2>2
<1>8. p = q
  BY <1>4, <1>5, <1>6, <1>7, SeqEqual
<1> QED BY <1>3, <1>8 DEF p, q, s, h, c

\* The samples of one series are stored: the rules are as they were, and its own are of before the sample.
LEMMA StoredExact ==
  ASSUME NEW m \in SeriesStores, NEW l, RulesApart(m), RulesExact(m, l), NEW k \in Source, NEW t, NEW p, Stored(p, m, k, t),
         NEW x \in DOMAIN p, NEW i \in 1 .. Len(p[x].rules)
  PROVE  x \in DOMAIN m /\ i \in 1 .. Len(m[x].rules) /\ p[x].rules = m[x].rules /\ RuleExact(p, l, x, i)
<1>1. DOMAIN p = DOMAIN m \cup {k} /\ (\A z \in DOMAIN m \ {k} : p[z] = m[z]) /\ Len(<<>>) = 0 /\ 1 .. 0 = {}
  BY DEF Stored
<1>2. x \in DOMAIN m /\ p[x].rules = m[x].rules
  <2>1. CASE x = k
    <3>1. p[k].rules = Ts!GetOrInit(m, k).rules
      BY DEF Stored
    <3>2. CASE k \in DOMAIN m
      BY <2>1, <3>1, <3>2, SeriesGetIs
    <3>3. CASE k \notin DOMAIN m
      <4>1. p[k].rules = <<>>
        BY <3>1, <3>3, SeriesGetIs, NewSeries
      <4> QED BY <1>1, <2>1, <4>1
    <3> QED BY <3>2, <3>3
  <2>2. CASE x # k
    BY <1>1, <2>2
  <2> QED BY <2>1, <2>2
<1>3. RuleApart(m, x, i) /\ RuleExact(m, l, x, i)
  BY <1>2 DEF RulesApart, RulesExact
<1> DEFINE d == m[x].rules[i].dest
<1>4. d # k /\ d \in DOMAIN m
  BY <1>3 DEF RuleApart, RuleExact
<1>5. d \in DOMAIN p /\ p[d] = m[d]
  BY <1>1, <1>4
<1> QED BY <1>2, <1>3, <1>5 DEF RuleExact

(* What a TS.ADD leaves: the window, and the rules. *)

Got(e, m, k) == e = Ts!GetOrInit(m, k)
Samples(f, e, t, v) == f.retention = e.retention /\ f.samples = Ts!Purged(Ts!Sampled(e.samples, t, v), t, e.retention)
Logged(h, l, k, t, v) == h = [l EXCEPT ![k] = Append(l[k], [t |-> t, v |-> v])]

LEMMA AppliedWindows ==
  ASSUME NEW m \in SeriesStores, NEW l \in [SeriesKey -> Seq(Sample)], Windows(m, l), RulesApart(m),
         NEW k \in Source, k \in SeriesKey, NEW t \in 0 .. MaxTimestamp, NEW v \in Int,
         NEW e, Got(e, m, k), e.samples # <<>> => e.samples[Len(e.samples)].t <= t, NEW f, Samples(f, e, t, v),
         NEW p \in SeriesStores, PutIs(p, m, k, f), RulesApart(p), NEW acc, NEW n, Applied(acc, p, k, t, v, n),
         NEW h, Logged(h, l, k, t, v)
  PROVE  Windows(acc.kv, h)
<1> DEFINE s == acc.kv
           q == Append(l[k], [t |-> t, v |-> v])
<1>1. /\ k \in DOMAIN s /\ s[k].samples = p[k].samples /\ s[k].retention = p[k].retention
      /\ \A x : x # k /\ ~Destined(p, k, x) => SameAt(s, p, x)
  BY DEF Applied, Worked, Destined
<1>2. DOMAIN p = DOMAIN m \cup {k} /\ p[k] = f /\ \A x \in DOMAIN m \ {k} : p[x] = m[x]
  BY DEF PutIs
<1>3. h[k] = q /\ \A y \in SeriesKey : y # k => h[y] = l[y]
  BY DEF Logged
<1>4. l[k] \in Seq(Sample) /\ e \in SeriesEntry
  BY SeriesGetIs DEF Got
<1> HIDE DEF s
<1>5. ASSUME NEW y \in Source, y # k
      PROVE  (y \in DOMAIN s => Window(s[y], h[y])) /\ (y \notin DOMAIN s => h[y] = <<>>)
  <2>1. ~Destined(p, k, y)
    BY <1>2 DEF Destined, RulesApart, RuleApart
  <2>2. SameAt(s, p, y) /\ SameAt(p, m, y)
    BY <1>1, <1>2, <1>5, <2>1 DEF SameAt
  <2>3. (y \in DOMAIN m => Window(m[y], l[y])) /\ (y \notin DOMAIN m => l[y] = <<>>)
    BY DEF Windows
  <2>4. h[y] = l[y]
    BY <1>3, <1>5, SeriesAssumption
  <2> QED BY <2>2, <2>3, <2>4 DEF SameAt
<1>6. Window(s[k], q)
  <2>1. Window(e, l[k]) /\ Increasing(e.samples)
    <3>1. CASE k \in DOMAIN m
      <4>1. e = m[k]
        BY <3>1, SeriesGetIs DEF Got
      <4> QED BY <3>1, <4>1 DEF Windows, RulesApart
    <3>2. CASE k \notin DOMAIN m
      <4>1. e.samples = <<>> /\ l[k] = <<>> /\ Len(<<>>) = 0 /\ 1 .. 0 = {}
        BY <3>2, SeriesGetIs, NewSeries DEF Windows, Got
      <4> QED BY <4>1 DEF Window, Increasing
    <3> QED BY <3>1, <3>2
  <2> DEFINE a == s[k]
             b == l[k]
  <2>2. a.retention = e.retention /\ a.samples = Ts!Purged(Ts!Sampled(e.samples, t, v), t, e.retention)
    BY <1>1, <1>2 DEF Samples
  <2> HIDE DEF a
  <2>3. Window(a, Append(b, [t |-> t, v |-> v]))
    <3>1. b \in Seq(Sample) /\ Window(e, b) /\ Increasing(e.samples)
      BY <1>4, <2>1
    <3> HIDE DEF b
    <3> QED BY <1>4, <2>2, <3>1, WindowStep
  <2> QED BY <2>3 DEF a
<1> HIDE DEF q
<1>7. Windows(s, h)
  BY <1>1, <1>3, <1>5, <1>6 DEF Windows
<1> QED BY <1>7 DEF s

LongerBy(h, l, k, x) == h[k] = Append(l[k], x)

\* What a rule has made of a sample is what TS.RANGE computes with it.
LEMMA RuleExactAgain ==
  ASSUME NEW p \in SeriesStores, RulesApart(p), NEW k \in DOMAIN p, NEW t \in 0 .. MaxTimestamp, NEW v \in Int, Newest(p, k, t),
         NEW s, NEW i \in 1 .. Len(p[k].rules), RuleDone(s, p, k, i, t, v),
         NEW l \in [SeriesKey -> Seq(Sample)], RuleExact(p, l, k, i),
         Increasing(l[k]), l[k] # <<>> => l[k][Len(l[k])].t <= t,
         NEW h, LongerBy(h, l, k, [t |-> t, v |-> v])
  PROVE  RuleExact(s, h, k, i)
<1> DEFINE r == p[k].rules[i]
           w == r.width
           b == Bucketed(p, k, i, t)
           g == Regathered(p, k, i, t, v)
           d == r.dest
           x == [t |-> t, v |-> v]
           u == l[k]
           q == Since(u, r)
<1>1. r \in SeriesRule /\ g \in SeriesRule /\ g.dest = d /\ g.agg = r.agg /\ g.width = r.width /\ g.since = r.since
      /\ w \in Nat \ {0} /\ r.agg \in {"sum", "min", "max"}
  <2>1. i \in DOMAIN p[k].rules
    BY RulesOf
  <2>2. /\ r \in SeriesRule /\ g \in SeriesRule /\ g.dest = r.dest /\ g.agg = r.agg /\ g.width = r.width /\ g.since = r.since
    BY <2>1, RulePartsAre
  <2> HIDE DEF r, g
  <2> QED BY <2>2 DEF SeriesRule
<1>2. s[k].rules[i] = g /\ d \in DOMAIN s
  BY DEF RuleDone
<1>3. /\ r.since <= Len(u) /\ d \in DOMAIN p /\ GathersWell(r, q)
      /\ p[d].samples = Ts!Aggregated(q, r.agg, w)
  BY DEF RuleExact
<1>4. b = Ts!Start(t, w) /\ g = Ts!Gathering(r, b, v)
  BY DEF Bucketed, Regathered
<1>5. x \in Sample /\ x.t = t /\ x.v = v /\ t \in Nat
  BY SeriesAssumption DEF Sample
<1>6. s[d].samples = Ts!Sampled(Ts!Aggregated(q, r.agg, w), b, Ts!Out(g.agg, g.state[b]))
  <2>1. s[d].samples = Ts!Sampled(Ts!GetOrInit(p, d).samples, b, Ts!Out(g.agg, g.state[b]))
    BY DoneIs
  <2> HIDE DEF r, g, b
  <2>2. Ts!GetOrInit(p, d) = p[d]
    BY <1>3, SeriesGetIs
  <2> QED BY <1>3, <2>1, <2>2
<1>7. u \in Seq(Sample) /\ Increasing(u) /\ (u # <<>> => u[Len(u)].t <= t) /\ h[k] = Append(u, x)
  <2>1. k \in SeriesKey
    BY RulesOf
  <2> QED BY <2>1 DEF LongerBy
<1> HIDE DEF r, w, b, g, d, x, u
<1>8. q \in Seq(Sample) /\ Len(q) = Len(u) - r.since /\ r.since \in Nat
      /\ \A j \in 1 .. Len(u) - r.since : q[j] = u[r.since + j]
  BY <1>1, <1>3, <1>7, SinceIs
<1>9. Since(Append(u, x), r) = Append(q, x) /\ r.since <= Len(Append(u, x))
  BY <1>1, <1>3, <1>5, <1>7, SinceAppended
<1> HIDE DEF q
<1>10. ASSUME NEW j \in 1 .. Len(q) PROVE q[j].t <= x.t
  <2>1. Len(u) \in Nat /\ (u # <<>> <=> Len(u) >= 1) /\ \A n \in 1 .. Len(u) : u[n].t \in Nat
    BY <1>7, InSamples
  <2> DEFINE n == r.since + j
  <2>2. n \in 1 .. Len(u) /\ q[j] = u[n]
    <3>1. j \in 1 .. Len(u) - r.since
      BY <1>8, <1>10
    <3>2. q[j] = u[r.since + j]
      BY <1>8, <3>1
    <3>3. r.since + j \in 1 .. Len(u)
      BY <1>8, <2>1, <3>1
    <3> QED BY <3>2, <3>3
  <2>3. u[Len(u)].t <= t /\ Len(u) \in 1 .. Len(u)
    BY <1>7, <2>1, <2>2
  <2> HIDE DEF n
  <2>4. u[n].t <= u[Len(u)].t
    <3>1. CASE n = Len(u)
      BY <2>1, <2>3, <3>1
    <3>2. CASE n # Len(u)
      <4>1. n < Len(u)
        BY <2>1, <2>2, <3>2
      <4>2. u[n].t < u[Len(u)].t
        BY <1>7, <2>2, <2>3, <4>1 DEF Increasing
      <4> QED BY <2>1, <2>2, <2>3, <4>2
    <3> QED BY <3>1, <3>2
  <2> DEFINE c == u[n].t
             o == u[Len(u)].t
  <2>5. c <= o /\ o <= t /\ c \in Nat /\ o \in Nat /\ q[j].t = c
    BY <2>1, <2>2, <2>3, <2>4
  <2> HIDE DEF c, o
  <2>6. c <= t
    BY <1>5, <2>5
  <2> QED BY <1>5, <2>5, <2>6
<1>11. /\ GathersWell(g, Append(q, x))
       /\ Ts!Aggregated(Append(q, x), r.agg, w) = Ts!Sampled(Ts!Aggregated(q, r.agg, w), b, Ts!Out(g.agg, g.state[b]))
  <2>1. Takes(g, r, x, b)
    BY <1>4, <1>5 DEF w, Takes
  <2>2. r \in SeriesRule /\ q \in Seq(Sample) /\ GathersWell(r, q) /\ x \in Sample /\ \A j \in 1 .. Len(q) : q[j].t <= x.t
    BY <1>1, <1>3, <1>5, <1>8, <1>10
  <2>3. /\ GathersWell(g, Append(q, x))
        /\ Ts!Aggregated(Append(q, x), r.agg, r.width)
             = Ts!Sampled(Ts!Aggregated(q, r.agg, r.width), b, Ts!Out(g.agg, g.state[b]))
    BY <2>1, <2>2, GathersOneMore
  <2> QED BY <2>3 DEF w
<1>12. Since(h[k], g) = Append(q, x) /\ g.since <= Len(h[k])
  <2>1. Since(Append(u, x), g) = Since(Append(u, x), r)
    BY <1>1 DEF Since
  <2> QED BY <1>1, <1>7, <1>9, <2>1
<1>13. s[d].samples = Ts!Aggregated(Since(h[k], g), g.agg, g.width)
  BY <1>1, <1>6, <1>11, <1>12 DEF w
<1> QED BY <1>1, <1>2, <1>11, <1>12, <1>13 DEF RuleExact

LEMMA IncreasingAppended ==
  ASSUME NEW s \in Seq(Sample), Increasing(s), NEW x \in Sample, s # <<>> => s[Len(s)].t < x.t
  PROVE  Append(s, x) \in Seq(Sample) /\ Increasing(Append(s, x))
<1> DEFINE n == Len(s)
           q == Append(s, x)
<1>1. n \in Nat /\ q \in Seq(Sample) /\ Len(q) = n + 1 /\ q[n + 1] = x /\ (\A i \in 1 .. n : q[i] = s[i])
      /\ (s # <<>> <=> n >= 1) /\ \A i \in 1 .. n : s[i].t \in Nat
  BY AppendProperties, InSamples
<1>2. x.t \in Nat /\ (n >= 1 => s[n].t < x.t) /\ \A i, j \in 1 .. n : i < j => s[i].t < s[j].t
  BY <1>1, SeriesAssumption DEF Increasing, Sample
<1> HIDE DEF n, q
<1>3. ASSUME NEW i \in 1 .. n + 1, NEW j \in 1 .. n + 1, i < j PROVE q[i].t < q[j].t
  <2>1. i \in 1 .. n /\ n \in 1 .. n
    BY <1>1, <1>3
  <2>2. CASE j = n + 1
    <3>1. s[i].t <= s[n].t
      <4>1. CASE i = n
        BY <1>1, <2>1, <4>1
      <4>2. CASE i # n
        BY <1>1, <1>2, <2>1, <4>2
      <4> QED BY <4>1, <4>2
    <3>2. q[i] = s[i] /\ q[j] = x /\ s[n].t < x.t /\ s[i].t \in Nat /\ s[n].t \in Nat
      BY <1>1, <1>2, <2>1, <2>2
    <3> QED BY <1>2, <3>1, <3>2
  <2>3. CASE j # n + 1
    <3>1. j \in 1 .. n
      BY <1>1, <2>3
    <3> QED BY <1>1, <1>2, <1>3, <2>1, <3>1
  <2> QED BY <2>2, <2>3
<1> QED BY <1>1, <1>3 DEF Increasing, q

LEMMA AppliedExact ==
  ASSUME NEW p \in SeriesStores, RulesApart(p), NEW k \in DOMAIN p, k \in Source,
         NEW t \in 0 .. MaxTimestamp, NEW v \in Int, Newest(p, k, t),
         NEW acc, Applied(acc, p, k, t, v, Len(p[k].rules)), ~acc.failed,
         NEW l \in [SeriesKey -> Seq(Sample)], \A y \in SeriesKey : Increasing(l[y]),
         \A x \in DOMAIN p : \A i \in 1 .. Len(p[x].rules) : RuleExact(p, l, x, i),
         l[k] # <<>> => l[k][Len(l[k])].t < t,
         NEW h, Logged(h, l, k, t, v)
  PROVE  RulesExact(acc.kv, h)
<1> DEFINE s == acc.kv
           z == [t |-> t, v |-> v]
<1>1. k \in SeriesKey /\ l[k] \in Seq(Sample) /\ Increasing(l[k]) /\ z \in Sample /\ z.t = t /\ t \in Nat
  <2>1. k \in SeriesKey
    BY RulesOf
  <2>2. z \in Sample /\ z.t = t /\ t \in Nat
    BY SeriesAssumption DEF Sample
  <2> HIDE DEF z
  <2> QED BY <2>1, <2>2
<1>2. h[k] = Append(l[k], z) /\ \A y \in SeriesKey : y # k => h[y] = l[y]
  BY <1>1 DEF Logged
<1>3. /\ \A x : x # k /\ ~Destined(p, k, x) => SameAt(s, p, x)
      /\ \A j \in 1 .. Len(p[k].rules) : RuleDone(s, p, k, j, t, v)
  <2>1. \A j \in 1 .. Len(p[k].rules) : j <= Len(p[k].rules)
    BY RulesOf
  <2> QED BY <2>1 DEF Applied, Destined
<1>4. ASSUME NEW y \in SeriesKey PROVE Increasing(h[y])
  <2>1. CASE y = k
    <3> DEFINE u == l[k]
    <3>1. u \in Seq(Sample) /\ Increasing(u) /\ (u # <<>> => u[Len(u)].t < z.t)
      BY <1>1
    <3> HIDE DEF u, z
    <3>2. Increasing(Append(u, z))
      BY <1>1, <3>1, IncreasingAppended
    <3> QED BY <1>2, <2>1, <3>2 DEF u
  <2>2. CASE y # k
    BY <1>2, <2>2
  <2> QED BY <2>1, <2>2
<1> HIDE DEF s
<1>5. ASSUME NEW x \in DOMAIN s, NEW i \in 1 .. Len(s[x].rules) PROVE RuleExact(s, h, x, i)
  <2>1. x \in DOMAIN p /\ i \in 1 .. Len(p[x].rules) /\ (x # k => s[x].rules = p[x].rules)
    BY <1>5, AppliedFrom DEF s
  <2>2. RuleExact(p, l, x, i) /\ RuleApart(p, x, i) /\ x \in SeriesKey
    BY <2>1, RulesOf DEF RulesApart
  <2>3. CASE x = k
    <3>1. RuleDone(s, p, k, i, t, v) /\ RuleExact(p, l, k, i) /\ i \in 1 .. Len(p[k].rules)
      BY <1>3, <2>1, <2>2, <2>3
    <3>2. l[k] # <<>> => l[k][Len(l[k])].t <= t
      <4>1. l[k] # <<>> => l[k][Len(l[k])].t \in Nat
        <5> DEFINE u == l[k]
        <5>1. u \in Seq(Sample)
          BY <1>1
        <5> HIDE DEF u
        <5>2. u # <<>> => u[Len(u)].t \in Nat
          BY <5>1, InSamples
        <5> QED BY <5>2 DEF u
      <4> QED BY <1>1, <4>1
    <3>3. LongerBy(h, l, k, [t |-> t, v |-> v])
      BY <1>2 DEF LongerBy
    <3>4. RuleExact(s, h, k, i)
      BY <1>1, <3>1, <3>2, <3>3, RuleExactAgain
    <3> QED BY <2>3, <3>4
  <2>4. CASE x # k
    <3> DEFINE d == p[x].rules[i].dest
    <3>1. d \notin Source /\ d # k
      BY <2>2 DEF RuleApart
    <3>2. ~Destined(p, k, d)
      BY <2>2, <2>4 DEF RuleApart, Destined
    <3>3. SameAt(s, p, d) /\ h[x] = l[x] /\ s[x].rules = p[x].rules
      BY <1>2, <1>3, <2>1, <2>2, <2>4, <3>1, <3>2
    <3> QED BY <2>2, <3>3 DEF RuleExact, SameAt
  <2> QED BY <2>3, <2>4
<1> QED BY <1>4, <1>5 DEF RulesExact, s

(* TS.ADD *)

Sampling(e, t, v) == [e EXCEPT !.samples = Ts!Purged(Ts!Sampled(e.samples, t, v), t, e.retention)]

LEMMA SamplingIs ==
  ASSUME NEW e \in SeriesEntry, NEW t \in 0 .. MaxTimestamp, NEW v \in Int
  PROVE  /\ Sampling(e, t, v) \in SeriesEntry /\ Samples(Sampling(e, t, v), e, t, v)
         /\ Sampling(e, t, v).rules = e.rules /\ Sampling(e, t, v).type = e.type
<1> DEFINE a == e.samples
           r == e.retention
           q == Ts!Sampled(a, t, v)
           p == Ts!Purged(q, t, r)
           f == Sampling(e, t, v)
<1>1. a \in Seq(Sample) /\ r \in Retention \cup {-1}
  BY DEF SeriesEntry
<1> HIDE DEF a, r
<1>2. q \in Seq(Sample)
  BY <1>1, SampledIs
<1> HIDE DEF q
<1>3. p \in Seq(Sample)
  BY <1>1, <1>2, PurgedSo DEF Purging
<1>4. f = [e EXCEPT !.samples = p]
  BY DEF Sampling, p, q, a, r
<1> HIDE DEF p
<1>5. [e EXCEPT !.samples = p] \in SeriesEntry /\ [e EXCEPT !.samples = p].samples = p
      /\ [e EXCEPT !.samples = p].rules = e.rules /\ [e EXCEPT !.samples = p].type = e.type
      /\ [e EXCEPT !.samples = p].retention = e.retention
  BY <1>3 DEF SeriesEntry
<1> HIDE DEF f
<1>6. f \in SeriesEntry /\ f.samples = p /\ f.rules = e.rules /\ f.type = e.type /\ f.retention = e.retention
  BY <1>4, <1>5
<1>7. Samples(f, e, t, v)
  BY <1>6 DEF Samples, p, q, a, r
<1> QED BY <1>6, <1>7 DEF f

LEMMA SamplingIncreasing ==
  ASSUME NEW e \in SeriesEntry, NEW t \in 0 .. MaxTimestamp, NEW v \in Int, Increasing(e.samples),
         e.samples # <<>> => e.samples[Len(e.samples)].t <= t, NEW f, Samples(f, e, t, v)
  PROVE  Increasing(f.samples) /\ f.samples # <<>> /\ f.samples[Len(f.samples)].t = t
<1> DEFINE a == e.samples
           r == e.retention
           q == Ts!Sampled(a, t, v)
           p == Ts!Purged(q, t, r)
<1>1. a \in Seq(Sample) /\ r \in Retention \cup {-1} /\ Increasing(a) /\ (a # <<>> => a[Len(a)].t <= t)
  BY DEF SeriesEntry
<1>2. f.samples = p
  BY DEF Samples
<1> HIDE DEF a, r
<1>3. q \in Seq(Sample)
  BY <1>1, SampledIs
<1>4. Increasing(q) /\ q # <<>> /\ q[Len(q)] = [t |-> t, v |-> v]
  BY <1>1, SampledIncreasing
<1>5. q[Len(q)].t = t
  BY <1>4
<1> HIDE DEF q
<1>6. PICK c : Taking(q, p, t, r, c)
  BY <1>1, <1>3, <1>4, <1>5, PurgedKeepsLast
<1> HIDE DEF p
<1>7. Increasing(p) /\ p # <<>> /\ p[Len(p)] = q[Len(q)]
  BY <1>3, <1>4, <1>6, TakenKeepsOrder
<1> QED BY <1>2, <1>5, <1>7

Accepts(m, k, t, a) ==
  /\ k \in Source \/ "shared" \in a
  /\ Ts!GetOrInit(m, k).type = "timeseries"
  /\ Ts!GetOrInit(m, k).samples # <<>> =>
       /\ Ts!GetOrInit(m, k).samples[Len(Ts!GetOrInit(m, k).samples)].t <= t
       /\ Ts!GetOrInit(m, k).samples[Len(Ts!GetOrInit(m, k).samples)].t = t => "replaced" \in a

LEMMA SampleStored ==
  ASSUME NEW m \in SeriesStores, NEW k \in SeriesKey, NEW t \in 0 .. MaxTimestamp, NEW v \in Int, NEW a,
         Accepts(m, k, t, a), RulesApart(m),
         NEW p, PutIs(p, m, k, Sampling(Ts!GetOrInit(m, k), t, v))
  PROVE  Stored(p, m, k, t) /\ Newest(p, k, t)
<1> DEFINE e == Ts!GetOrInit(m, k)
           f == Sampling(e, t, v)
<1>1. e \in SeriesEntry /\ Increasing(e.samples) /\ (k \in DOMAIN m => e = m[k])
  <2>1. CASE k \in DOMAIN m
    <3>1. e = m[k] /\ e \in SeriesEntry
      BY <2>1, SeriesGetIs
    <3> QED BY <2>1, <3>1 DEF RulesApart
  <2>2. CASE k \notin DOMAIN m
    <3>1. e.samples = <<>> /\ e \in SeriesEntry /\ Len(<<>>) = 0 /\ 1 .. 0 = {}
      BY <2>2, SeriesGetIs, NewSeries
    <3>2. Increasing(e.samples)
      <4> HIDE DEF e
      <4> QED BY <3>1 DEF Increasing
    <3> QED BY <2>2, <3>1, <3>2
  <2> QED BY <2>1, <2>2
<1>2. e.samples # <<>> => e.samples[Len(e.samples)].t <= t
  BY DEF Accepts
<1>3. DOMAIN p = DOMAIN m \cup {k} /\ p[k] = f /\ p \in SeriesStores /\ \A x \in DOMAIN m \ {k} : p[x] = m[x]
  BY DEF PutIs
<1>9. \A z : z = e => z = Ts!GetOrInit(m, k)
  OBVIOUS
<1> HIDE DEF e
<1>4. f \in SeriesEntry /\ Samples(f, e, t, v) /\ f.rules = e.rules
  BY <1>1, SamplingIs
<1> HIDE DEF f
<1>5. Increasing(f.samples) /\ f.samples # <<>> /\ f.samples[Len(f.samples)].t = t
  BY <1>1, <1>2, <1>4, SamplingIncreasing
<1>6. p[k].rules = Ts!GetOrInit(m, k).rules /\ k \in DOMAIN p
  BY <1>3, <1>4, <1>9
<1>7. k \in DOMAIN m /\ m[k].samples # <<>> => m[k].samples[Len(m[k].samples)].t <= t
  BY <1>1, <1>2
<1> QED BY <1>3, <1>5, <1>6, <1>7 DEF Stored, Newest

LEMMA LastLogged ==
  ASSUME NEW e \in SeriesEntry, NEW s, Window(e, s), NEW t \in Nat, e.samples # <<>> => e.samples[Len(e.samples)].t < t
  PROVE  s # <<>> => s[Len(s)].t < t
BY DEF Window

LEMMA LoggedWell ==
  ASSUME NEW l \in [SeriesKey -> Seq(Sample)], NEW k \in SeriesKey, NEW t \in 0 .. MaxTimestamp, NEW v \in Int,
         NEW h, Logged(h, l, k, t, v)
  PROVE  h \in [SeriesKey -> Seq(Sample)]
<1> DEFINE x == [t |-> t, v |-> v]
           u == l[k]
<1>1. x \in Sample /\ u \in Seq(Sample)
  BY DEF Sample
<1> HIDE DEF x, u
<1>2. Append(u, x) \in Seq(Sample)
  BY <1>1, AppendProperties
<1> QED BY <1>2 DEF Logged, x, u

LEMMA SampleAdded ==
  ASSUME NEW m, NEW l, NEW a, StoreGood(m, l, a), NEW k \in SeriesKey, NEW t \in 0 .. MaxTimestamp, NEW v \in Int,
         Accepts(m, k, t, a), NEW p, PutIs(p, m, k, Sampling(Ts!GetOrInit(m, k), t, v)), NEW h, Logged(h, l, k, t, v)
  PROVE  StoreGood(Ts!ApplyRules(p, k, t, v).kv, h, a) /\ ("retyped" \notin a => ~Ts!ApplyRules(p, k, t, v).failed)
<1> DEFINE acc == Ts!ApplyRules(p, k, t, v)
           e == Ts!GetOrInit(m, k)
           f == Sampling(e, t, v)
<1>1. m \in SeriesStores /\ l \in [SeriesKey -> Seq(Sample)] /\ p \in SeriesStores /\ k \in DOMAIN p
  BY DEF StoreGood, PutIs
<1>2. e \in SeriesEntry /\ f \in SeriesEntry /\ Samples(f, e, t, v) /\ f.type = "timeseries" /\ Got(e, m, k)
  <2>1. e \in SeriesEntry /\ e.type = "timeseries" /\ Got(e, m, k)
    BY <1>1, SeriesGetIs DEF Accepts, Got
  <2> HIDE DEF e
  <2> QED BY <2>1, SamplingIs
<1>3. Worked(acc, p, k, t, v)
  BY <1>1, RulesWork
<1>4. acc.kv \in SeriesStores
  BY <1>3 DEF Worked, Works
<1>5. "retyped" \notin a => ~acc.failed /\ NoTexts(acc.kv)
  <2> SUFFICES ASSUME "retyped" \notin a PROVE ~acc.failed /\ NoTexts(acc.kv)
    OBVIOUS
  <2>1. NoTexts(m)
    BY DEF StoreGood
  <2>2. NoTexts(p)
    <3> HIDE DEF f
    <3> QED BY <1>2, <2>1 DEF NoTexts, PutIs, f, e
  <2> QED BY <1>3, <2>2 DEF Worked
<1>6. h \in [SeriesKey -> Seq(Sample)]
  BY <1>1, LoggedWell
<1> DEFINE c == Len(p[k].rules)
<1>7. ASSUME "shared" \notin a
      PROVE  /\ RulesApart(m) /\ k \in Source /\ Stored(p, m, k, t) /\ Newest(p, k, t) /\ RulesApart(p)
             /\ Applied(acc, p, k, t, v, c) /\ RulesApart(acc.kv)
  <2>1. RulesApart(m) /\ k \in Source /\ t \in Nat
    BY <1>7, SeriesAssumption DEF StoreGood, Accepts
  <2>2. Stored(p, m, k, t) /\ Newest(p, k, t)
    BY <1>1, <2>1, SampleStored
  <2>3. RulesApart(p)
    BY <1>1, <2>1, <2>2, StoredApart
  <2>4. DestsApart(p, k)
    BY <1>1, <2>3, DestinationsApart
  <2>5. Applied(acc, p, k, t, v, c)
    BY <1>1, <2>4, RulesApplied
  <2> HIDE DEF acc, c
  <2>6. RulesApart(acc.kv)
    BY <1>1, <2>1, <2>2, <2>3, <2>5, AppliedApart
  <2> QED BY <2>1, <2>2, <2>3, <2>5, <2>6
<1> HIDE DEF acc, c
<1>8. ASSUME a \cap {"shared", "deleted", "retyped"} = {} PROVE Windows(acc.kv, h)
  <2>1. "shared" \notin a /\ Windows(m, l)
    BY <1>8 DEF StoreGood
  <2>2. e.samples # <<>> => e.samples[Len(e.samples)].t <= t
    BY DEF Accepts
  <2>3. PutIs(p, m, k, f)
    OBVIOUS
  <2> HIDE DEF e, f
  <2> QED BY <1>1, <1>2, <1>7, <2>1, <2>2, <2>3, AppliedWindows
<1>9. ASSUME a = {} PROVE RulesExact(acc.kv, h)
  <2>1. "shared" \notin a /\ Windows(m, l) /\ RulesExact(m, l) /\ ~acc.failed
    BY <1>5, <1>9 DEF StoreGood
  <2>2. e.samples # <<>> => e.samples[Len(e.samples)].t < t
    <3>1. e.samples # <<>> => e.samples[Len(e.samples)].t <= t /\ e.samples[Len(e.samples)].t # t
      BY <1>9 DEF Accepts
    <3>2. e.samples # <<>> => e.samples[Len(e.samples)].t \in Nat
      <4> DEFINE u == e.samples
      <4>1. u \in Seq(Sample)
        BY <1>2 DEF SeriesEntry
      <4> HIDE DEF u
      <4>2. u # <<>> => u[Len(u)].t \in Nat
        BY <4>1, InSamples
      <4> QED BY <4>2 DEF u
    <3>3. t \in Nat
      BY SeriesAssumption
    <3> HIDE DEF e
    <3> QED BY <3>1, <3>2, <3>3
  <2>3. l[k] # <<>> => l[k][Len(l[k])].t < t
    <3>1. CASE k \in DOMAIN m
      <4>1. e = m[k]
        BY <1>1, <3>1, SeriesGetIs
      <4>2. Window(e, l[k]) /\ t \in Nat
        BY <1>7, <2>1, <3>1, <4>1, SeriesAssumption DEF Windows
      <4> HIDE DEF e
      <4> QED BY <1>2, <2>2, <4>2, LastLogged
    <3>2. CASE k \notin DOMAIN m
      BY <1>7, <2>1, <3>2 DEF Windows
    <3> QED BY <3>1, <3>2
  <2>4. \A x \in DOMAIN p : \A i \in 1 .. Len(p[x].rules) : RuleExact(p, l, x, i)
    BY <1>1, <1>7, <2>1, StoredExact
  <2>5. \A y \in SeriesKey : Increasing(l[y])
    BY <2>1 DEF RulesExact
  <2>6. Applied(acc, p, k, t, v, Len(p[k].rules))
    BY <1>7, <2>1 DEF c
  <2> QED BY <1>1, <1>7, <2>1, <2>3, <2>4, <2>5, <2>6, AppliedExact
<1> QED BY <1>4, <1>5, <1>6, <1>7, <1>8, <1>9 DEF StoreGood, acc

(* The commands *)

SeriesInv ==
  /\ around \subseteq {"replaced", "shared", "deleted", "retyped"} /\ reply \in {"done", "error"}
  /\ StoreGood(kv, log, around)

SeriesKept == SeriesInv' /\ Ts!ErrorChangesNothing

LEMMA SampleKept ==
  ASSUME NEW k \in SeriesKey, NEW t \in 0 .. MaxTimestamp, NEW v \in Value
  PROVE  SeriesInv /\ Ts!Add(k, t, v) => SeriesKept
<1> SUFFICES ASSUME SeriesInv, Ts!Add(k, t, v) PROVE SeriesKept
  OBVIOUS
<1> DEFINE e == Ts!GetOrInit(kv, k)
           last == IF e.samples = <<>> THEN -1 ELSE e.samples[Len(e.samples)].t
           p == Ts!Put(kv, k, Sampling(e, t, v))
           acc == Ts!ApplyRules(p, k, t, v)
<1>1. /\ UNCHANGED around
      /\ k \in Source \/ "shared" \in around
      /\ t = last => "replaced" \in around
      /\ IF e.type # "timeseries" \/ t < last THEN reply' = "error" /\ UNCHANGED <<kv, log>>
         ELSE /\ kv' = acc.kv
              /\ log' = [log EXCEPT ![k] = Append(@, Ts!At(t, v))]
              /\ reply' = IF acc.failed THEN "error" ELSE "done"
  BY DEF Ts!Add, Ts!Last, Sampling
<1>2. kv \in SeriesStores /\ v \in Int /\ e \in SeriesEntry /\ t \in Nat
  BY SeriesGetIs, SeriesAssumption DEF SeriesInv, StoreGood
<1>3. CASE e.type # "timeseries" \/ t < last
  BY <1>1, <1>3 DEF SeriesInv, SeriesKept, Ts!ErrorChangesNothing
<1>4. CASE ~(e.type # "timeseries" \/ t < last)
  <2>1. e.samples # <<>> => last = e.samples[Len(e.samples)].t /\ last \in Nat
    <3> DEFINE u == e.samples
    <3>1. u \in Seq(Sample)
      BY <1>2 DEF SeriesEntry
    <3> HIDE DEF u
    <3>2. u # <<>> => u[Len(u)].t \in Nat
      BY <3>1, InSamples
    <3> QED BY <3>2 DEF u
  <2> HIDE DEF last
  <2>2. Accepts(kv, k, t, around)
    <3>1. e.type = "timeseries" /\ (k \in Source \/ "shared" \in around)
      BY <1>1, <1>4
    <3>2. e.samples # <<>> => e.samples[Len(e.samples)].t <= t /\ (e.samples[Len(e.samples)].t = t => "replaced" \in around)
      BY <1>1, <1>2, <1>4, <2>1
    <3> QED BY <3>1, <3>2 DEF Accepts
  <2>3. PutIs(p, kv, k, Sampling(e, t, v))
    <3>1. Sampling(e, t, v) \in SeriesEntry
      <4> HIDE DEF e
      <4> QED BY <1>2, SamplingIs
    <3> QED BY <1>2, <3>1, SeriesPuts
  <2>4. Logged(log', log, k, t, v) /\ kv' = acc.kv /\ around' = around /\ reply' = IF acc.failed THEN "error" ELSE "done"
    BY <1>1, <1>4 DEF Logged, Ts!At
  <2> HIDE DEF p
  <2>5. StoreGood(acc.kv, log', around) /\ ("retyped" \notin around => ~acc.failed)
    BY <1>2, <2>2, <2>3, <2>4, SampleAdded DEF SeriesInv
  <2> HIDE DEF acc
  <2>6. StoreGood(kv', log', around')
    BY <2>4, <2>5
  <2> QED BY <2>4, <2>5, <2>6 DEF SeriesInv, SeriesKept, Ts!ErrorChangesNothing
<1>5. (e.type # "timeseries" \/ t < last) \/ ~(e.type # "timeseries" \/ t < last)
  OBVIOUS
<1> HIDE DEF e, last, p, acc
<1> QED BY <1>3, <1>4, <1>5

LEMMA SeriesAnswered ==
  ASSUME SeriesInv, NEW m, Ts!Answer(m), StoreGood(m, log, around)
  PROVE  SeriesKept
BY DEF Ts!Answer, SeriesInv, SeriesKept, Ts!ErrorChangesNothing

LEMMA SeriesRefused == SeriesInv /\ Ts!Refuse => SeriesKept
BY DEF Ts!Refuse, SeriesInv, SeriesKept, Ts!ErrorChangesNothing

LEMMA SeriesCreated ==
  ASSUME NEW k \in SeriesKey, NEW r \in Retention \cup {-1}
  PROVE  SeriesInv /\ Ts!Create(k, r) => SeriesKept
<1> SUFFICES ASSUME SeriesInv, Ts!Create(k, r) PROVE SeriesKept
  OBVIOUS
<1> DEFINE e == Ts!GetOrInit(kv, k)
           f == [e EXCEPT !.retention = r]
<1>1. kv \in SeriesStores /\ e \in SeriesEntry /\ StoreGood(kv, log, around)
  BY SeriesGetIs DEF SeriesInv, StoreGood
<1>2. CASE r = -1
  <2>1. StoreGood(Ts!Put(kv, k, e), log, around)
    BY <1>1, PutSame
  <2>2. Ts!Answer(Ts!Put(kv, k, e))
    BY <1>2 DEF Ts!Create, Ts!Unlimited
  <2> QED BY <2>1, <2>2, SeriesAnswered
<1>3. CASE r # -1 /\ e.type # "timeseries"
  <2>1. Ts!Refuse
    BY <1>3 DEF Ts!Create, Ts!Unlimited
  <2> QED BY <2>1, SeriesRefused
<1>4. CASE r # -1 /\ e.type = "timeseries"
  <2>1. f \in SeriesEntry /\ f.samples = e.samples /\ f.rules = e.rules /\ f.type = e.type /\ f.retention = r
    <3> HIDE DEF e
    <3> QED BY <1>1 DEF SeriesEntry
  <2> HIDE DEF f
  <2>2. StoreGood(Ts!Put(kv, k, f), log, around)
    BY <1>1, <1>4, <2>1, PutSame
  <2>3. Ts!Answer(Ts!Put(kv, k, f))
    BY <1>4 DEF Ts!Create, Ts!Unlimited, f
  <2> QED BY <2>2, <2>3, SeriesAnswered
<1>5. r = -1 \/ (r # -1 /\ e.type # "timeseries") \/ (r # -1 /\ e.type = "timeseries")
  OBVIOUS
<1> HIDE DEF e, f
<1> QED BY <1>2, <1>3, <1>4, <1>5

\* Both series are there.
Made(p, m, k, d) ==
  /\ p \in SeriesStores /\ k \in DOMAIN p /\ d \in DOMAIN p
  /\ \A x \in DOMAIN p : p[x] = Ts!GetOrInit(m, x)

LEMMA MadeIs ==
  ASSUME NEW m, NEW l, NEW a, StoreGood(m, l, a), NEW k \in SeriesKey, NEW d \in SeriesKey, NEW q,
         q = Ts!Put(m, k, Ts!GetOrInit(m, k))
  PROVE  /\ StoreGood(Ts!Put(q, d, Ts!GetOrInit(q, d)), l, a)
         /\ Made(Ts!Put(q, d, Ts!GetOrInit(q, d)), m, k, d)
<1> DEFINE e == Ts!GetOrInit(m, k)
           p == Ts!Put(q, d, Ts!GetOrInit(q, d))
<1>1. m \in SeriesStores /\ e \in SeriesEntry
  BY SeriesGetIs DEF StoreGood
<1>2. StoreGood(Ts!Put(m, k, e), l, a) /\ PutIs(Ts!Put(m, k, e), m, k, e)
  BY <1>1, PutSame, SeriesPuts
<1>3. StoreGood(q, l, a) /\ PutIs(q, m, k, e) /\ q \in SeriesStores
  BY <1>2 DEF PutIs
<1> DEFINE f == Ts!GetOrInit(q, d)
<1>4. f \in SeriesEntry
  BY <1>3, SeriesGetIs
<1>5. StoreGood(p, l, a) /\ PutIs(p, q, d, f)
  BY <1>3, <1>4, PutSame, SeriesPuts
<1>6. ASSUME NEW x \in DOMAIN q PROVE q[x] = Ts!GetOrInit(m, x)
  <2>1. CASE x = k
    BY <1>3, <2>1 DEF PutIs
  <2>2. CASE x # k
    <3>1. x \in DOMAIN m /\ q[x] = m[x]
      BY <1>3, <1>6, <2>2 DEF PutIs
    <3> QED BY <1>1, <3>1, SeriesGetIs
  <2> QED BY <2>1, <2>2
<1>7. f = Ts!GetOrInit(m, d)
  <2>1. CASE d \in DOMAIN q
    BY <1>3, <1>6, <2>1, SeriesGetIs
  <2>2. CASE d \notin DOMAIN q
    <3>1. d \notin DOMAIN m
      BY <1>3, <2>2 DEF PutIs
    <3> QED BY <1>1, <1>3, <2>2, <3>1, SeriesGetIs
  <2> QED BY <2>1, <2>2
<1> HIDE DEF p, f
<1>8. ASSUME NEW x \in DOMAIN p PROVE p[x] = Ts!GetOrInit(m, x)
  <2>1. CASE x = d
    BY <1>5, <1>7, <2>1 DEF PutIs
  <2>2. CASE x # d
    BY <1>5, <1>6, <1>8, <2>2 DEF PutIs
  <2> QED BY <2>1, <2>2
<1>9. Made(p, m, k, d)
  BY <1>3, <1>5, <1>8 DEF Made, PutIs
<1> QED BY <1>5, <1>9 DEF p, f

(* Rules are made and deleted. *)

MakesRule(r, d, agg, w, n) == r = [dest |-> d, agg |-> agg, width |-> w, state |-> <<>>, since |-> n]

LEMMA NoStates == <<>> \in BucketStates
<1>1. <<>> = [x \in DOMAIN <<>> |-> <<>>[x]] /\ DOMAIN <<>> = {}
  OBVIOUS
<1> QED BY <1>1, StatesAre

LEMMA MakesRuleIs ==
  ASSUME NEW d \in SeriesKey, NEW agg \in {"sum", "min", "max"}, NEW w \in Nat \ {0}, NEW n \in Nat, NEW r, MakesRule(r, d, agg, w, n)
  PROVE  r \in SeriesRule /\ r.dest = d /\ r.state = <<>> /\ r.since = n
BY NoStates DEF MakesRule, SeriesRule

Alone(m, d) ==
  /\ d \notin Source /\ Ts!GetOrInit(m, d).samples = <<>>
  /\ \A x \in DOMAIN m : \A i \in DOMAIN m[x].rules : m[x].rules[i].dest # d

\* Both series are there, and the first has the rule.
LEMMA RuleAdded ==
  ASSUME NEW m, NEW l, NEW a, StoreGood(m, l, a), NEW k \in Source, k \in SeriesKey, NEW d \in SeriesKey,
         Alone(m, d) \/ "shared" \in a,
         NEW q, StoreGood(q, l, a), Made(q, m, k, d),
         NEW r \in SeriesRule, r.dest = d, r.state = <<>>, r.since = Len(l[k])
  PROVE  StoreGood([q EXCEPT ![k].rules = Append(@, r)], l, a)
<1>1. q \in SeriesStores /\ k \in DOMAIN q /\ d \in DOMAIN q /\ m \in SeriesStores
  BY DEF Made, StoreGood
<1>2. q[k].rules \in Seq(SeriesRule)
  BY <1>1, RulesOf
<1> DEFINE rs == q[k].rules
<1>3. [q EXCEPT ![k].rules = Append(@, r)] = [q EXCEPT ![k].rules = Append(rs, r)]
  OBVIOUS
<1>4. Append(rs, r) \in Seq(SeriesRule)
  <2> HIDE DEF rs
  <2>1. rs \in Seq(SeriesRule)
    BY <1>2 DEF rs
  <2> QED BY <2>1, AppendProperties
<1>5. OnlyRules([q EXCEPT ![k].rules = Append(rs, r)], q, k, Append(rs, r))
  <2> DEFINE new == Append(rs, r)
  <2>1. new \in Seq(SeriesRule)
    BY <1>4
  <2> HIDE DEF new
  <2> QED BY <1>1, <2>1, NewRules DEF new
<1>6. ASSUME "shared" \notin a
      PROVE  /\ d \notin Source /\ q[d].samples = <<>>
             /\ \A x \in DOMAIN q : \A i \in 1 .. Len(q[x].rules) : q[x].rules[i].dest # d
  <2>1. Alone(m, d)
    BY <1>6
  <2>2. d \notin Source /\ q[d].samples = <<>>
    BY <2>1, <1>1 DEF Alone, Made
  <2>3. ASSUME NEW x \in DOMAIN q, NEW i \in 1 .. Len(q[x].rules) PROVE q[x].rules[i].dest # d
    <3>1. q[x] = Ts!GetOrInit(m, x)
      BY DEF Made
    <3>2. CASE x \in DOMAIN m
      <4>1. q[x] = m[x] /\ DOMAIN m[x].rules = 1 .. Len(m[x].rules)
        BY <1>1, <3>1, <3>2, SeriesGetIs, RulesOf
      <4> QED BY <2>1, <2>3, <3>2, <4>1 DEF Alone
    <3>3. CASE x \notin DOMAIN m
      <4>1. q[x].rules = <<>>
        BY <1>1, <3>1, <3>3, SeriesGetIs, NewSeries
      <4> QED BY <2>3, <4>1
    <3> QED BY <3>2, <3>3
  <2> QED BY <2>2, <2>3
<1> DEFINE p == [q EXCEPT ![k].rules = Append(rs, r)]
<1>7. OnlyRules(p, q, k, Append(q[k].rules, r))
  BY <1>5
<1> HIDE DEF p
<1>8. StoreGood(p, l, a)
  BY <1>1, <1>6, <1>7, RuleMade
<1> QED BY <1>3, <1>8 DEF p

LEMMA RuleCreated ==
  ASSUME NEW k \in SeriesKey, NEW d \in SeriesKey, NEW ru \in Rule
  PROVE  SeriesInv /\ Ts!CreateRule(k, d, ru.agg, ru.width) => SeriesKept
<1> SUFFICES ASSUME SeriesInv, Ts!CreateRule(k, d, ru.agg, ru.width) PROVE SeriesKept
  OBVIOUS
<1>1. ru.agg \in {"sum", "min", "max"} /\ ru.width \in Nat \ {0} /\ StoreGood(kv, log, around)
  BY SeriesAssumption DEF SeriesInv
<1> DEFINE agg == ru.agg
           width == ru.width
           src == Ts!GetOrInit(kv, k)
           m == Ts!Put(kv, k, src)
           made == Ts!Put(m, d, Ts!GetOrInit(m, d))
           rule == [dest |-> d, agg |-> agg, width |-> width, state |-> <<>>, since |-> Len(log[k])]
           Known(r) == r.dest = d /\ r.agg = agg /\ r.width = width
           alone == /\ d \notin Source /\ Ts!GetOrInit(kv, d).samples = <<>>
                    /\ \A x \in DOMAIN kv : \A i \in DOMAIN kv[x].rules : kv[x].rules[i].dest # d
<1>2. /\ k \in Source /\ (alone \/ "shared" \in around)
      /\ IF src.type # "timeseries" THEN kv' = made /\ reply' = "error" /\ UNCHANGED <<around, log>>
         ELSE IF \E i \in DOMAIN src.rules : Known(src.rules[i]) THEN Ts!Answer(made)
         ELSE Ts!Answer([made EXCEPT ![k].rules = Append(@, rule)])
  BY DEF Ts!CreateRule
<1>3. StoreGood(made, log, around) /\ Made(made, kv, k, d)
  BY <1>1, MadeIs
<1>4. Alone(kv, d) \/ "shared" \in around
  BY <1>2 DEF Alone
<1>5. "retyped" \notin around => src.type = "timeseries"
  BY <1>1, SeriesGetIs DEF StoreGood
<1>6. MakesRule(rule, d, agg, width, Len(log[k])) /\ Len(log[k]) \in Nat
  <2>1. log[k] \in Seq(Sample)
    BY <1>1 DEF StoreGood
  <2> QED BY <2>1, LenProperties DEF MakesRule
<1> HIDE DEF made, src, rule, m
<1>7. rule \in SeriesRule /\ rule.dest = d /\ rule.state = <<>> /\ rule.since = Len(log[k])
  BY <1>1, <1>6, MakesRuleIs
<1>8. StoreGood([made EXCEPT ![k].rules = Append(@, rule)], log, around)
  BY <1>1, <1>2, <1>3, <1>4, <1>7, RuleAdded
<1>9. CASE src.type # "timeseries"
  BY <1>2, <1>3, <1>5, <1>9 DEF SeriesInv, SeriesKept, Ts!ErrorChangesNothing
<1>10. CASE src.type = "timeseries" /\ Ts!Answer(made)
  BY <1>3, <1>10, SeriesAnswered
<1>11. CASE src.type = "timeseries" /\ Ts!Answer([made EXCEPT ![k].rules = Append(@, rule)])
  <2> DEFINE new == [made EXCEPT ![k].rules = Append(@, rule)]
  <2>1. StoreGood(new, log, around) /\ Ts!Answer(new)
    BY <1>8, <1>11
  <2> HIDE DEF new
  <2> QED BY <2>1, SeriesAnswered
<1> QED BY <1>2, <1>9, <1>10, <1>11

LEMMA RuleDeleted ==
  ASSUME NEW k \in SeriesKey, NEW d \in SeriesKey
  PROVE  SeriesInv /\ Ts!DeleteRule(k, d) => SeriesKept
<1> SUFFICES ASSUME SeriesInv, Ts!DeleteRule(k, d) PROVE SeriesKept
  OBVIOUS
<1>1. StoreGood(kv, log, around) /\ kv \in SeriesStores
  BY DEF SeriesInv, StoreGood
<1>2. CASE k \notin DOMAIN kv
  <2>1. Ts!Answer(kv)
    BY <1>2 DEF Ts!DeleteRule
  <2> QED BY <1>1, <2>1, SeriesAnswered
<1>3. CASE k \in DOMAIN kv /\ kv[k].type # "timeseries"
  <2>1. Ts!Refuse
    BY <1>3 DEF Ts!DeleteRule
  <2> QED BY <2>1, SeriesRefused
<1>4. CASE k \in DOMAIN kv /\ kv[k].type = "timeseries"
  <2> DEFINE rs == kv[k].rules
             q == Ts!RulesToOthers(rs, d)
             p == [kv EXCEPT ![k].rules = q]
  <2>1. Ts!Answer(p)
    BY <1>4 DEF Ts!DeleteRule
  <2>2. rs \in Seq(SeriesRule)
    BY <1>1, <1>4, RulesOf
  <2>3. q \in Seq(SeriesRule) /\ \E g : SomeOf(q, kv[k].rules, Len(kv[k].rules), g)
    <3> HIDE DEF rs
    <3>1. q \in Seq(SeriesRule) /\ \E g : SomeOf(q, rs, Len(rs), g)
      BY <2>2, RulesToOthersAre
    <3> QED BY <3>1 DEF rs
  <2> HIDE DEF q
  <2>4. OnlyRules(p, kv, k, q)
    BY <1>1, <1>4, <2>3, NewRules
  <2> HIDE DEF p
  <2>5. StoreGood(p, log, around)
    BY <1>1, <1>4, <2>3, <2>4, RulesLess
  <2> QED BY <2>1, <2>5, SeriesAnswered
<1> QED BY <1>2, <1>3, <1>4

LEMMA SeriesDropped ==
  ASSUME NEW k \in SeriesKey
  PROVE  SeriesInv /\ (Ts!Del(k) \/ Ts!SetText(k)) => SeriesKept
<1> SUFFICES ASSUME SeriesInv, Ts!Del(k) \/ Ts!SetText(k) PROVE SeriesKept
  OBVIOUS
<1>1. StoreGood(kv, log, around) /\ kv \in SeriesStores
  BY DEF SeriesInv, StoreGood
<1>2. CASE Ts!Del(k)
  <2>1. StoreGood([x \in DOMAIN kv \ {k} |-> kv[x]], [log EXCEPT ![k] = <<>>], around)
    BY <1>1, <1>2, KeyDropped DEF Ts!Del
  <2> QED BY <1>2, <2>1 DEF Ts!Del, SeriesInv, SeriesKept, Ts!ErrorChangesNothing
<1>3. CASE Ts!SetText(k)
  <2>1. StoreGood(Ts!Put(kv, k, Ts!Text), [log EXCEPT ![k] = <<>>], around)
    BY <1>1, <1>3, KeyRetyped DEF Ts!SetText
  <2> QED BY <1>3, <2>1 DEF Ts!SetText, SeriesInv, SeriesKept, Ts!ErrorChangesNothing
<1> QED BY <1>2, <1>3

LEMMA SeriesNext == SeriesInv /\ [Ts!Next]_Ts!vars => SeriesInv' /\ [Ts!ErrorChangesNothing]_Ts!vars
<1>1. CASE UNCHANGED Ts!vars
  BY <1>1 DEF Ts!vars, SeriesInv
<1>2. ASSUME SeriesInv, NEW k \in SeriesKey, NEW t \in 0 .. MaxTimestamp, NEW v \in Value, Ts!Add(k, t, v) PROVE SeriesKept
  BY <1>2, SampleKept
<1>3. ASSUME SeriesInv, NEW k \in SeriesKey, NEW r \in Retention \cup {-1}, Ts!Create(k, r) PROVE SeriesKept
  BY <1>3, SeriesCreated
<1>4. ASSUME SeriesInv, NEW k \in SeriesKey, NEW d \in SeriesKey, NEW r \in Rule, Ts!CreateRule(k, d, r.agg, r.width) PROVE SeriesKept
  BY <1>4, RuleCreated
<1>5. ASSUME SeriesInv, NEW k \in SeriesKey, NEW d \in SeriesKey, Ts!DeleteRule(k, d) PROVE SeriesKept
  BY <1>5, RuleDeleted
<1>6. ASSUME SeriesInv, NEW k \in SeriesKey, Ts!Del(k) \/ Ts!SetText(k) PROVE SeriesKept
  BY <1>6, SeriesDropped
<1>7. ASSUME SeriesInv, Ts!Next PROVE SeriesKept
  BY <1>2, <1>3, <1>4, <1>5, <1>6, <1>7 DEF Ts!Next, Ts!Unlimited
<1> QED BY <1>1, <1>7 DEF SeriesKept


LEMMA SeriesStarts == Ts!Init => SeriesInv
<1> SUFFICES ASSUME Ts!Init PROVE SeriesInv
  OBVIOUS
<1>1. kv = <<>> /\ log = [k \in SeriesKey |-> <<>>] /\ around \subseteq {"replaced", "shared", "deleted", "retyped"} /\ reply = "done"
  BY SeriesAssumption DEF Ts!Init
<1>2. DOMAIN kv = {} /\ kv \in SeriesStores
  <2>1. kv = [x \in DOMAIN kv |-> kv[x]] /\ DOMAIN kv = {}
    BY <1>1
  <2> QED BY <2>1, SeriesStoresAre
<1>3. log \in [SeriesKey -> Seq(Sample)] /\ \A k \in SeriesKey : log[k] = <<>>
  BY <1>1
<1>4. NoTexts(kv) /\ RulesApart(kv)
  BY <1>2 DEF NoTexts, RulesApart
<1>5. Windows(kv, log)
  BY <1>2, <1>3, SeriesAssumption DEF Windows
<1>6. RulesExact(kv, log)
  BY <1>2, <1>3 DEF RulesExact, Increasing
<1> QED BY <1>1, <1>2, <1>3, <1>4, <1>5, <1>6 DEF SeriesInv, StoreGood

(* What the runs check *)

LEMMA SeriesInvTypes == SeriesInv => Ts!TypeOK
<1> SUFFICES ASSUME SeriesInv PROVE Ts!TypeOK
  OBVIOUS
<1>1. kv \in SeriesStores /\ log \in [SeriesKey -> Seq(Sample)] /\ DOMAIN kv \subseteq SeriesKey
  BY SeriesStoresAre DEF SeriesInv, StoreGood
<1>2. ASSUME NEW k \in DOMAIN kv
      PROVE  /\ kv[k].type \in {"timeseries", "string"} /\ kv[k].samples \in Seq(Sample)
             /\ kv[k].retention \in Retention \cup {-1}
             /\ \A i \in DOMAIN kv[k].rules : kv[k].rules[i].dest \in SeriesKey /\ kv[k].rules[i].agg \in {"sum", "min", "max"}
  <2>1. kv[k].type \in {"timeseries", "string"}
    BY <1>1, RulesOf DEF SeriesEntry
  <2> QED BY <2>1, <1>1, RulesOf
<1> QED BY <1>1, <1>2 DEF Ts!TypeOK, SeriesInv, Sample, Ts!Circumstances, Ts!Unlimited, Ts!Aggregators

LEMMA SeriesInvOrder == SeriesInv => Ts!SamplesInOrder
<1> SUFFICES ASSUME SeriesInv, "shared" \notin around, NEW k \in DOMAIN kv, NEW i \in 2 .. Len(kv[k].samples)
             PROVE  kv[k].samples[i - 1].t < kv[k].samples[i].t
  BY DEF Ts!SamplesInOrder
<1>1. Increasing(kv[k].samples)
  BY DEF SeriesInv, StoreGood, RulesApart
<1>2. Len(kv[k].samples) \in Nat
  <2>1. kv[k].samples \in Seq(Sample)
    BY RulesOf DEF SeriesInv, StoreGood
  <2> QED BY <2>1, LenProperties
<1>3. i - 1 \in 1 .. Len(kv[k].samples) /\ i \in 1 .. Len(kv[k].samples) /\ i - 1 < i
  BY <1>2
<1> QED BY <1>1, <1>3 DEF Increasing

\* A series and its log, in the words of the property.
LEMMA WindowKept ==
  ASSUME NEW e \in SeriesEntry, NEW s \in Seq(Sample), Window(e, s), NEW newest,
         newest = {i \in DOMAIN s : \A j \in DOMAIN s : j > i => s[j].t # s[i].t}
  PROVE  /\ Ts!Range(e.samples) \subseteq {s[i] : i \in newest}
         /\ \A i \in newest : s[i] \in Ts!Range(e.samples)
                                \/ (e.retention # -1 /\ \E r \in Retention : s[i].t < Ts!Last(s).t - r)
<1> DEFINE es == e.samples
<1>1. es \in Seq(Sample) /\ DOMAIN es = 1 .. Len(es) /\ DOMAIN s = 1 .. Len(s)
  <2>1. es \in Seq(Sample)
    BY DEF SeriesEntry
  <2> QED BY <2>1, LenProperties
<1>2. \A n : n \in newest <=> n \in 1 .. Len(s) /\ IsNewest(s, n)
  BY <1>1 DEF IsNewest
<1>3. /\ \A i \in 1 .. Len(es) : \E n \in 1 .. Len(s) : IsNewest(s, n) /\ es[i] = s[n]
      /\ \A n \in 1 .. Len(s) : IsNewest(s, n) =>
           \/ \E i \in 1 .. Len(es) : es[i] = s[n]
           \/ (e.retention # -1 /\ \E r \in Retention : s[n].t < s[Len(s)].t - r)
  BY DEF Window
<1>4. Ts!Range(es) = {es[i] : i \in 1 .. Len(es)} /\ Ts!Last(s) = s[Len(s)]
  BY <1>1 DEF Ts!Range, Ts!Last
<1> HIDE DEF es
<1>5. ASSUME NEW x \in Ts!Range(es) PROVE x \in {s[i] : i \in newest}
  <2>1. PICK i \in 1 .. Len(es) : x = es[i]
    BY <1>4
  <2>2. PICK n \in 1 .. Len(s) : IsNewest(s, n) /\ es[i] = s[n]
    BY <1>3, <2>1
  <2> QED BY <1>2, <2>1, <2>2
<1>6. ASSUME NEW i \in newest
      PROVE  s[i] \in Ts!Range(es) \/ (e.retention # -1 /\ \E r \in Retention : s[i].t < Ts!Last(s).t - r)
  <2>1. i \in 1 .. Len(s) /\ IsNewest(s, i)
    BY <1>2
  <2>2. (\E j \in 1 .. Len(es) : es[j] = s[i]) \/ (e.retention # -1 /\ \E r \in Retention : s[i].t < s[Len(s)].t - r)
    BY <1>3, <2>1
  <2>3. (\E j \in 1 .. Len(es) : es[j] = s[i]) => s[i] \in Ts!Range(es)
    BY <1>4
  <2> QED BY <1>4, <2>2, <2>3
<1> QED BY <1>5, <1>6 DEF es

LEMMA SeriesInvWindow == SeriesInv => Ts!KeepsTheWindow
<1> SUFFICES ASSUME SeriesInv, around \cap {"shared", "deleted", "retyped"} = {}, NEW k \in DOMAIN kv \cap Source
             PROVE  LET newest == {i \in DOMAIN log[k] : \A j \in DOMAIN log[k] : j > i => log[k][j].t # log[k][i].t}
                        Taken(s) == kv[k].retention # -1 /\ \E r \in Retention : s.t < Ts!Last(log[k]).t - r
                    IN  /\ Ts!Range(kv[k].samples) \subseteq {log[k][i] : i \in newest}
                        /\ \A i \in newest : log[k][i] \in Ts!Range(kv[k].samples) \/ Taken(log[k][i])
  BY DEF Ts!KeepsTheWindow, Ts!Unlimited
<1> DEFINE e == kv[k]
           s == log[k]
           newest == {i \in DOMAIN s : \A j \in DOMAIN s : j > i => s[j].t # s[i].t}
<1>1. e \in SeriesEntry /\ s \in Seq(Sample) /\ Window(e, s)
  BY RulesOf, SeriesAssumption DEF SeriesInv, StoreGood, Windows
<1> HIDE DEF e, s
<1>2. /\ Ts!Range(e.samples) \subseteq {s[i] : i \in newest}
      /\ \A i \in newest : s[i] \in Ts!Range(e.samples)
                             \/ (e.retention # -1 /\ \E r \in Retention : s[i].t < Ts!Last(s).t - r)
  BY <1>1, WindowKept
<1> QED BY <1>2 DEF e, s

LEMMA SeriesInvRules == SeriesInv => Ts!RulesAgreeWithRange
<1> SUFFICES ASSUME SeriesInv, around = {}, NEW k \in DOMAIN kv, NEW i \in DOMAIN kv[k].rules
             PROVE  LET rule == kv[k].rules[i]
                    IN  kv[rule.dest].samples = Ts!Aggregated(SubSeq(log[k], rule.since + 1, Len(log[k])), rule.agg, rule.width)
  BY DEF Ts!RulesAgreeWithRange
<1>1. i \in 1 .. Len(kv[k].rules) /\ RulesExact(kv, log)
  BY RulesOf DEF SeriesInv, StoreGood
<1>2. RuleExact(kv, log, k, i)
  BY <1>1 DEF RulesExact
<1> QED BY <1>2 DEF RuleExact, Since

LEMMA SeriesBegin == Init /\ family = "series" => Ts!Init
BY DEF Init

LEMMA SeriesStep == [Next]_vars => family' = family /\ (family = "series" => [Ts!Next]_Ts!vars)
BY DEF Next, vars, storeVars, Ts!vars

SeriesFamilyInv == family = "series" => SeriesInv

LEMMA SeriesAlways == Spec => []SeriesFamilyInv
<1>1. Init => SeriesFamilyInv
  BY SeriesBegin, SeriesStarts DEF SeriesFamilyInv
<1>2. SeriesFamilyInv /\ [Next]_vars => SeriesFamilyInv'
  BY SeriesStep, SeriesNext DEF SeriesFamilyInv
<1> QED BY <1>1, <1>2, PTL DEF Spec

(* A series is in the order of its timestamps and holds what TS.ADD has accepted within  *)
(* its retention, and what a rule of a series has put into its destination is what        *)
(* TS.RANGE computes from the samples since: for any keys, values, retentions and rules,  *)
(* under the circumstances the properties name.                                           *)
THEOREM SeriesAlwaysAgree == Spec => []SeriesAgree
<1>1. SeriesFamilyInv => SeriesAgree
  BY SeriesInvTypes, SeriesInvOrder, SeriesInvWindow, SeriesInvRules DEF SeriesFamilyInv, SeriesAgree
<1> QED BY <1>1, SeriesAlways, PTL

(* LMOVE keeps the elements of all lists together; what is refused changes nothing. *)

LEMMA CopiesPrepended ==
  ASSUME NEW S, NEW s \in Seq(S), NEW e \in S, NEW y
  PROVE  CopiesIn(<<e>> \o s, y) = CopiesIn(s, y) + (IF e = y THEN 1 ELSE 0)
<1> DEFINE one == <<e>>
           t == one \o s
           r == St!RemoveAt(t, 1)
<1>1. one \in Seq(S) /\ Len(one) = 1 /\ one[1] = e /\ Len(s) \in Nat
  BY LenProperties
<1> HIDE DEF one
<1>2. t \in Seq(S) /\ Len(t) = 1 + Len(s) /\ \A i \in 1 .. 1 + Len(s) : t[i] = IF i <= 1 THEN one[i] ELSE s[i - 1]
  <2>1. /\ t \in Seq(S) /\ Len(t) = Len(one) + Len(s)
        /\ \A i \in 1 .. Len(one) + Len(s) : t[i] = IF i <= Len(one) THEN one[i] ELSE s[i - Len(one)]
    BY <1>1, ConcatProperties
  <2> HIDE DEF t
  <2> QED BY <1>1, <2>1
<1> HIDE DEF t
<1>3. 1 \in 1 .. Len(t) /\ t[1] = e
  <2>1. 1 \in 1 .. 1 + Len(s)
    BY <1>1
  <2>2. t[1] = one[1]
    BY <1>2, <2>1
  <2> QED BY <1>1, <1>2, <2>1, <2>2
<1>4. /\ r \in Seq(S) /\ Len(r) = Len(t) - 1
      /\ \A j \in 1 .. Len(t) - 1 : r[j] = t[IF j < 1 THEN j ELSE j + 1]
  BY <1>2, <1>3, RemoveAtIs
<1>5. CopiesIn(r, y) = CopiesIn(t, y) - (IF t[1] = y THEN 1 ELSE 0)
  BY <1>2, <1>3, CopiesRemoved
<1> HIDE DEF r
<1>6. ASSUME NEW j \in 1 .. Len(s) PROVE r[j] = s[j]
  <2>1. j + 1 \in 1 .. 1 + Len(s) /\ ~(j + 1 <= 1) /\ j + 1 - 1 = j /\ ~(j < 1) /\ j \in 1 .. Len(t) - 1
    BY <1>1, <1>2
  <2>2. r[j] = t[j + 1]
    BY <1>4, <2>1
  <2>3. t[j + 1] = s[j + 1 - 1]
    BY <1>2, <2>1
  <2> QED BY <2>1, <2>2, <2>3
<1>7. r = s
  <2>1. Len(r) = Len(s)
    BY <1>1, <1>2, <1>4
  <2> QED BY <1>4, <1>6, <2>1, SeqEqual
<1>8. CopiesIn(t, y) \in Nat
  BY <1>2, CopiesAreNat
<1>9. CopiesIn(t, y) = CopiesIn(s, y) + (IF e = y THEN 1 ELSE 0)
  BY <1>3, <1>5, <1>7, <1>8
<1> QED BY <1>9 DEF t, one

LEMMA CopiesWith ==
  ASSUME NEW S, NEW s \in Seq(S), NEW e \in S, NEW end \in {"LEFT", "RIGHT"}, NEW y
  PROVE  CopiesIn(Rg!With(s, end, e), y) = CopiesIn(s, y) + (IF e = y THEN 1 ELSE 0)
BY CopiesPrepended, CopiesAppended DEF Rg!With

LEMMA ListCopiesAre == ASSUME NEW s, NEW y PROVE Rg!Copies(s, y) = CopiesIn(s, y)
BY DEF Rg!Copies, Rg!Cardinality, Cardinality, CopiesIn

\* How often an element is in the lists of m, key by key.
InLists(m, x) == [k \in Key |-> IF m[k].type = "list" THEN CopiesIn(m[k].value, x) ELSE 0]

LEMMA OccurrencesAre ==
  ASSUME NEW m, NEW x
  PROVE  Rg!Cardinality(UNION {{k} \X (1 .. Rg!Copies(m[k].value, x)) : k \in {q \in Key : m[q].type = "list"}})
           = Sum(InLists(m, x), Key)
<1> DEFINE f == InLists(m, x)
           A == UNION {{k} \X (1 .. Rg!Copies(m[k].value, x)) : k \in {q \in Key : m[q].type = "list"}}
           B == UNION {{k} \X (1 .. f[k]) : k \in Key}
<1>1. \A k \in Key : f[k] = IF m[k].type = "list" THEN Rg!Copies(m[k].value, x) ELSE 0
  BY ListCopiesAre DEF InLists
<1> HIDE DEF f
<1>2. ASSUME NEW p \in A PROVE p \in B
  <2>1. PICK k \in Key : m[k].type = "list" /\ p \in {k} \X (1 .. Rg!Copies(m[k].value, x))
    OBVIOUS
  <2> QED BY <1>1, <2>1
<1>3. ASSUME NEW p \in B PROVE p \in A
  <2>1. PICK k \in Key : p \in {k} \X (1 .. f[k])
    OBVIOUS
  <2>2. m[k].type = "list"
    <3>1. CASE m[k].type # "list"
      <4>1. f[k] = 0 /\ 1 .. 0 = {}
        BY <1>1, <3>1
      <4> QED BY <2>1, <4>1
    <3> QED BY <3>1
  <2> QED BY <1>1, <2>1, <2>2
<1>4. A = B
  BY <1>2, <1>3
<1> HIDE DEF A, B
<1>5. Rg!Cardinality(A) = Cardinality(B)
  BY <1>4 DEF Rg!Cardinality, Cardinality
<1> QED BY <1>5 DEF A, B, f, Sum

LEMMA InListsAre ==
  ASSUME NEW m \in [Key -> StringEntry], NEW x, NEW k \in Key
  PROVE  InLists(m, x)[k] \in Nat /\ InLists(m, x)[k] = IF m[k].type = "list" THEN CopiesIn(m[k].value, x) ELSE 0
<1>1. m[k].type = "list" => m[k].value \in Seq(Characters)
  BY EntriesAre
<1>2. m[k].type = "list" => CopiesIn(m[k].value, x) \in Nat
  BY <1>1, CopiesAreNat
<1> QED BY <1>2 DEF InLists

LEMMA ListChanges ==
  ASSUME NEW m \in [Key -> StringEntry], NEW k \in Key, NEW s \in Word, NEW x,
         NEW n, n[k] = Rg!List(s), \A q \in Key \ {k} : n[q] = m[q]
  PROVE  Sum(InLists(n, x), Key) = Sum(InLists(m, x), Key) + CopiesIn(s, x) - InLists(m, x)[k]
         /\ Sum(InLists(m, x), Key) \in Nat
<1> DEFINE f == InLists(m, x)
           g == InLists(n, x)
<1>1. Rg!List(s) \in StringEntry /\ Rg!List(s).type = "list" /\ Rg!List(s).value = s
  BY EntriesAreMade
<1>4. \A q \in Key : f[q] \in Nat
  BY InListsAre
<1>6. \A q \in Key \ {k} : g[q] = f[q]
  BY DEF InLists
<1>7. g[k] = CopiesIn(s, x)
  BY <1>1 DEF InLists
<1>5. \A q \in Key : g[q] \in Nat
  <2>1. s \in Seq(Characters)
    BY DEF Word
  <2>2. g[k] \in Nat
    <3>1. CopiesIn(s, x) \in Nat
      BY <2>1, CopiesAreNat
    <3> HIDE DEF g
    <3> QED BY <1>7, <3>1
  <2> HIDE DEF f, g
  <2> QED BY <1>4, <1>6, <2>2
<1> HIDE DEF f, g
<1>8. Sum(g, Key) = Sum(f, Key) + (IF k \in Key THEN g[k] - f[k] ELSE 0) /\ Sum(f, Key) \in Nat
  BY <1>4, <1>5, <1>6, RangesAssumption, SumShifts
<1>9. Sum(g, Key) = Sum(f, Key) + CopiesIn(s, x) - f[k] /\ Sum(f, Key) \in Nat
  BY <1>4, <1>5, <1>7, <1>8
<1> QED BY <1>9 DEF f, g

(* An element is moved from one list to another. *)

LEMMA MovedIsKept ==
  ASSUME RangesInv, NEW src \in Key, NEW dst \in Key, NEW from \in {"LEFT", "RIGHT"}, NEW to \in {"LEFT", "RIGHT"},
         Rg!LMove(src, dst, from, to), kv[dst].type \in {"none", "list"}, NEW x
  PROVE  Rg!Occurrences(x)' = Rg!Occurrences(x)
<1> DEFINE s    == kv[src].value
           e    == Rg!Taken(s, from)
           w    == Rg!Without(s, from)
           rest == [kv EXCEPT ![src] = Rg!List(w)]
           t    == Rg!With(rest[dst].value, to, e)
<1>1. /\ Rg!IsList(src) /\ s # <<>> /\ rest \in [Key -> StringEntry] /\ w \in Word /\ t \in Word
      /\ kv[dst].type \in {"none", "list"} /\ kv' = [rest EXCEPT ![dst] = Rg!List(t)]
  BY LMoveIs
<1>2. kv \in [Key -> StringEntry] /\ s \in Seq(Characters) /\ kv[src].type = "list"
  BY <1>1, ListEntry DEF RangesInv
<1>3. w \in Seq(Characters) /\ e \in Characters /\ s = Rg!With(w, from, e)
  <2> HIDE DEF s
  <2> QED BY <1>1, <1>2, TakenIs
<1>4. rest[dst].type \in {"none", "list"} /\ rest[dst].value \in Seq(Characters)
      /\ (rest[dst].type = "none" => rest[dst].value = <<>>)
  <2>1. rest[dst] = IF dst = src THEN Rg!List(w) ELSE kv[dst]
    BY <1>2
  <2>2. rest[dst].type \in {"none", "list"}
    BY <1>1, <2>1 DEF Rg!List
  <2> HIDE DEF rest
  <2>3. rest[dst].type = "none" => rest[dst].value = <<>>
    BY <1>1, EntriesAre DEF Rg!Absent
  <2>4. rest[dst].value \in Seq(Characters)
    BY <1>1, <2>2, EntriesAre
  <2> QED BY <2>2, <2>3, <2>4
<1> DEFINE d == IF e = x THEN 1 ELSE 0
<1>5. CopiesIn(s, x) = CopiesIn(w, x) + d /\ CopiesIn(w, x) \in Nat
  <2> HIDE DEF s, w, e
  <2>1. CopiesIn(Rg!With(w, from, e), x) = CopiesIn(w, x) + (IF e = x THEN 1 ELSE 0)
    BY <1>3, CopiesWith
  <2>2. CopiesIn(w, x) \in Nat
    BY <1>3, CopiesAreNat
  <2> QED BY <1>3, <2>1, <2>2
<1>6. CopiesIn(t, x) = CopiesIn(rest[dst].value, x) + d /\ CopiesIn(rest[dst].value, x) \in Nat
  <2> HIDE DEF rest, e
  <2>1. CopiesIn(Rg!With(rest[dst].value, to, e), x) = CopiesIn(rest[dst].value, x) + (IF e = x THEN 1 ELSE 0)
    BY <1>3, <1>4, CopiesWith
  <2>2. CopiesIn(rest[dst].value, x) \in Nat
    BY <1>4, CopiesAreNat
  <2> QED BY <2>1, <2>2
<1>7. Sum(InLists(rest, x), Key) = Sum(InLists(kv, x), Key) + CopiesIn(w, x) - CopiesIn(s, x)
      /\ Sum(InLists(kv, x), Key) \in Nat
  <2>1. InLists(kv, x)[src] = CopiesIn(s, x)
    BY <1>2 DEF InLists
  <2> DEFINE r == rest
  <2>2. r[src] = Rg!List(w) /\ \A q \in Key \ {src} : r[q] = kv[q]
    BY <1>2
  <2> DEFINE k == kv
  <2>3. k \in [Key -> StringEntry] /\ w \in Word
    BY <1>1, <1>2
  <2> HIDE DEF s, w, r
  <2>4. r[src] = Rg!List(w) /\ \A q \in Key \ {src} : r[q] = k[q]
    BY <2>2
  <2> HIDE DEF k
  <2>5. Sum(InLists(r, x), Key) = Sum(InLists(k, x), Key) + CopiesIn(w, x) - InLists(k, x)[src]
        /\ Sum(InLists(k, x), Key) \in Nat
    BY <2>3, <2>4, ListChanges
  <2> QED BY <2>1, <2>5 DEF r, k
<1> HIDE DEF s, w, e, rest
<1>8. Sum(InLists(kv', x), Key) = Sum(InLists(rest, x), Key) + CopiesIn(t, x) - CopiesIn(rest[dst].value, x)
  <2>1. InLists(rest, x)[dst] = CopiesIn(rest[dst].value, x)
    <3>1. CASE rest[dst].type = "list"
      BY <3>1 DEF InLists
    <3>2. CASE rest[dst].type = "none"
      <4>1. <<>> \in Seq(Characters) /\ Len(<<>>) = 0 /\ 1 .. 0 = {}
        BY EmptySeq
      <4>2. CopiesIn(<<>>, x) = 0
        BY <4>1, CopiesAreNat
      <4> QED BY <1>4, <3>2, <4>2 DEF InLists
    <3> QED BY <1>4, <3>1, <3>2
  <2>2. kv'[dst] = Rg!List(t) /\ \A q \in Key \ {dst} : kv'[q] = rest[q]
    BY <1>1
  <2> DEFINE after == kv'
             r == rest
  <2>3. after[dst] = Rg!List(t) /\ (\A q \in Key \ {dst} : after[q] = r[q]) /\ r \in [Key -> StringEntry] /\ t \in Word
        /\ InLists(r, x)[dst] = CopiesIn(r[dst].value, x)
    BY <1>1, <2>1, <2>2
  <2> HIDE DEF t, after, r
  <2>4. Sum(InLists(after, x), Key) = Sum(InLists(r, x), Key) + CopiesIn(t, x) - InLists(r, x)[dst]
    BY <2>3, ListChanges
  <2> QED BY <2>3, <2>4 DEF after, r
<1>9. d \in {0, 1}
  OBVIOUS
<1> HIDE DEF t, d
<1>10. Sum(InLists(kv', x), Key) = Sum(InLists(kv, x), Key)
  BY <1>5, <1>6, <1>7, <1>8, <1>9
<1>11. Rg!Occurrences(x) = Sum(InLists(kv, x), Key)
  BY OccurrencesAre DEF Rg!Occurrences, Rg!IsList
<1>12. Rg!Occurrences(x)' = Sum(InLists(kv', x), Key)
  BY OccurrencesAre DEF Rg!Occurrences, Rg!IsList
<1> QED BY <1>10, <1>11, <1>12

(* The destination is no list: the element is gone. *)

LEMMA MisplacedIsLost ==
  ASSUME RangesInv, NEW src \in Key, NEW dst \in Key, NEW from \in {"LEFT", "RIGHT"}, NEW to \in {"LEFT", "RIGHT"},
         Rg!LMove(src, dst, from, to), kv[dst].type \notin {"none", "list"}, NEW x
  PROVE  Rg!Occurrences(x)' = Rg!Occurrences(x) - (IF x = Rg!Taken(kv[src].value, from) THEN 1 ELSE 0)
<1> DEFINE s == kv[src].value
           e == Rg!Taken(s, from)
           w == Rg!Without(s, from)
           n == kv'
           k == kv
           d == IF x = e THEN 1 ELSE 0
<1>1. Rg!IsList(src) /\ s # <<>> /\ w \in Word /\ kv' = [kv EXCEPT ![src] = Rg!List(w)]
  BY LMoveIs
<1>2. kv \in [Key -> StringEntry] /\ s \in Seq(Characters) /\ kv[src].type = "list"
  BY <1>1, ListEntry DEF RangesInv
<1>3. w \in Seq(Characters) /\ e \in Characters /\ s = Rg!With(w, from, e)
  <2> HIDE DEF s
  <2> QED BY <1>1, <1>2, TakenIs
<1>4. CopiesIn(s, x) = CopiesIn(w, x) + d /\ CopiesIn(w, x) \in Nat
  <2> HIDE DEF s, w, e
  <2>1. CopiesIn(Rg!With(w, from, e), x) = CopiesIn(w, x) + (IF e = x THEN 1 ELSE 0)
    BY <1>3, CopiesWith
  <2>2. CopiesIn(w, x) \in Nat
    BY <1>3, CopiesAreNat
  <2> QED BY <1>3, <2>1, <2>2
<1>5. InLists(k, x)[src] = CopiesIn(s, x)
  BY <1>2 DEF InLists
<1>6. n[src] = Rg!List(w) /\ (\A q \in Key \ {src} : n[q] = k[q]) /\ k \in [Key -> StringEntry] /\ w \in Word
  BY <1>1, <1>2
<1>7. Rg!Occurrences(x) = Sum(InLists(k, x), Key) /\ Rg!Occurrences(x)' = Sum(InLists(n, x), Key)
  BY OccurrencesAre DEF Rg!Occurrences, Rg!IsList
<1> HIDE DEF s, w, n, k
<1>8. Sum(InLists(n, x), Key) = Sum(InLists(k, x), Key) + CopiesIn(w, x) - InLists(k, x)[src]
      /\ Sum(InLists(k, x), Key) \in Nat
  BY <1>6, ListChanges
<1>9. d \in {0, 1}
  OBVIOUS
<1> HIDE DEF d
<1>10. Sum(InLists(n, x), Key) = Sum(InLists(k, x), Key) - d
  BY <1>4, <1>5, <1>8, <1>9
<1> QED BY <1>7, <1>10 DEF d, s

LEMMA MovesKeep == RangesInv => Rg!MoveKeepsElements
<1> SUFFICES ASSUME RangesInv,
                    NEW src \in Key, NEW dst \in Key, NEW from \in {"LEFT", "RIGHT"}, NEW to \in {"LEFT", "RIGHT"},
                    Rg!LMove(src, dst, from, to), NEW x \in Element
             PROVE  LET lost == IF reply' = "error" /\ x = Rg!Taken(kv[src].value, from) THEN 1 ELSE 0
                    IN  Rg!Occurrences(x)' = Rg!Occurrences(x) - lost
  BY DEF Rg!MoveKeepsElements
<1>1. CASE kv[dst].type \in {"none", "list"}
  <2>1. reply' = "done"
    BY <1>1, LMoveIs
  <2>2. Rg!Occurrences(x)' = Rg!Occurrences(x)
    BY <1>1, MovedIsKept
  <2>3. Rg!Occurrences(x) = Sum(InLists(kv, x), Key) /\ Sum(InLists(kv, x), Key) \in Nat
    <3>1. Rg!Occurrences(x) = Sum(InLists(kv, x), Key)
      BY OccurrencesAre DEF Rg!Occurrences, Rg!IsList
    <3>2. \A k \in Key : InLists(kv, x)[k] \in Nat
      BY InListsAre DEF RangesInv
    <3> QED BY <3>1, <3>2, RangesAssumption, SumIsNat
  <2> QED BY <2>1, <2>2, <2>3
<1>2. CASE kv[dst].type \notin {"none", "list"}
  <2>1. reply' = "error"
    BY <1>2, LMoveIs
  <2>2. Rg!Occurrences(x)' = Rg!Occurrences(x) - (IF x = Rg!Taken(kv[src].value, from) THEN 1 ELSE 0)
    BY <1>2, MisplacedIsLost
  <2> QED BY <2>1, <2>2
<1> QED BY <1>1, <1>2

LEMMA RefusalsTouchOneKey == RangesInv /\ [Rg!Next]_Rg!vars => Rg!FailureTouchesOneKey
<1> DEFINE MoveFailed(k, end) ==
             Rg!IsList(k) /\ kv[k].value # <<>> /\ kv' = [kv EXCEPT ![k] = Rg!List(Rg!Without(kv[k].value, end))]
<1> SUFFICES ASSUME RangesInv, [Rg!Next]_Rg!vars, reply' = "error"
             PROVE  kv' = kv \/ \E k \in Key, end \in {"LEFT", "RIGHT"} : MoveFailed(k, end)
  BY DEF Rg!FailureTouchesOneKey
<1> HIDE DEF MoveFailed
<1>1. CASE UNCHANGED Rg!vars
  BY <1>1 DEF Rg!vars
<1>2. CASE Rg!Next
  <2>1. PICK k \in Key :
          \/ \E n \in Amounts : Rg!IncrBy(k, n) \/ Rg!SetNumber(k, n)
          \/ \E offset \in 0 .. 2, x \in Element : Rg!SetRange(k, offset, <<x>>)
          \/ \E x \in Element : Rg!RPush(k, x)
          \/ \E start, end \in -2 .. 2 : Rg!LTrim(k, start, end)
          \/ \E count \in -1 .. 1, x \in Element : Rg!LRem(k, count, x) \/ Rg!LSet(k, count, x)
          \/ \E dst \in Key, from, to \in {"LEFT", "RIGHT"} : Rg!LMove(k, dst, from, to)
          \/ Rg!Del(k)
    BY <1>2 DEF Rg!Next
  <2>2. \A e : ~Rg!Does(k, e, "done")
    BY DEF Rg!Does
  <2>3. \A s : ~Rg!Becomes(k, s)
    BY <2>2 DEF Rg!Becomes
  <2>4. Rg!Refuses => kv' = kv
    BY DEF Rg!Refuses
  <2>5. \A n : Rg!IncrBy(k, n) => kv' = kv
    BY <2>2, <2>4 DEF Rg!IncrBy
  <2>6. /\ \A n : ~Rg!SetNumber(k, n)
        /\ \A offset, x : ~Rg!SetRange(k, offset, x)
        /\ ~Rg!Del(k)
    BY <2>2 DEF Rg!SetNumber, Rg!SetRange, Rg!Del
  <2>7. /\ \A x : ~Rg!RPush(k, x)
        /\ \A start, end : ~Rg!LTrim(k, start, end)
        /\ \A count, x : ~Rg!LRem(k, count, x)
    BY <2>3 DEF Rg!RPush, Rg!LTrim, Rg!LRem
  <2>8. \A i, x : Rg!LSet(k, i, x) => kv' = kv
    BY <2>3, <2>4 DEF Rg!LSet
  <2>9. ASSUME NEW dst \in Key, NEW from \in {"LEFT", "RIGHT"}, NEW to \in {"LEFT", "RIGHT"},
               Rg!LMove(k, dst, from, to)
        PROVE  MoveFailed(k, from)
    <3>1. /\ Rg!IsList(k) /\ kv[k].value # <<>>
          /\ kv' = [kv EXCEPT ![k] = Rg!List(Rg!Without(kv[k].value, from))]
      BY <2>9, LMoveIs
    <3> QED BY <3>1 DEF MoveFailed
  <2> QED BY <2>1, <2>5, <2>6, <2>7, <2>8, <2>9
<1> QED BY <1>1, <1>2

------------------------------------------------------------------------------
(* Hashes, sets and sorted sets: what is refused changes nothing.  SUNIONSTORE writes back *)
(* the destination it found, so the store has to be a function.                            *)

IsStore(m) == m = [k \in DOMAIN m |-> m[k]]

StoredOrRefused == IsStore(kv') /\ Cn!FailureTouchesOneKey

LEMMA PutIsStore == ASSUME NEW m, NEW k, NEW e PROVE IsStore(Cn!Put(m, k, e))
BY DEF IsStore, Cn!Put

LEMMA PutBack == ASSUME NEW m, IsStore(m), NEW k \in DOMAIN m PROVE Cn!Put(m, k, m[k]) = m
<1>1. DOMAIN m \cup {k} = DOMAIN m
  OBVIOUS
<1>2. Cn!Put(m, k, m[k]) = [x \in DOMAIN m |-> IF x = k THEN m[k] ELSE m[x]]
  BY <1>1 DEF Cn!Put
<1>3. [x \in DOMAIN m |-> IF x = k THEN m[k] ELSE m[x]] = [x \in DOMAIN m |-> m[x]]
  OBVIOUS
<1> QED BY <1>2, <1>3 DEF IsStore

LEMMA WritesAreFine == ASSUME NEW m, NEW k, NEW e, Cn!Writes(Cn!Put(m, k, e)) PROVE StoredOrRefused
<1>1. kv' = Cn!Put(m, k, e) /\ reply' = Cn!Done
  BY DEF Cn!Writes, Cn!Does
<1>2. Cn!FailureTouchesOneKey
  BY <1>1 DEF Cn!FailureTouchesOneKey, Cn!Done, Cn!Failed
<1> QED BY <1>1, <1>2, PutIsStore DEF StoredOrRefused

LEMMA SameIsFine == ASSUME IsStore(kv), kv' = kv PROVE StoredOrRefused
BY DEF StoredOrRefused, Cn!FailureTouchesOneKey

LEMMA SkipIsFine == ASSUME IsStore(kv), Cn!Skip \/ Cn!Refuse PROVE StoredOrRefused
BY SameIsFine DEF Cn!Skip, Cn!Refuse, Cn!Does

LEMMA HSetFine == ASSUME IsStore(kv), NEW k, NEW pairs, Cn!HSet(k, pairs) PROVE StoredOrRefused
<1>1. (\E e : Cn!Writes(Cn!Put(kv, k, e))) \/ Cn!Refuse
  BY DEF Cn!HSet, Cn!FoldLeft, Cn!MapThenFoldSet
<1> QED BY <1>1, WritesAreFine, SkipIsFine

LEMMA RemoveMembersFine == ASSUME IsStore(kv), NEW k, NEW type, NEW ms, Cn!RemoveMembers(k, type, ms) PROVE StoredOrRefused
<1>1. (\E e : Cn!Writes(Cn!Put(kv, k, e))) \/ Cn!Refuse \/ Cn!Skip
  BY DEF Cn!RemoveMembers
<1> QED BY <1>1, WritesAreFine, SkipIsFine

LEMMA SAddFine == ASSUME IsStore(kv), NEW k, NEW ms, Cn!SAdd(k, ms) PROVE StoredOrRefused
<1>1. (\E e : Cn!Writes(Cn!Put(kv, k, e))) \/ Cn!Refuse \/ Cn!Skip
  BY DEF Cn!SAdd, Cn!FoldLeft, Cn!MapThenFoldSet
<1> QED BY <1>1, WritesAreFine, SkipIsFine

LEMMA SPopFine == ASSUME IsStore(kv), NEW k, NEW n, Cn!SPop(k, n) PROVE StoredOrRefused
<1>1. (\E e : Cn!Writes(Cn!Put(kv, k, e))) \/ Cn!Refuse \/ Cn!Skip
  BY DEF Cn!SPop
<1> QED BY <1>1, WritesAreFine, SkipIsFine

LEMMA ZPopFine == ASSUME IsStore(kv), NEW k, NEW n, NEW first, Cn!ZPop(k, n, first) PROVE StoredOrRefused
<1>1. (\E e : Cn!Writes(Cn!Put(kv, k, e))) \/ Cn!Refuse \/ Cn!Skip
  BY DEF Cn!ZPop
<1> QED BY <1>1, WritesAreFine, SkipIsFine

LEMMA SMoveFine ==
  ASSUME IsStore(kv), NEW s \in Key, NEW d, NEW m, Cn!SMove(s, d, m) PROVE StoredOrRefused
<1>1. \/ Cn!Refuse \/ Cn!Skip
      \/ \E t, e : Cn!Writes(Cn!Put(t, d, e))
      \/ m \in Cn!Members(s) /\ Cn!Does(Cn!Put(kv, s, Cn!Without(kv[s], <<m>>)), Cn!Failed)
  BY DEF Cn!SMove
<1>2. ASSUME m \in Cn!Members(s), Cn!Does(Cn!Put(kv, s, Cn!Without(kv[s], <<m>>)), Cn!Failed) PROVE StoredOrRefused
  <2>1. kv' = Cn!Put(kv, s, Cn!Without(kv[s], <<m>>))
    BY <1>2 DEF Cn!Does
  <2>2. Cn!FailureTouchesOneKey
    BY <1>2, <2>1 DEF Cn!FailureTouchesOneKey
  <2> QED BY <2>1, <2>2, PutIsStore DEF StoredOrRefused
<1> QED BY <1>1, <1>2, WritesAreFine, SkipIsFine

LEMMA StoreSetFine == ASSUME NEW d, NEW items, Cn!StoreSet(d, items) PROVE StoredOrRefused
<1>1. \E e : Cn!Writes(Cn!Put(kv, d, e))
  BY DEF Cn!StoreSet
<1> QED BY <1>1, WritesAreFine

LEMMA SUnionStoreFine ==
  ASSUME IsStore(kv), NEW d \in Key, NEW sources, Cn!SUnionStore(d, sources) PROVE StoredOrRefused
<1>1. CASE Cn!NoSets(sources)
  <2>1. kv' = Cn!Put(kv, d, Cn!GetOrInit(d, "set"))
    BY <1>1 DEF Cn!SUnionStore, Cn!Does
  <2>2. CASE Cn!Has(d)
    <3>1. Cn!GetOrInit(d, "set") = kv[d] /\ d \in DOMAIN kv
      BY <2>2 DEF Cn!GetOrInit, Cn!Has
    <3>2. kv' = kv
      BY <2>1, <3>1, PutBack
    <3> QED BY <3>2, SameIsFine
  <2>3. CASE ~Cn!Has(d)
    <3>1. kv' = Cn!Put(kv, d, Cn!Empty("set"))
      BY <2>1, <2>3 DEF Cn!GetOrInit
    <3>2. Cn!FailureTouchesOneKey
      BY <2>3, <3>1 DEF Cn!FailureTouchesOneKey
    <3> QED BY <3>1, <3>2, PutIsStore DEF StoredOrRefused
  <2> QED BY <2>2, <2>3
<1>2. CASE ~Cn!NoSets(sources)
  <2>1. Cn!StoreSet(d, Cn!Union(sources))
    BY <1>2 DEF Cn!SUnionStore
  <2> QED BY <2>1, StoreSetFine
<1> QED BY <1>1, <1>2

LEMMA OtherStoresFine ==
  ASSUME IsStore(kv), NEW d, NEW sources, Cn!SInterStore(d, sources) \/ Cn!SDiffStore(d, sources)
  PROVE  StoredOrRefused
<1>1. Cn!Refuse \/ Cn!StoreSet(d, Cn!Common(sources)) \/ Cn!StoreSet(d, Cn!Difference(sources))
  BY DEF Cn!SInterStore, Cn!SDiffStore
<1> QED BY <1>1, SkipIsFine, StoreSetFine

(* The pairs before a bad one are none or pairs of numbers. *)

LEMMA PairsBefore ==
  ASSUME NEW pairs \in Cn!Pairs(Number \cup {Cn!BadScore}), NEW i \in DOMAIN pairs,
         \A j \in DOMAIN pairs : j < i => pairs[j].value # Cn!BadScore
  PROVE  SubSeq(pairs, 1, i - 1) \in {<<>>} \cup Cn!Pairs(Number)
<1> DEFINE P == [member : Member, value : Number \cup {Cn!BadScore}]
           Good == [member : Member, value : Number]
           t == SubSeq(pairs, 1, i - 1)
<1>1. PICK n \in 1 .. MaxArgs : pairs \in [1 .. n -> P]
  BY DEF Cn!Pairs, Cn!Lists
<1>2. i \in 1 .. n /\ n \in Nat /\ i - 1 \in Nat /\ i - 1 <= MaxArgs /\ 1 \in Int
  BY <1>1, ContainersAssumption
<1>3. ASSUME NEW j \in 1 .. i - 1 PROVE pairs[j] \in Good
  <2>1. j \in DOMAIN pairs /\ j < i /\ pairs[j] \in P
    BY <1>1, <1>2
  <2>2. pairs[j].value # Cn!BadScore
    BY <2>1
  <2> QED BY <2>1, <2>2
<1>4. CASE i - 1 = 0
  <2>1. t = <<>>
    BY <1>2, <1>4, SubSeqEmpty
  <2> QED BY <2>1
<1>5. CASE i - 1 # 0
  <2> HIDE DEF P, Good
  <2>1. t \in Seq(Good) /\ Len(t) = i - 1
    <3>1. t \in Seq(Good) /\ Len(t) = IF 1 <= i - 1 THEN (i - 1) - 1 + 1 ELSE 0
      BY <1>2, <1>3, SubSeqProperties
    <3> QED BY <1>2, <1>5, <3>1
  <2>2. i - 1 \in 1 .. MaxArgs
    BY <1>2, <1>5, ContainersAssumption
  <2>3. t \in [1 .. i - 1 -> Good]
    <3> HIDE DEF t
    <3> QED BY <2>1, LenProperties
  <2> QED BY <2>2, <2>3 DEF Cn!Pairs, Cn!Lists, Good
<1> QED BY <1>4, <1>5

LEMMA ZAddFine ==
  ASSUME IsStore(kv), NEW k \in Key, NEW pairs \in Cn!Pairs(Number \cup {Cn!BadScore}), Cn!ZAdd(k, pairs)
  PROVE  StoredOrRefused
<1> DEFINE bad  == {i \in DOMAIN pairs : pairs[i].value = Cn!BadScore}
           good == IF bad = {} THEN pairs ELSE SubSeq(pairs, 1, (CHOOSE i \in bad : \A j \in bad : i <= j) - 1)
           left == Cn!Put(kv, k, Cn!FoldLeft(Cn!AddScored, Cn!GetOrInit(k, "zset"), good))
<1>1. Cn!Does(left, IF bad = {} THEN Cn!Done ELSE Cn!Failed) \/ Cn!Refuse
  BY DEF Cn!ZAdd
<1>2. ASSUME bad # {} PROVE good \in {<<>>} \cup Cn!Pairs(Number)
  <2> DEFINE first == CHOOSE i \in bad : \A j \in bad : i <= j
  <2>1. DOMAIN pairs \subseteq Nat
    BY DEF Cn!Pairs, Cn!Lists
  <2>2. \E i \in bad : \A j \in bad : i <= j
    <3>1. bad \in SUBSET Nat
      BY <2>1
    <3> HIDE DEF bad
    <3> QED BY <1>2, <3>1, LeastNat
  <2>3. first \in bad /\ \A j \in bad : first <= j
    <3> HIDE DEF bad
    <3> QED BY <2>2
  <2>4. first \in DOMAIN pairs /\ \A j \in DOMAIN pairs : j < first => pairs[j].value # Cn!BadScore
    <3>1. \A j \in DOMAIN pairs : j < first => j \notin bad
      <4> HIDE DEF first
      <4>1. bad \subseteq Nat /\ first \in Nat
        BY <2>1, <2>3
      <4> SUFFICES ASSUME NEW j \in bad, j < first PROVE FALSE
        OBVIOUS
      <4>2. first <= j /\ j \in Nat
        BY <2>3, <4>1
      <4> QED BY <4>1, <4>2
    <3>2. first \in DOMAIN pairs
      BY <2>3
    <3> HIDE DEF first
    <3> QED BY <3>1, <3>2
  <2>5. good = SubSeq(pairs, 1, first - 1)
    BY <1>2
  <2> HIDE DEF first, good, bad
  <2>6. SubSeq(pairs, 1, first - 1) \in {<<>>} \cup Cn!Pairs(Number)
    BY <2>4, PairsBefore
  <2> QED BY <2>5, <2>6
<1>3. ASSUME Cn!Does(left, IF bad = {} THEN Cn!Done ELSE Cn!Failed) PROVE StoredOrRefused
  <2> HIDE DEF bad, good
  <2>1. kv' = left /\ reply' = IF bad = {} THEN Cn!Done ELSE Cn!Failed
    BY <1>3 DEF Cn!Does
  <2>2. CASE bad = {}
    <3>1. reply' = Cn!Done
      BY <2>1, <2>2
    <3>2. Cn!FailureTouchesOneKey
      BY <3>1 DEF Cn!FailureTouchesOneKey, Cn!Done, Cn!Failed
    <3> QED BY <2>1, <3>2, PutIsStore DEF StoredOrRefused
  <2>3. CASE bad # {}
    <3>1. good \in {<<>>} \cup Cn!Pairs(Number)
      BY <1>2, <2>3
    <3>2. Cn!FailureTouchesOneKey
      BY <2>1, <3>1 DEF Cn!FailureTouchesOneKey
    <3> QED BY <2>1, <3>2, PutIsStore DEF StoredOrRefused
  <2> QED BY <2>2, <2>3
<1> HIDE DEF bad, left
<1> QED BY <1>1, <1>3, SkipIsFine

LEMMA ZIncrByFine == ASSUME IsStore(kv), NEW k, NEW inc, NEW m, Cn!ZIncrBy(k, inc, m) PROVE StoredOrRefused
<1>1. (\E e : Cn!Writes(Cn!Put(kv, k, e))) \/ Cn!Refuse
  BY DEF Cn!ZIncrBy
<1> QED BY <1>1, WritesAreFine, SkipIsFine

LEMMA ContainersStoreOrRefuse == IsStore(kv) /\ [Cn!Next]_Cn!vars => StoredOrRefused
<1> SUFFICES ASSUME IsStore(kv), [Cn!Next]_Cn!vars PROVE StoredOrRefused
  OBVIOUS
<1>1. CASE UNCHANGED Cn!vars
  BY <1>1, SameIsFine DEF Cn!vars
<1>2. CASE Cn!Next
  <2>1. PICK k \in Key :
          \/ \E m \in Member, n \in Number : Cn!HSet(k, <<Cn!Pair(m, n)>>)
          \/ \E m \in Member, type \in {"hash", "set", "zset"} : Cn!RemoveMembers(k, type, <<m>>)
          \/ \E m \in Member : Cn!SAdd(k, <<m>>)
          \/ \E n \in 0 .. MaxArgs : Cn!SPop(k, n) \/ Cn!ZPop(k, n, TRUE) \/ Cn!ZPop(k, n, FALSE)
          \/ \E d \in Key, m \in Member : Cn!SMove(k, d, m)
          \/ \E sources \in Cn!Lists(Key) :
               Cn!SUnionStore(k, sources) \/ Cn!SInterStore(k, sources) \/ Cn!SDiffStore(k, sources)
          \/ \E pairs \in Cn!Pairs(Number \cup {Cn!BadScore}) : Cn!ZAdd(k, pairs)
          \/ \E inc \in Number, m \in Member : Cn!ZIncrBy(k, inc, m)
          \/ Cn!SetString(k) \/ Cn!Del(k)
          \/ Cn!ScanStart(k) \/ \E count \in 1 .. MaxArgs : Cn!ScanStep(count)
    BY <1>2 DEF Cn!Next
  <2>2. Cn!SetString(k) => StoredOrRefused
    BY WritesAreFine DEF Cn!SetString
  <2>3. ASSUME Cn!Del(k) PROVE StoredOrRefused
    <3>1. kv' = [x \in DOMAIN kv \ {k} |-> kv[x]] /\ reply' = Cn!Done
      BY <2>3 DEF Cn!Del, Cn!Writes, Cn!Does
    <3>2. IsStore(kv')
      BY <3>1 DEF IsStore
    <3>3. Cn!FailureTouchesOneKey
      BY <3>1 DEF Cn!FailureTouchesOneKey, Cn!Done, Cn!Failed
    <3> QED BY <3>2, <3>3 DEF StoredOrRefused
  <2>4. (Cn!ScanStart(k) \/ \E count \in 1 .. MaxArgs : Cn!ScanStep(count)) => kv' = kv
    BY DEF Cn!ScanStart, Cn!ScanStep
  <2> QED BY <2>1, <2>2, <2>3, <2>4, SameIsFine, HSetFine, RemoveMembersFine, SAddFine, SPopFine, ZPopFine,
             SMoveFine, SUnionStoreFine, OtherStoresFine, ZAddFine, ZIncrByFine
<1> QED BY <1>1, <1>2

LEMMA ContainersBegin == Cn!Init => IsStore(kv)
<1>1. <<>> = [k \in {} |-> 0] /\ DOMAIN <<>> = {}
  OBVIOUS
<1> QED BY <1>1 DEF Cn!Init, IsStore

(* What a command that fails leaves behind. *)

CommandsInv ==
  /\ family = "series" => SeriesInv
  /\ family = "ranges" => RangesInv
  /\ family = "containers" => IsStore(kv)

TouchOneKey ==
  /\ family = "containers" => Cn!FailureTouchesOneKey
  /\ family = "ranges" => Rg!FailureTouchesOneKey /\ Rg!MoveKeepsElements
  /\ family = "series" => Ts!ErrorChangesNothing

LEMMA MapsBegin == Init /\ family = "containers" => Cn!Init
BY DEF Init

LEMMA MapsStep == [Next]_vars => family' = family /\ (family = "containers" => [Cn!Next]_Cn!vars)
BY DEF Next, vars, storeVars, Cn!vars

LEMMA CommandsBegin == Init => CommandsInv
BY SeriesBegin, SeriesStarts, CountersBegin, RangesBegin, MapsBegin, ContainersBegin DEF CommandsInv

LEMMA CommandsKeep == CommandsInv /\ [Next]_vars => CommandsInv' /\ [TouchOneKey]_vars
<1> SUFFICES ASSUME CommandsInv, [Next]_vars PROVE CommandsInv' /\ TouchOneKey
  OBVIOUS
<1>1. family' = family
  BY MapsStep
<1>2. ASSUME family = "containers" PROVE IsStore(kv)' /\ Cn!FailureTouchesOneKey
  <2>1. StoredOrRefused
    BY <1>2, MapsStep, ContainersStoreOrRefuse DEF CommandsInv
  <2> QED BY <2>1 DEF StoredOrRefused, IsStore
<1>3. ASSUME family = "series" PROVE SeriesInv' /\ Ts!ErrorChangesNothing
  <2>1. SeriesInv' /\ [Ts!ErrorChangesNothing]_Ts!vars
    BY <1>3, SeriesStep, SeriesNext DEF CommandsInv
  <2> QED BY <2>1 DEF Ts!ErrorChangesNothing, Ts!vars
<1>4. ASSUME family = "ranges" PROVE RangesInv' /\ Rg!FailureTouchesOneKey /\ Rg!MoveKeepsElements
  <2>1. RangesInv /\ [Rg!Next]_Rg!vars
    BY <1>4, CountersStep DEF CommandsInv
  <2> QED BY <2>1, RangesNext, MovesKeep, RefusalsTouchOneKey
<1> QED BY <1>1, <1>2, <1>3, <1>4 DEF CommandsInv, TouchOneKey

(* Whatever the circumstances, a command on hashes, sets, sorted sets, numbers, strings and   *)
(* lists that is answered an error has touched one key at most, and there lost no more than   *)
(* the one member or element it took; LMOVE keeps the elements of all lists together but for  *)
(* that one; and a TS.ADD that fails has stored nothing unless a rule's destination is no     *)
(* series: for stores of any keys, members and values.                                        *)
THEOREM FailuresAlwaysTouchOneKey == Spec => FailuresTouchOneKey
<1>1. Spec => []CommandsInv
  BY CommandsBegin, CommandsKeep, PTL DEF Spec
<1>2. Spec => [][TouchOneKey]_vars
  BY <1>1, CommandsKeep, PTL DEF Spec
<1> QED BY <1>2 DEF FailuresTouchOneKey, TouchOneKey
==============================================================================
