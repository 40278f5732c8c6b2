---------------------------- MODULE SessionProofs -----------------------------
(***************************************************************************)
(* For any number of connections, databases, commands and closes: calls    *)
(* are answered each once and by their own answers, and writes take effect *)
(* once and in the order they were sent.                                   *)
(*                                                                         *)
(* A chunk is a fold of Serve over the commands in it, and EXEC a fold of  *)
(* RunQueued over the queue.  What holds of a turn is stated with the      *)
(* number of commands it has served, so that it is an invariant of the     *)
(* fold, and what holds of a connection is what holds of a turn that has   *)
(* served nothing yet.                                                     *)
(***************************************************************************)
EXTENDS Session, SequenceTheorems, WellFoundedInduction, TLAPS

Serving == INSTANCE Folding WITH Step <- Serve
Running == INSTANCE Folding WITH Step <- RunQueued

Stored  == [conn : Conn, id : Nat, db : Db]
Sess    == [inMulti : BOOLEAN, queue : Seq(Command), db : Db]
Turn    == [state : Sess, later : SUBSET Nat, answers : Seq(Nat), store : Seq(Stored),
            thrown : BOOLEAN]

(* Every set of naturals that is not empty has a least element: folds are reasoned about *)
(* with it, as with an induction. *)

LEMMA LeastNat ==
  ASSUME NEW T \in SUBSET Nat, T # {} PROVE \E n \in T : \A m \in T : n <= m
<1> DEFINE R == OpToRel(<, Nat)
<1>1. IsWellFoundedOn(R, Nat)
  BY NatLessThanWellFounded
<1>2. \A x, y \in Nat : <<y, x>> \in R <=> y < x
  BY DEF OpToRel
<1> HIDE DEF R
<1>3. PICK n \in T : \A m \in T : ~(<<m, n>> \in R)
  BY <1>1, WFMin
<1>4. n \in Nat /\ \A m \in T : m \in Nat /\ ~(m < n)
  BY <1>2, <1>3
<1>5. \A m \in T : n <= m
  BY <1>4
<1> QED BY <1>3, <1>5

(* What is on its way after i commands. *)
Rest(c, i) == {wire[c][j].id : j \in i + 1 .. Len(wire[c])}

(* A store whose writes of c precede the calls L. *)
StoreOk(c, L, st) ==
  /\ st \in Seq(Stored)
  /\ \A p, q \in DOMAIN st : p < q /\ st[p].conn = st[q].conn => st[p].id < st[q].id
  /\ \A p \in DOMAIN st : /\ st[p].id <= issued
                          /\ st[p].conn = c => \A n \in L : st[p].id < n
                          /\ st[p].conn # c => st[p] \in Range(store)

QueueOk(c, i, q) ==
  /\ q \in Seq(Command) /\ InOrder(q)
  /\ \A p \in DOMAIN q : /\ q[p].conn = c /\ q[p].kind \in {"read", "write"} /\ q[p].id <= issued
                         /\ \A n \in Rest(c, i) : q[p].id < n

AnswersOk(c, i, lt, as) ==
  /\ lt \in SUBSET Nat /\ as \in Seq(Nat)
  /\ Ids(Range(sent[c])) = Rest(c, i) \cup lt \cup Range(as)
  /\ AllBefore(lt \cup Range(as), Rest(c, i))
  /\ lt \subseteq Delayed(c) /\ lt \cap Range(as) = {}
  /\ IsInjective(as)
  /\ \A p, q \in DOMAIN as : p < q /\ as[p] \in AtOnce(c) /\ as[q] \in AtOnce(c) => as[p] < as[q]

(* A turn that has served i commands, none of which threw. *)
TurnOk(c, i, t) ==
  /\ t \in Turn /\ ~t.thrown
  /\ t.state.inMulti \/ t.state.queue = <<>>
  /\ QueueOk(c, i, t.state.queue)
  /\ StoreOk(c, Ids(Range(t.state.queue)) \cup Rest(c, i), t.store)
  /\ AnswersOk(c, i, t.later, t.answers)

WireOk(c) ==
  /\ InOrder(wire[c]) /\ InOrder(sent[c])
  /\ \A p \in DOMAIN sent[c] : sent[c][p].id <= issued
  /\ \A j \in DOMAIN wire[c] :
       /\ wire[c][j].conn = c
       /\ \E p \in DOMAIN sent[c] : sent[c][p].id = wire[c][j].id /\ sent[c][p].kind = wire[c][j].kind

TurnOf(c) == [state |-> state[c], later |-> later[c], answers |-> answers[c],
              store |-> store, thrown |-> FALSE]

IInv == TypeOK /\ \A c \in Conn : WireOk(c) /\ TurnOk(c, 0, TurnOf(c))
------------------------------------------------------------------------------
(* What the handlers do to a turn *)

LEMMA AnswerDoes ==
  ASSUME NEW t \in Turn, NEW x \in Command
  PROVE  /\ Answer(t, x) \in Turn
         /\ Answer(t, x).state = t.state /\ Answer(t, x).later = t.later
         /\ Answer(t, x).store = t.store /\ Answer(t, x).thrown = t.thrown
         /\ Answer(t, x).answers = Append(t.answers, x.id)
<1>1. Append(t.answers, x.id) \in Seq(Nat)
  BY AppendProperties DEF Turn, Command
<1> QED BY <1>1 DEF Answer, Turn

LEMMA ApplyDoes ==
  ASSUME NEW t \in Turn, NEW x \in Command
  PROVE  /\ Apply(t, x) \in Turn
         /\ Apply(t, x).state = t.state /\ Apply(t, x).later = t.later
         /\ Apply(t, x).answers = t.answers /\ Apply(t, x).thrown = t.thrown
         /\ Apply(t, x).store = Append(t.store, [conn |-> x.conn, id |-> x.id, db |-> t.state.db])
<1> DEFINE w == [conn |-> x.conn, id |-> x.id, db |-> t.state.db]
<1>1. w \in Stored
  BY DEF Turn, Sess, Command, Stored
<1>2. Append(t.store, w) \in Seq(Stored)
  BY <1>1, AppendProperties DEF Turn
<1> QED BY <1>2 DEF Apply, Turn

LEMMA QueueSet ==
  ASSUME NEW t \in Turn, NEW queue \in Seq(Command)
  PROVE  LET u == [t EXCEPT !.state.queue = queue] IN
         /\ u \in Turn /\ u.state.inMulti = t.state.inMulti /\ u.state.queue = queue
         /\ u.later = t.later /\ u.store = t.store /\ u.thrown = t.thrown
         /\ u.answers = t.answers
BY DEF Turn, Sess

LEMMA DbSet ==
  ASSUME NEW t \in Turn, NEW db \in Db
  PROVE  LET u == [t EXCEPT !.state.db = db] IN
         /\ u \in Turn /\ u.state.inMulti = t.state.inMulti /\ u.state.queue = t.state.queue
         /\ u.later = t.later /\ u.store = t.store /\ u.thrown = t.thrown
         /\ u.answers = t.answers
BY DEF Turn, Sess

LEMMA LaterSet ==
  ASSUME NEW t \in Turn, NEW n \in Nat
  PROVE  LET u == [t EXCEPT !.later = @ \cup {n}] IN
         /\ u \in Turn /\ u.state = t.state /\ u.later = t.later \cup {n}
         /\ u.store = t.store /\ u.thrown = t.thrown /\ u.answers = t.answers
BY DEF Turn

(* What is true of the parts of a turn when a command is taken from the wire *)

LEMMA RestLess ==
  ASSUME NEW c \in Conn, NEW i \in 1 .. Len(wire[c]), TypeOK, WireOk(c)
  PROVE  /\ wire[c][i] \in Command
         /\ Rest(c, i - 1) = Rest(c, i) \cup {wire[c][i].id}
         /\ \A n \in Rest(c, i) : wire[c][i].id < n
         /\ wire[c][i].id <= issued /\ wire[c][i].conn = c
         /\ Rest(c, i) \subseteq Nat
         /\ \E p \in DOMAIN sent[c] :
              sent[c][p].id = wire[c][i].id /\ sent[c][p].kind = wire[c][i].kind
<1>1. wire[c] \in Seq(Command) /\ sent[c] \in Seq([id : Nat, kind : Kind])
  BY DEF TypeOK
<1>2. Len(wire[c]) \in Nat /\ DOMAIN wire[c] = 1 .. Len(wire[c])
      /\ \A j \in 1 .. Len(wire[c]) : wire[c][j] \in Command
  BY <1>1, LenProperties, ElementOfSeq
<1>3. \A j \in i + 1 .. Len(wire[c]) : j \in DOMAIN wire[c] /\ i < j /\ wire[c][j].id \in Nat
  BY <1>2 DEF Command
<1>4. Rest(c, i - 1) = Rest(c, i) \cup {wire[c][i].id}
  <2>1. (i - 1) + 1 .. Len(wire[c]) = (i + 1 .. Len(wire[c])) \cup {i}
    BY <1>2
  <2> QED BY <2>1 DEF Rest
<1>5. \A n \in Rest(c, i) : wire[c][i].id < n /\ n \in Nat
  BY <1>2, <1>3 DEF Rest, WireOk, InOrder
<1>6. wire[c][i].id <= issued
  BY <1>1, <1>2 DEF WireOk
<1> QED BY <1>2, <1>4, <1>5, <1>6 DEF WireOk

(* The same queue, the same store and one command less on its way *)

LEMMA QueueLess ==
  ASSUME NEW c \in Conn, NEW i \in 1 .. Len(wire[c]), TypeOK, WireOk(c), NEW q, QueueOk(c, i - 1, q)
  PROVE  QueueOk(c, i, q)
BY RestLess DEF QueueOk

LEMMA StoreLess ==
  ASSUME NEW c, NEW L, NEW M \in SUBSET L, NEW st, StoreOk(c, L, st) PROVE StoreOk(c, M, st)
BY DEF StoreOk

LEMMA StoreGrows ==
  ASSUME TypeOK, NEW c \in Conn, NEW L \in SUBSET Nat, NEW n \in Nat, n <= issued,
         \A m \in L : n < m, NEW db \in Db, NEW st, StoreOk(c, L \cup {n}, st)
  PROVE  StoreOk(c, L, Append(st, [conn |-> c, id |-> n, db |-> db]))
<1> DEFINE w == [conn |-> c, id |-> n, db |-> db]
           new == Append(st, w)
<1>1. w \in Stored /\ w.conn = c /\ w.id = n
  BY DEF Stored
<1>2. st \in Seq(Stored) /\ Len(st) \in Nat /\ DOMAIN st = 1 .. Len(st)
  BY LenProperties DEF StoreOk
<1> HIDE DEF w
<1>3. /\ new \in Seq(Stored) /\ DOMAIN new = 1 .. Len(st) + 1
      /\ \A p \in 1 .. Len(st) : new[p] = st[p]
      /\ new[Len(st) + 1] = w
  BY <1>1, <1>2, AppendProperties
<1> HIDE DEF new
<1>4. \A p \in DOMAIN new : (p \in DOMAIN st /\ new[p] = st[p]) \/ (p = Len(st) + 1 /\ new[p] = w)
  <2>1. DOMAIN new = 1 .. Len(st) \cup {Len(st) + 1}
    BY <1>2, <1>3
  <2>2. ASSUME NEW p \in DOMAIN st PROVE new[p] = st[p]
    BY <1>2, <1>3
  <2>3. new[Len(st) + 1] = w
    BY <1>3
  <2> QED BY <1>2, <2>1, <2>2, <2>3
<1>5. \A p \in DOMAIN st : st[p].id \in Nat
  <2>1. \A p \in DOMAIN st : st[p] \in Stored
    BY <1>2, ElementOfSeq
  <2> QED BY <2>1 DEF Stored
<1>6. \A p, q \in DOMAIN new : p < q /\ new[p].conn = new[q].conn => new[p].id < new[q].id
  <2> SUFFICES ASSUME NEW p \in DOMAIN new, NEW q \in DOMAIN new, p < q, new[p].conn = new[q].conn
               PROVE  new[p].id < new[q].id
    OBVIOUS
  <2>1. p \in DOMAIN st /\ new[p] = st[p]
    BY <1>2, <1>3
  <2>2. CASE q \in DOMAIN st
    BY <1>2, <1>3, <2>1, <2>2 DEF StoreOk
  <2>3. CASE q = Len(st) + 1
    BY <1>1, <1>3, <2>1, <2>3 DEF StoreOk
  <2> QED BY <1>4, <2>2, <2>3
<1>7. \A p \in DOMAIN new : /\ new[p].id <= issued
                            /\ new[p].conn = c => \A m \in L : new[p].id < m
                            /\ new[p].conn # c => new[p] \in Range(store)
  BY <1>1, <1>4 DEF StoreOk
<1> QED BY <1>3, <1>6, <1>7 DEF StoreOk, new, w
(* What appending does to a sequence and to its elements *)

Longer(S, s, e, new) ==
  /\ new \in Seq(S)
  /\ Len(s) \in Nat /\ DOMAIN s = 1 .. Len(s)
  /\ DOMAIN new = DOMAIN s \cup {Len(s) + 1}
  /\ \A p \in DOMAIN s : s[p] \in S /\ new[p] = s[p] /\ p < Len(s) + 1
  /\ new[Len(s) + 1] = e
  /\ Range(new) = Range(s) \cup {e}

LEMMA Appended ==
  ASSUME NEW S, NEW s \in Seq(S), NEW e \in S PROVE Longer(S, s, e, Append(s, e))
<1> DEFINE new == Append(s, e)
<1>1. /\ new \in Seq(S) /\ DOMAIN new = 1 .. Len(s) + 1
      /\ \A p \in 1 .. Len(s) : new[p] = s[p]
      /\ new[Len(s) + 1] = e
  BY AppendProperties
<1>2. Len(s) \in Nat /\ DOMAIN s = 1 .. Len(s) /\ \A p \in DOMAIN s : s[p] \in S
  BY LenProperties, ElementOfSeq
<1> HIDE DEF new
<1>3. DOMAIN new = DOMAIN s \cup {Len(s) + 1}
  BY <1>1, <1>2
<1>4. \A p \in DOMAIN s : new[p] = s[p] /\ p < Len(s) + 1
  BY <1>1, <1>2
<1>5. Range(new) = Range(s) \cup {e}
  BY <1>1, <1>3, <1>4 DEF Range
<1>6. Longer(S, s, e, new)
  BY <1>1, <1>2, <1>3, <1>4, <1>5 DEF Longer
<1> QED BY <1>6 DEF new

LEMMA EmptyQueue ==
  ASSUME NEW c \in Conn, NEW i \in Nat
  PROVE  QueueOk(c, i, <<>>) /\ Ids(Range(<<>>)) = {}
<1>1. DOMAIN <<>> = {} /\ <<>> \in Seq(Command)
  OBVIOUS
<1> QED BY <1>1 DEF QueueOk, InOrder, Ids, Range

(* The call a command came with is answered when the command is served, or set aside *)

LEMMA Answered ==
  ASSUME TypeOK, NEW c \in Conn, NEW i \in 1 .. Len(wire[c]), WireOk(c),
         NEW lt, NEW as, AnswersOk(c, i - 1, lt, as)
  PROVE  AnswersOk(c, i, lt, Append(as, wire[c][i].id))
<1> DEFINE n == wire[c][i].id
           new == Append(as, n)
<1>1. /\ n \in Nat /\ Rest(c, i - 1) = Rest(c, i) \cup {n}
      /\ \A m \in Rest(c, i) : n < m
  BY RestLess DEF Command
<1>2. as \in Seq(Nat) /\ lt \in SUBSET Nat
  BY DEF AnswersOk
<1> HIDE DEF n
<1>3. /\ new \in Seq(Nat)
      /\ DOMAIN new = DOMAIN as \cup {Len(as) + 1}
      /\ Len(as) \in Nat /\ DOMAIN as = 1 .. Len(as)
      /\ \A p \in DOMAIN as : as[p] \in Nat /\ new[p] = as[p] /\ p < Len(as) + 1
      /\ new[Len(as) + 1] = n /\ Range(new) = Range(as) \cup {n}
  <2>1. Longer(Nat, as, n, new)
    BY <1>1, <1>2, Appended
  <2> HIDE DEF new
  <2> QED BY <2>1 DEF Longer
<1> HIDE DEF new
<1>4. /\ lt \cup Range(as) \subseteq Nat
      /\ \A m \in lt \cup Range(as) : m < n
  <2>1. Range(as) \subseteq Nat
    BY <1>3 DEF Range
  <2> QED BY <1>1, <1>2, <2>1 DEF AnswersOk, AllBefore
<1>5. n \notin lt /\ n \notin Range(as)
  <2>1. ~(n < n)
    BY <1>1
  <2> QED BY <1>4, <2>1
<1>6. Ids(Range(sent[c])) = Rest(c, i) \cup lt \cup Range(new) /\ lt \cap Range(new) = {}
  <2>1. Ids(Range(sent[c])) = Rest(c, i - 1) \cup lt \cup Range(as) /\ lt \cap Range(as) = {}
    BY DEF AnswersOk
  <2>2. Range(new) = Range(as) \cup {n}
    BY <1>3
  <2>3. lt \cap Range(new) = {}
    BY <1>5, <2>1, <2>2
  <2> QED BY <1>1, <2>1, <2>2, <2>3
<1>7. AllBefore(lt \cup Range(new), Rest(c, i))
  BY <1>1, <1>3 DEF AnswersOk, AllBefore
<1>8. \A p, q \in DOMAIN as : as[p] = as[q] => p = q
  BY DEF AnswersOk, IsInjective
<1>9. \A p \in DOMAIN as : as[p] \in Range(as) /\ as[p] < n
  BY <1>4 DEF Range
<1>10. IsInjective(new)
  BY <1>3, <1>5, <1>8, <1>9 DEF IsInjective
<1>11. ASSUME NEW p \in DOMAIN new, NEW q \in DOMAIN new, p < q, new[p] \in AtOnce(c), new[q] \in AtOnce(c)
       PROVE  new[p] < new[q]
  <2>1. p \in DOMAIN as
    <3> DEFINE k == Len(as)
    <3>1. k \in Nat /\ p \in 1 .. k \cup {k + 1} /\ q \in 1 .. k \cup {k + 1} /\ DOMAIN as = 1 .. k
      BY <1>3
    <3> HIDE DEF k
    <3> QED BY <1>11, <3>1
  <2>2. CASE q \in DOMAIN as
    BY <1>3, <1>11, <2>1, <2>2 DEF AnswersOk
  <2>3. CASE q = Len(as) + 1
    BY <1>3, <1>9, <2>1, <2>3
  <2> QED BY <1>3, <2>2, <2>3
<1> QED BY <1>2, <1>3, <1>6, <1>7, <1>10, <1>11 DEF AnswersOk, new, n

LEMMA SetAside ==
  ASSUME TypeOK, NEW c \in Conn, NEW i \in 1 .. Len(wire[c]), WireOk(c), wire[c][i].kind = "later",
         NEW lt, NEW as, AnswersOk(c, i - 1, lt, as)
  PROVE  AnswersOk(c, i, lt \cup {wire[c][i].id}, as)
<1> DEFINE n == wire[c][i].id
<1>1. /\ n \in Nat /\ Rest(c, i - 1) = Rest(c, i) \cup {n}
      /\ \A m \in Rest(c, i) : n < m
      /\ \E p \in DOMAIN sent[c] : sent[c][p].id = n /\ sent[c][p].kind = "later"
  BY RestLess DEF Command
<1> HIDE DEF n
<1>2. n \in Delayed(c)
  BY <1>1 DEF Delayed, Ids, Range
<1>3. \A m \in Range(as) : m < n
  BY <1>1 DEF AnswersOk, AllBefore
<1>4. n \notin Range(as)
  <2>1. ~(n < n)
    BY <1>1
  <2> QED BY <1>3, <2>1
<1>5. Ids(Range(sent[c])) = Rest(c, i) \cup (lt \cup {n}) \cup Range(as)
      /\ (lt \cup {n}) \cap Range(as) = {}
  BY <1>1, <1>4 DEF AnswersOk
<1>6. AllBefore((lt \cup {n}) \cup Range(as), Rest(c, i))
  BY <1>1 DEF AnswersOk, AllBefore
<1> QED BY <1>1, <1>2, <1>5, <1>6 DEF AnswersOk, n
(* MULTI's queue takes the command *)

LEMMA QueueGrows ==
  ASSUME TypeOK, NEW c \in Conn, NEW i \in 1 .. Len(wire[c]), WireOk(c),
         wire[c][i].kind \in {"read", "write"}, NEW q, QueueOk(c, i - 1, q)
  PROVE  /\ QueueOk(c, i, Append(q, wire[c][i]))
         /\ Ids(Range(Append(q, wire[c][i]))) = Ids(Range(q)) \cup {wire[c][i].id}
<1> DEFINE x == wire[c][i]
           new == Append(q, x)
<1>1. /\ x \in Command /\ Rest(c, i - 1) = Rest(c, i) \cup {x.id}
      /\ \A n \in Rest(c, i) : x.id < n
      /\ x.id <= issued /\ x.conn = c
  BY RestLess
<1>2. x.kind \in {"read", "write"} /\ q \in Seq(Command)
  BY DEF QueueOk
<1> HIDE DEF x
<1>3. Longer(Command, q, x, new)
  BY <1>1, <1>2, Appended
<1> HIDE DEF new
<1>4. /\ new \in Seq(Command)
      /\ \A p \in DOMAIN new : (p \in DOMAIN q /\ new[p] = q[p]) \/ (p = Len(q) + 1 /\ new[p] = x)
      /\ Range(new) = Range(q) \cup {x}
  BY <1>3 DEF Longer
<1>5. \A p \in DOMAIN q : q[p].id < x.id
  BY <1>1 DEF QueueOk
<1>6. ASSUME NEW p \in DOMAIN new, NEW r \in DOMAIN new, p < r PROVE new[p].id < new[r].id
  <2> DEFINE k == Len(q)
  <2>1. k \in Nat /\ p \in 1 .. k \cup {k + 1} /\ r \in 1 .. k \cup {k + 1} /\ DOMAIN q = 1 .. k
    BY <1>3 DEF Longer
  <2> HIDE DEF k
  <2>2. p \in DOMAIN q
    BY <1>6, <2>1
  <2>3. new[p] = q[p]
    BY <1>3, <2>2 DEF Longer
  <2>4. CASE r \in DOMAIN q /\ new[r] = q[r]
    BY <1>6, <2>2, <2>3, <2>4 DEF QueueOk, InOrder
  <2>5. CASE new[r] = x
    BY <1>5, <2>2, <2>3, <2>5
  <2> QED BY <1>4, <2>4, <2>5
<1>7. \A p \in DOMAIN new : /\ new[p].conn = c /\ new[p].kind \in {"read", "write"} /\ new[p].id <= issued
                            /\ \A n \in Rest(c, i) : new[p].id < n
  BY <1>1, <1>2, <1>4 DEF QueueOk
<1>8. QueueOk(c, i, new)
  BY <1>4, <1>6, <1>7 DEF QueueOk, InOrder
<1>9. Ids(Range(new)) = Ids(Range(q)) \cup {x.id}
  BY <1>4 DEF Ids
<1> QED BY <1>8, <1>9 DEF new, x

(* A turn whose i-th command has had its effect, and waits for its answer *)

Ready(c, i, u) ==
  /\ u \in Turn /\ ~u.thrown
  /\ u.state.inMulti \/ u.state.queue = <<>>
  /\ QueueOk(c, i, u.state.queue)
  /\ StoreOk(c, Ids(Range(u.state.queue)) \cup Rest(c, i), u.store)
  /\ AnswersOk(c, i - 1, u.later, u.answers)

LEMMA AnswerKeeps ==
  ASSUME TypeOK, NEW c \in Conn, NEW i \in 1 .. Len(wire[c]), WireOk(c), NEW u, Ready(c, i, u)
  PROVE  TurnOk(c, i, Answer(u, wire[c][i]))
<1> DEFINE v == Answer(u, wire[c][i])
<1>1. wire[c][i] \in Command
  BY RestLess
<1>2. /\ v \in Turn /\ v.state = u.state /\ v.later = u.later
      /\ v.store = u.store /\ v.thrown = u.thrown
      /\ v.answers = Append(u.answers, wire[c][i].id)
  BY <1>1, AnswerDoes DEF Ready
<1>3. AnswersOk(c, i, v.later, v.answers)
  BY <1>2, Answered DEF Ready
<1> HIDE DEF v
<1>4. TurnOk(c, i, v)
  BY <1>2, <1>3 DEF Ready, TurnOk
<1> QED BY <1>4 DEF v

(* A turn is ready when its command changes nothing *)

LEMMA ReadyAsIs ==
  ASSUME TypeOK, NEW c \in Conn, NEW i \in 1 .. Len(wire[c]), WireOk(c), NEW t, TurnOk(c, i - 1, t)
  PROVE  Ready(c, i, t)
<1>1. QueueOk(c, i, t.state.queue)
  BY QueueLess DEF TurnOk
<1>2. Rest(c, i - 1) = Rest(c, i) \cup {wire[c][i].id}
  BY RestLess
<1>3. StoreOk(c, Ids(Range(t.state.queue)) \cup Rest(c, i), t.store)
  BY <1>2, StoreLess DEF TurnOk
<1> QED BY <1>1, <1>3 DEF TurnOk, Ready
(* EXEC runs the queue: every command of it writes in its turn, before what is on its way *)

LEMMA QueueRuns ==
  ASSUME TypeOK, NEW c \in Conn, NEW i \in 1 .. Len(wire[c]), WireOk(c), NEW t, TurnOk(c, i - 1, t),
         NEW done, done = FoldLeft(RunQueued, t, t.state.queue)
  PROVE  /\ done \in Turn /\ ~done.thrown
         /\ done.state = t.state /\ done.later = t.later /\ done.answers = t.answers
         /\ StoreOk(c, Rest(c, i), done.store)
<1> DEFINE q == t.state.queue
           k == Len(q)
           Waiting(j) == {q[m].id : m \in j + 1 .. k} \cup Rest(c, i)
           S == [j \in 0 .. k |->
                   {u \in Turn : /\ ~u.thrown
                                 /\ u.state = t.state /\ u.later = t.later /\ u.answers = t.answers
                                 /\ StoreOk(c, Waiting(j), u.store)}]
<1>1. QueueOk(c, i, q) /\ Rest(c, i) \subseteq Nat
  BY QueueLess, RestLess DEF TurnOk
<1>2. /\ k \in Nat /\ DOMAIN q = 1 .. k
      /\ \A j \in 1 .. k : q[j] \in Command
  BY <1>1, LenProperties, ElementOfSeq DEF QueueOk
<1>3. t \in S[0]
  <2>1. Ids(Range(q)) = {q[m].id : m \in 0 + 1 .. k}
    BY <1>2 DEF Ids, Range
  <2>2. Rest(c, i) \subseteq Rest(c, i - 1)
    BY RestLess
  <2>3. Waiting(0) \in SUBSET (Ids(Range(q)) \cup Rest(c, i - 1))
    BY <2>1, <2>2
  <2>4. StoreOk(c, Waiting(0), t.store)
    <3> HIDE DEF Waiting
    <3> QED BY <2>3, StoreLess DEF TurnOk
  <2> QED BY <1>2, <2>4 DEF TurnOk
<1>4. ASSUME NEW j \in 1 .. k, NEW u \in S[j - 1] PROVE RunQueued(u, q[j]) \in S[j]
  <2> DEFINE x == q[j]
  <2>1. /\ j - 1 \in 0 .. k /\ j \in 0 .. k
        /\ u \in Turn /\ ~u.thrown
        /\ u.state = t.state /\ u.later = t.later /\ u.answers = t.answers
        /\ StoreOk(c, Waiting(j - 1), u.store)
    BY <1>2, <1>4
  <2>2. x \in Command /\ x.conn = c /\ x.kind \in {"read", "write"} /\ x.id <= issued
    BY <1>1, <1>2 DEF QueueOk
  <2>3. \A m \in j + 1 .. k : m \in 1 .. k /\ j < m
    BY <1>2
  <2>4. \A n \in Waiting(j) : x.id < n
    <3>1. \A m \in j + 1 .. k : x.id < q[m].id
      BY <1>1, <1>2, <2>3 DEF QueueOk, InOrder
    <3>2. \A n \in Rest(c, i) : x.id < n
      BY <1>1, <1>2 DEF QueueOk
    <3> HIDE DEF x
    <3> QED BY <3>1, <3>2
  <2>5. Waiting(j) \in SUBSET Nat
    <3>1. \A m \in 1 .. k : q[m].id \in Nat
      BY <1>2 DEF Command
    <3> QED BY <1>1, <2>3, <3>1
  <2>6. Waiting(j - 1) = Waiting(j) \cup {x.id}
    <3>1. (j - 1) + 1 .. k = (j + 1 .. k) \cup {j}
      BY <1>2
    <3> QED BY <3>1
  <2>7. CASE x.kind = "read"
    <3> HIDE DEF Waiting
    <3>1. StoreOk(c, Waiting(j), u.store)
      BY <2>1, <2>6, StoreLess
    <3>2. RunQueued(u, x) = u
      BY <2>1, <2>7 DEF RunQueued, Run
    <3> QED BY <2>1, <3>1, <3>2
  <2>8. CASE x.kind = "write"
    <3> DEFINE v == Apply(u, x)
    <3>1. RunQueued(u, x) = v
      BY <2>1, <2>8 DEF RunQueued, Run
    <3>2. /\ v \in Turn /\ v.state = u.state /\ v.later = u.later
          /\ v.answers = u.answers /\ v.thrown = u.thrown
          /\ v.store = Append(u.store, [conn |-> x.conn, id |-> x.id, db |-> u.state.db])
      BY <2>1, <2>2, ApplyDoes
    <3> HIDE DEF v, Waiting
    <3>3. StoreOk(c, Waiting(j), v.store)
      <4>1. x.id \in Nat /\ u.state.db \in Db
        BY <2>1, <2>2 DEF Command, Turn, Sess
      <4> DEFINE n == x.id
                 db == u.state.db
                 L == Waiting(j)
                 st == u.store
      <4>2. /\ v.store = Append(st, [conn |-> c, id |-> n, db |-> db])
            /\ n <= issued /\ (\A m \in L : n < m) /\ L \in SUBSET Nat
            /\ StoreOk(c, L \cup {n}, st) /\ n \in Nat /\ db \in Db
        BY <2>1, <2>2, <2>4, <2>5, <2>6, <3>2, <4>1
      <4> HIDE DEF n, db, L, st
      <4>3. StoreOk(c, L, v.store)
        BY <4>2, StoreGrows
      <4> QED BY <4>3 DEF L
    <3> QED BY <2>1, <3>1, <3>2, <3>3
  <2> QED BY <2>2, <2>7, <2>8
<1>5. FoldLeft(RunQueued, t, q) = Running!Fold(t, q)
  BY DEF FoldLeft, MapThenFoldSet, Max, Running!Fold, Running!Folds, Running!Highest
<1>6. done \in S[k]
  <2> HIDE DEF S, k
  <2> QED BY <1>2, <1>3, <1>4, <1>5, LeastNat, Running!FoldKeeps DEF Running!NatsHaveLeast
<1>7. Waiting(k) = Rest(c, i)
  <2>1. k + 1 .. k = {} BY <1>2
  <2> QED BY <2>1
<1> HIDE DEF Waiting
<1> QED BY <1>2, <1>6, <1>7
(* EXEC empties the queue into the store; outside MULTI it does nothing *)

LEMMA ExecReady ==
  ASSUME TypeOK, NEW c \in Conn, NEW i \in 1 .. Len(wire[c]), WireOk(c), NEW t, TurnOk(c, i - 1, t)
  PROVE  TurnOk(c, i, Exec(t, wire[c][i]))
<1> DEFINE x == wire[c][i]
           done == FoldLeft(RunQueued, t, t.state.queue)
           u == [done EXCEPT !.state.inMulti = FALSE, !.state.queue = <<>>]
<1>1. CASE ~t.state.inMulti
  BY <1>1, ReadyAsIs, AnswerKeeps DEF Exec
<1>2. CASE t.state.inMulti
  <2>1. /\ done \in Turn /\ ~done.thrown
        /\ done.state = t.state /\ done.later = t.later /\ done.answers = t.answers
        /\ StoreOk(c, Rest(c, i), done.store)
    BY QueueRuns
  <2>2. Exec(t, x) = Answer(u, x)
    BY <1>2, <2>1 DEF Exec
  <2> HIDE DEF done
  <2>3. QueueOk(c, i, <<>>) /\ Ids(Range(<<>>)) = {} /\ <<>> \in Seq(Command)
    BY EmptyQueue
  <2>4. /\ u \in Turn /\ ~u.state.inMulti /\ u.state.queue = <<>>
        /\ u.later = done.later /\ u.store = done.store /\ u.thrown = done.thrown
        /\ u.answers = done.answers
    BY <2>1, <2>3 DEF Turn, Sess
  <2> HIDE DEF u
  <2>5. Ids(Range(u.state.queue)) \cup Rest(c, i) = Rest(c, i)
    BY <2>3, <2>4
  <2>6. Ready(c, i, u)
    BY <2>1, <2>3, <2>4, <2>5 DEF Ready, TurnOk
  <2> QED BY <2>2, <2>6, AnswerKeeps
<1> QED BY <1>1, <1>2

(* A data command outside MULTI *)

LEMMA ExecuteReady ==
  ASSUME TypeOK, NEW c \in Conn, NEW i \in 1 .. Len(wire[c]), WireOk(c), NEW t, TurnOk(c, i - 1, t),
         ~t.state.inMulti, wire[c][i].kind \in {"read", "write"}
  PROVE  TurnOk(c, i, Execute(t, wire[c][i]))
<1> DEFINE x == wire[c][i]
           v == Apply(t, x)
<1>1. CASE Execute(t, x) = Answer(t, x)
  BY <1>1, ReadyAsIs, AnswerKeeps
<1>2. CASE Execute(t, x) = Answer(v, x)
  <2>1. /\ x \in Command /\ x.conn = c /\ x.id <= issued /\ x.id \in Nat
        /\ Rest(c, i - 1) = Rest(c, i) \cup {x.id} /\ Rest(c, i) \in SUBSET Nat
        /\ \A n \in Rest(c, i) : x.id < n
    BY RestLess DEF Command
  <2>2. t \in Turn /\ t.state.queue = <<>> /\ Ids(Range(t.state.queue)) = {} /\ t.state.db \in Db
    BY EmptyQueue DEF TurnOk, Turn, Sess
  <2>3. /\ v \in Turn /\ v.state = t.state /\ v.later = t.later
        /\ v.answers = t.answers /\ v.thrown = t.thrown
        /\ v.store = Append(t.store, [conn |-> x.conn, id |-> x.id, db |-> t.state.db])
    BY <2>1, <2>2, ApplyDoes
  <2> HIDE DEF v
  <2>4. StoreOk(c, Rest(c, i), v.store)
    <3> DEFINE n == x.id
               db == t.state.db
               L == Rest(c, i)
               st == t.store
    <3>1. StoreOk(c, L \cup {n}, st)
      BY <2>1, <2>2 DEF TurnOk
    <3>2. /\ v.store = Append(st, [conn |-> c, id |-> n, db |-> db])
          /\ n <= issued /\ (\A m \in L : n < m) /\ L \in SUBSET Nat /\ n \in Nat /\ db \in Db
      BY <2>1, <2>2, <2>3
    <3> HIDE DEF n, db, L, st
    <3>3. StoreOk(c, L, v.store)
      BY <3>1, <3>2, StoreGrows
    <3> QED BY <3>3 DEF L
  <2>5. Ready(c, i, v)
    BY <2>2, <2>3, <2>4, QueueLess DEF TurnOk, Ready
  <2> QED BY <1>2, <2>5, AnswerKeeps DEF v
<1> QED BY <1>1, <1>2 DEF Execute, Run

(* Any command: a turn that served i - 1 commands has served i *)

LEMMA ServeKeeps ==
  ASSUME "throw" \notin Kind, TypeOK, NEW c \in Conn, NEW i \in 1 .. Len(wire[c]), WireOk(c),
         NEW t, TurnOk(c, i - 1, t)
  PROVE  TurnOk(c, i, Serve(t, wire[c][i]))
<1> DEFINE x == wire[c][i]
<1>1. x \in Command
  BY RestLess
<1>2. x.kind \in Kinds \ {"throw"}
  BY <1>1, ConstantsAssumption DEF Command
<1>3. Ready(c, i, t) /\ ~t.thrown /\ t \in Turn
  BY ReadyAsIs DEF TurnOk
<1>4. CASE x.kind = "SELECT"
  <2> DEFINE u == [t EXCEPT !.state.db = x.db]
  <2>1. x.db \in Db
    BY <1>1 DEF Command
  <2>2. /\ u \in Turn /\ u.state.inMulti = t.state.inMulti /\ u.state.queue = t.state.queue
        /\ u.later = t.later /\ u.store = t.store /\ u.thrown = t.thrown
        /\ u.answers = t.answers
    BY <1>3, <2>1, DbSet
  <2>3. Serve(t, x) = Answer(u, x)
    BY <1>3, <1>4 DEF Serve, Select
  <2> HIDE DEF u
  <2>4. Ready(c, i, u)
    BY <1>3, <2>2 DEF Ready
  <2> QED BY <2>3, <2>4, AnswerKeeps
<1>5. ASSUME NEW b \in BOOLEAN, NEW u, u = [t EXCEPT !.state.inMulti = b, !.state.queue = <<>>]
      PROVE  TurnOk(c, i, Answer(u, x))
  <2>1. QueueOk(c, i, <<>>) /\ Ids(Range(<<>>)) = {} /\ <<>> \in Seq(Command)
    BY EmptyQueue
  <2>2. /\ u \in Turn /\ u.state.queue = <<>>
        /\ u.later = t.later /\ u.store = t.store /\ u.thrown = t.thrown
        /\ u.answers = t.answers
    BY <1>3, <1>5, <2>1 DEF Turn, Sess
  <2>3. StoreOk(c, Ids(Range(u.state.queue)) \cup Rest(c, i), u.store)
    BY <1>3, <2>1, <2>2, StoreLess DEF Ready
  <2>4. Ready(c, i, u)
    BY <1>3, <2>1, <2>2, <2>3 DEF Ready
  <2> QED BY <2>4, AnswerKeeps
<1>6. CASE x.kind = "MULTI"
  <2>1. CASE t.state.inMulti
    BY <1>3, <1>6, <2>1, AnswerKeeps DEF Serve, Multi
  <2>2. CASE ~t.state.inMulti
    BY <1>3, <1>5, <1>6, <2>2 DEF Serve, Multi
  <2> QED BY <2>1, <2>2
<1>7. CASE x.kind = "DISCARD"
  BY <1>3, <1>5, <1>7 DEF Serve, Discard
<1>8. CASE x.kind = "EXEC"
  BY <1>3, <1>8, ExecReady DEF Serve
<1>9. CASE x.kind = "later"
  <2> DEFINE u == [t EXCEPT !.later = @ \cup {x.id}]
  <2>1. Serve(t, x) = u
    BY <1>3, <1>9 DEF Serve
  <2>2. x.id \in Nat
    BY <1>1 DEF Command
  <2>3. /\ u \in Turn /\ u.state = t.state /\ u.later = t.later \cup {x.id}
        /\ u.store = t.store /\ u.thrown = t.thrown /\ u.answers = t.answers
    BY <1>3, <2>2, LaterSet
  <2> HIDE DEF u
  <2>4. AnswersOk(c, i, u.later, u.answers)
    BY <1>3, <1>9, <2>3, SetAside DEF Ready
  <2> QED BY <1>3, <2>1, <2>3, <2>4 DEF Ready, TurnOk
<1>10. CASE x.kind \in {"read", "write"}
  <2>1. CASE t.state.inMulti
    <3> DEFINE queue == Append(t.state.queue, x)
               u == [t EXCEPT !.state.queue = queue]
    <3>1. Serve(t, x) = Answer(u, x)
      BY <1>3, <1>10, <2>1 DEF Serve, Enqueue
    <3>2. QueueOk(c, i, queue) /\ Ids(Range(queue)) = Ids(Range(t.state.queue)) \cup {x.id}
      BY <1>10, QueueGrows DEF TurnOk
    <3> HIDE DEF queue
    <3>3. queue \in Seq(Command)
      BY <3>2 DEF QueueOk
    <3>4. /\ u \in Turn /\ u.state.inMulti = t.state.inMulti /\ u.state.queue = queue
          /\ u.later = t.later /\ u.store = t.store /\ u.thrown = t.thrown
          /\ u.answers = t.answers
      BY <1>3, <3>3, QueueSet
    <3> HIDE DEF u
    <3>5. Ids(Range(u.state.queue)) \cup Rest(c, i) = Ids(Range(t.state.queue)) \cup Rest(c, i - 1)
      <4>1. Rest(c, i - 1) = Rest(c, i) \cup {x.id}
        BY RestLess
      <4> HIDE DEF x
      <4>2. Ids(Range(u.state.queue)) = Ids(Range(t.state.queue)) \cup {x.id}
        BY <3>2, <3>4
      <4> QED BY <4>1, <4>2
    <3>6. StoreOk(c, Ids(Range(u.state.queue)) \cup Rest(c, i), u.store)
      BY <3>4, <3>5 DEF TurnOk
    <3>7. Ready(c, i, u)
      BY <1>3, <2>1, <3>2, <3>4, <3>6 DEF Ready
    <3> QED BY <3>1, <3>7, AnswerKeeps
  <2>2. CASE ~t.state.inMulti
    <3>1. Serve(t, x) = Execute(t, x)
      BY <1>3, <1>10, <2>2 DEF Serve
    <3> QED BY <1>10, <2>2, <3>1, ExecuteReady
  <2> QED BY <2>1, <2>2
<1> QED BY <1>2, <1>4, <1>6, <1>7, <1>8, <1>9, <1>10 DEF Kinds------------------------------------------------------------------------------
(* The invariant is kept *)

(* A step that leaves a connection alone, and applies no write of it, keeps what holds of it *)

NoneOf(d) ==
  /\ issued <= issued'
  /\ \A p, q \in DOMAIN store' : p < q /\ store'[p].conn = store'[q].conn => store'[p].id < store'[q].id
  /\ \A p \in DOMAIN store' : /\ store'[p].id <= issued'
                              /\ store'[p].conn = d => store'[p] \in Range(store)
  /\ state'[d] = state[d] /\ later'[d] = later[d] /\ answers'[d] = answers[d]
  /\ wire'[d] = wire[d] /\ sent'[d] = sent[d]

LEMMA OthersKeep ==
  ASSUME TypeOK, TypeOK', NEW d \in Conn, WireOk(d), TurnOk(d, 0, TurnOf(d)), NoneOf(d)
  PROVE  WireOk(d)' /\ TurnOk(d, 0, TurnOf(d))'
<1>1. /\ Rest(d, 0)' = Rest(d, 0) /\ AtOnce(d)' = AtOnce(d) /\ Delayed(d)' = Delayed(d)
  BY DEF NoneOf, Rest, AtOnce, Delayed
<1>2. issued \in Nat /\ issued' \in Nat /\ issued <= issued'
  BY DEF TypeOK, NoneOf
<1>3. WireOk(d)'
  <2>1. sent[d] \in Seq([id : Nat, kind : Kind])
    BY DEF TypeOK
  <2>2. \A p \in DOMAIN sent[d] : sent[d][p].id \in Nat
    <3>1. \A p \in DOMAIN sent[d] : sent[d][p] \in [id : Nat, kind : Kind]
      BY <2>1, ElementOfSeq, LenProperties
    <3> QED BY <3>1
  <2> QED BY <1>2, <2>2 DEF WireOk, NoneOf
<1>4. QueueOk(d, 0, state[d].queue)'
  <2> DEFINE q == state[d].queue
  <2>1. QueueOk(d, 0, q) /\ state'[d].queue = q
    BY DEF TurnOk, TurnOf, NoneOf
  <2>2. \A p \in DOMAIN q : q[p] \in Command
    BY <2>1, ElementOfSeq, LenProperties DEF QueueOk
  <2> HIDE DEF q
  <2> QED BY <1>1, <1>2, <2>1, <2>2 DEF QueueOk, Command
<1>5. StoreOk(d, Ids(Range(state[d].queue)) \cup Rest(d, 0), store)'
  <2> DEFINE L == Ids(Range(state[d].queue)) \cup Rest(d, 0)
  <2>1. L' = L
    BY <1>1 DEF NoneOf
  <2>2. StoreOk(d, L, store)
    BY DEF TurnOk, TurnOf
  <2> HIDE DEF L
  <2>3. store' \in Seq(Stored)
    BY DEF TypeOK, Stored
  <2>4. \A p \in DOMAIN store' : store'[p].conn = d => \A n \in L : store'[p].id < n
    BY <2>2 DEF NoneOf, StoreOk, Range
  <2>5. \A p \in DOMAIN store' : store'[p] \in Range(store)'
    BY DEF Range
  <2>6. StoreOk(d, L, store)'
    BY <2>1, <2>3, <2>4, <2>5 DEF StoreOk, NoneOf
  <2> QED BY <2>6 DEF L
<1>6. AnswersOk(d, 0, later[d], answers[d])'
  <2>1. AnswersOk(d, 0, later[d], answers[d])
    BY DEF TurnOk, TurnOf
  <2> QED BY <1>1, <2>1 DEF AnswersOk, NoneOf
<1>7. TurnOf(d)' \in Turn
  BY DEF TypeOK, TurnOf, Turn, Sess, Stored
<1>8. (state[d].inMulti \/ state[d].queue = <<>>)'
  BY DEF TurnOk, TurnOf, NoneOf
<1> QED BY <1>3, <1>4, <1>5, <1>6, <1>7, <1>8 DEF TurnOk, TurnOf

(* What the store has in every case *)

LEMMA StoreIsOk ==
  ASSUME IInv, NEW d \in Conn
  PROVE  /\ \A p, q \in DOMAIN store : p < q /\ store[p].conn = store[q].conn => store[p].id < store[q].id
         /\ \A p \in DOMAIN store : store[p].id \in Nat /\ store[p].id <= issued
<1>1. StoreOk(d, Ids(Range(state[d].queue)) \cup Rest(d, 0), store)
  BY DEF IInv, TurnOk, TurnOf
<1>2. store \in Seq(Stored)
  BY <1>1 DEF StoreOk
<1>3. \A p \in DOMAIN store : store[p] \in Stored
  BY <1>2, ElementOfSeq, LenProperties
<1> QED BY <1>1, <1>3 DEF StoreOk, Stored

LEMMA OthersKeepStore ==
  ASSUME IInv, TypeOK', NEW d \in Conn, issued <= issued', store' = store,
         state'[d] = state[d], later'[d] = later[d], answers'[d] = answers[d],
         wire'[d] = wire[d], sent'[d] = sent[d]
  PROVE  WireOk(d)' /\ TurnOk(d, 0, TurnOf(d))'
<1>1. \A p \in DOMAIN store : store[p].id <= issued'
  <2>1. issued \in Nat /\ issued' \in Nat
    BY DEF IInv, TypeOK
  <2> QED BY <2>1, StoreIsOk
<1>2. \A p \in DOMAIN store : store[p] \in Range(store)
  BY DEF Range
<1>3. NoneOf(d)
  BY <1>1, <1>2, StoreIsOk DEF NoneOf
<1> QED BY <1>3, OthersKeep DEF IInv
(* Serving a chunk: its n commands are a fold, and the rest of the wire is what is left of it *)

LEMMA TurnServes ==
  ASSUME "throw" \notin Kind, IInv, NEW c \in Conn, NEW n \in 1 .. Len(wire[c]), NEW end,
         end = FoldLeft(Serve, TurnOf(c), SubSeq(wire[c], 1, n))
  PROVE  TurnOk(c, n, end)
<1> DEFINE seq == SubSeq(wire[c], 1, n)
           S == [i \in 0 .. n |-> {t \in Turn : TurnOk(c, i, t)}]
<1>1. TypeOK /\ WireOk(c) /\ TurnOk(c, 0, TurnOf(c))
  BY DEF IInv
<1>2. wire[c] \in Seq(Command) /\ Len(wire[c]) \in Nat
  BY <1>1, LenProperties DEF TypeOK
<1>3. n \in Nat /\ DOMAIN seq = 1 .. n /\ \A i \in 1 .. n : seq[i] = wire[c][i]
  <2>1. 1 \in 1 .. Len(wire[c]) + 1 /\ n \in 1 - 1 .. Len(wire[c]) /\ n - 1 + 1 = n
    BY <1>2
  <2>2. seq \in Seq(Command) /\ Len(seq) = n /\ \A i \in 1 .. n : seq[i] = wire[c][1 + i - 1]
    BY <1>2, <2>1, SubSeqProperties
  <2> HIDE DEF seq
  <2> QED BY <2>2, LenProperties
<1>4. TurnOf(c) \in S[0]
  BY <1>1, <1>3 DEF TurnOk
<1>5. ASSUME NEW i \in 1 .. n, NEW t \in S[i - 1] PROVE Serve(t, seq[i]) \in S[i]
  <2>1. i - 1 \in 0 .. n /\ i \in 0 .. n /\ i \in 1 .. Len(wire[c]) /\ seq[i] = wire[c][i]
    BY <1>2, <1>3
  <2>2. TurnOk(c, i - 1, t)
    BY <1>5, <2>1
  <2>3. TurnOk(c, i, Serve(t, wire[c][i]))
    BY <1>1, <2>1, <2>2, ServeKeeps
  <2> QED BY <2>1, <2>3 DEF TurnOk
<1>6. FoldLeft(Serve, TurnOf(c), seq) = Serving!Fold(TurnOf(c), seq)
  BY DEF FoldLeft, MapThenFoldSet, Max, Serving!Fold, Serving!Folds, Serving!Highest
<1>7. end \in S[n]
  <2> HIDE DEF S, seq
  <2>1. Serving!Fold(TurnOf(c), seq) \in S[n]
    BY <1>3, <1>4, <1>5, LeastNat, Serving!FoldKeeps DEF Serving!NatsHaveLeast
  <2> QED BY <1>6, <2>1 DEF seq
<1> QED BY <1>3, <1>7

LEMMA WireLeft ==
  ASSUME TypeOK, NEW c \in Conn, NEW n \in 1 .. Len(wire[c]),
         wire'[c] = SubSeq(wire[c], n + 1, Len(wire[c]))
  PROVE  /\ wire'[c] \in Seq(Command)
         /\ Rest(c, 0)' = Rest(c, n)
         /\ \A j \in DOMAIN wire'[c] : n + j \in DOMAIN wire[c] /\ wire'[c][j] = wire[c][n + j] /\ j \in Nat
<1> DEFINE k == Len(wire[c])
           left == wire'[c]
<1>1. wire[c] \in Seq(Command) /\ k \in Nat /\ DOMAIN wire[c] = 1 .. k
  BY LenProperties DEF TypeOK
<1>2. n + 1 \in 1 .. k + 1 /\ k \in (n + 1) - 1 .. k /\ k - (n + 1) + 1 = k - n /\ k - n \in Nat
  BY <1>1
<1>3. left \in Seq(Command) /\ Len(left) = k - n /\ \A j \in 1 .. k - n : left[j] = wire[c][n + 1 + j - 1]
  BY <1>1, <1>2, SubSeqProperties
<1> HIDE DEF left
<1>4. DOMAIN left = 1 .. k - n
  BY <1>3, LenProperties
<1>5. \A j \in 1 .. k - n : n + 1 + j - 1 = n + j /\ n + j \in n + 1 .. k /\ j \in Nat /\ n + j \in 1 .. k
  BY <1>1
<1>6. \A j \in DOMAIN left : left[j] = wire[c][n + j]
  BY <1>3, <1>4, <1>5
<1>7. {left[j].id : j \in 1 .. k - n} = {wire[c][j].id : j \in n + 1 .. k}
  <2>1. ASSUME NEW j \in n + 1 .. k PROVE j - n \in 1 .. k - n /\ n + (j - n) = j
    BY <1>1
  <2>2. ASSUME NEW j \in n + 1 .. k PROVE \E m \in 1 .. k - n : left[m].id = wire[c][j].id
    BY <1>4, <1>6, <2>1
  <2>3. ASSUME NEW j \in 1 .. k - n PROVE \E m \in n + 1 .. k : wire[c][m].id = left[j].id
    BY <1>4, <1>5, <1>6
  <2> DEFINE A == {left[j].id : j \in 1 .. k - n}
             B == {wire[c][j].id : j \in n + 1 .. k}
  <2>4. A \subseteq B
    BY <2>3
  <2>5. B \subseteq A
    BY <2>2
  <2> QED BY <2>4, <2>5
<1>8. Rest(c, 0)' = {left[j].id : j \in 1 .. k - n}
  <2>1. 0 + 1 .. k - n = 1 .. k - n OBVIOUS
  <2> QED BY <1>3, <2>1 DEF Rest, left
<1> QED BY <1>1, <1>3, <1>4, <1>5, <1>6, <1>7, <1>8 DEF Rest, left
LEMMA ChunkKeeps ==
  ASSUME "throw" \notin Kind, IInv, NEW c \in Conn, ServeChunk(c) PROVE IInv'
<1>0. PICK n \in 1 .. Len(wire[c]) : \E end :
        /\ end = FoldLeft(Serve, TurnOf(c), SubSeq(wire[c], 1, n))
        /\ state'   = [state EXCEPT ![c] = end.state]
        /\ later'   = [later EXCEPT ![c] = end.later]
        /\ answers' = [answers EXCEPT ![c] = end.answers]
        /\ store' = end.store
        /\ wire' = [wire EXCEPT ![c] = SubSeq(@, n + 1, Len(@))]
        /\ UNCHANGED <<role, sent, issued, closes>>
  BY DEF ServeChunk, TurnOf
<1>1. PICK end :
        /\ end = FoldLeft(Serve, TurnOf(c), SubSeq(wire[c], 1, n))
        /\ state'   = [state EXCEPT ![c] = end.state]
        /\ later'   = [later EXCEPT ![c] = end.later]
        /\ answers' = [answers EXCEPT ![c] = end.answers]
        /\ store' = end.store
        /\ wire' = [wire EXCEPT ![c] = SubSeq(@, n + 1, Len(@))]
        /\ UNCHANGED <<role, sent, issued, closes>>
  BY <1>0
<1>2. TurnOk(c, n, end)
  BY <1>1, TurnServes
<1>3. TypeOK
  BY DEF IInv
<1>4. /\ state'[c] = end.state /\ later'[c] = end.later /\ answers'[c] = end.answers
      /\ store' = end.store /\ wire'[c] = SubSeq(wire[c], n + 1, Len(wire[c]))
      /\ sent'[c] = sent[c] /\ issued' = issued
  BY <1>1, <1>3 DEF TypeOK
<1>5. /\ wire'[c] \in Seq(Command) /\ Rest(c, 0)' = Rest(c, n)
      /\ \A j \in DOMAIN wire'[c] : n + j \in DOMAIN wire[c] /\ wire'[c][j] = wire[c][n + j] /\ j \in Nat
  BY <1>3, <1>4, WireLeft
<1>6. /\ end.state \in Sess /\ end.later \in SUBSET Nat /\ end.answers \in Seq(Nat)
      /\ end.store \in Seq(Stored)
  BY <1>2 DEF TurnOk, Turn
<1>7. TypeOK'
  <2>1. state' \in [Conn -> Sess]
    BY <1>1, <1>3, <1>6 DEF TypeOK, Sess
  <2>2. later' \in [Conn -> SUBSET Nat] /\ answers' \in [Conn -> Seq(Nat)]
    BY <1>1, <1>3, <1>6 DEF TypeOK
  <2>3. wire' \in [Conn -> Seq(Command)]
    BY <1>1, <1>3, <1>4, <1>5 DEF TypeOK
  <2> QED BY <1>1, <1>3, <1>4, <1>6, <2>1, <2>2, <2>3 DEF TypeOK, Sess, Stored
<1>8. ASSUME NEW d \in Conn, d # c PROVE WireOk(d)' /\ TurnOk(d, 0, TurnOf(d))'
  <2>1. StoreOk(c, Ids(Range(end.state.queue)) \cup Rest(c, n), store')
    BY <1>2, <1>4 DEF TurnOk
  <2>2. /\ \A p, q \in DOMAIN store' : p < q /\ store'[p].conn = store'[q].conn => store'[p].id < store'[q].id
        /\ \A p \in DOMAIN store' : store'[p].id <= issued' /\ (store'[p].conn = d => store'[p] \in Range(store))
    BY <1>4, <1>8, <2>1 DEF StoreOk
  <2>3. /\ state'[d] = state[d] /\ later'[d] = later[d] /\ answers'[d] = answers[d]
        /\ wire'[d] = wire[d] /\ sent'[d] = sent[d]
    BY <1>1, <1>3, <1>8 DEF TypeOK
  <2>4. issued <= issued'
    BY <1>3, <1>4 DEF TypeOK
  <2> QED BY <1>3, <1>7, <2>2, <2>3, <2>4, OthersKeep DEF IInv, NoneOf
<1>9. WireOk(c)'
  <2>1. WireOk(c)
    BY DEF IInv
  <2>2. InOrder(wire'[c])
    <3>1. n \in Int
      OBVIOUS
    <3>2. ASSUME NEW i \in DOMAIN wire'[c], NEW j \in DOMAIN wire'[c], i < j PROVE wire'[c][i].id < wire'[c][j].id
      <4>1. n + i < n + j
        BY <1>5, <3>1, <3>2
      <4> QED BY <1>5, <2>1, <4>1 DEF WireOk, InOrder
    <3> QED BY <3>2 DEF InOrder
  <2> QED BY <1>4, <1>5, <2>1, <2>2 DEF WireOk
<1>10. TurnOk(c, 0, TurnOf(c))'
  <2>1. TurnOf(c)' \in Turn /\ ~TurnOf(c)'.thrown
    BY <1>7 DEF TypeOK, TurnOf, Turn, Sess, Stored
  <2>2. /\ TurnOf(c)'.state = end.state /\ TurnOf(c)'.later = end.later
        /\ TurnOf(c)'.answers = end.answers /\ TurnOf(c)'.store = end.store
    BY <1>4 DEF TurnOf
  <2>3. QueueOk(c, 0, end.state.queue)'
    BY <1>2, <1>4, <1>5 DEF TurnOk, QueueOk
  <2>4. StoreOk(c, Ids(Range(end.state.queue)) \cup Rest(c, 0), end.store)'
    <3>1. \A p \in DOMAIN end.store : end.store[p] \in Range(store)'
      BY <1>4 DEF Range
    <3> QED BY <1>2, <1>4, <1>5, <3>1 DEF TurnOk, StoreOk
  <2>5. AnswersOk(c, 0, end.later, end.answers)'
    <3>1. AtOnce(c)' = AtOnce(c) /\ Delayed(c)' = Delayed(c)
      BY <1>4 DEF AtOnce, Delayed
    <3> QED BY <1>2, <1>4, <1>5, <3>1 DEF TurnOk, AnswersOk
  <2> QED BY <1>2, <2>1, <2>2, <2>3, <2>4, <2>5 DEF TurnOk
<1> QED BY <1>7, <1>8, <1>9, <1>10 DEF IInv
(* Sending: the new call comes after every call made so far *)

LEMMA SendKeeps ==
  ASSUME IInv, NEW c \in Conn, NEW kind \in Kind, NEW db \in Db, Send(c, kind, db) PROVE IInv'
<1> DEFINE x == [kind |-> kind, conn |-> c, id |-> issued', db |-> db]
           call == [id |-> issued', kind |-> kind]
<1>1. TypeOK /\ WireOk(c) /\ TurnOk(c, 0, TurnOf(c))
  BY DEF IInv
<1>2. issued \in Nat /\ issued' = issued + 1 /\ issued' \in Nat
  BY <1>1 DEF TypeOK, Send
<1>3. x \in Command /\ x.id = issued' /\ x.conn = c /\ x.kind = kind
      /\ call \in [id : Nat, kind : Kind] /\ call.id = issued' /\ call.kind = kind
  BY <1>2 DEF Command
<1>4. Longer(Command, wire[c], x, wire'[c]) /\ Longer([id : Nat, kind : Kind], sent[c], call, sent'[c])
  <2>1. wire[c] \in Seq(Command) /\ sent[c] \in Seq([id : Nat, kind : Kind])
    BY <1>1 DEF TypeOK
  <2>2. wire'[c] = Append(wire[c], x) /\ sent'[c] = Append(sent[c], call)
    BY <1>1 DEF Send, TypeOK
  <2> HIDE DEF x, call
  <2> QED BY <1>3, <2>1, <2>2, Appended
<1> HIDE DEF x, call
<1>5. TypeOK'
  <2>1. wire'[c] \in Seq(Command) /\ sent'[c] \in Seq([id : Nat, kind : Kind])
    BY <1>4 DEF Longer
  <2>2. wire' \in [Conn -> Seq(Command)] /\ sent' \in [Conn -> Seq([id : Nat, kind : Kind])]
    BY <1>1, <2>1 DEF Send, TypeOK
  <2> QED BY <1>1, <1>2, <2>2 DEF Send, TypeOK
<1>6. /\ store' = store /\ state' = state /\ later' = later /\ answers' = answers
      /\ \A d \in Conn \ {c} : wire'[d] = wire[d] /\ sent'[d] = sent[d]
  BY <1>1 DEF Send, TypeOK
<1>7. ASSUME NEW d \in Conn, d # c PROVE WireOk(d)' /\ TurnOk(d, 0, TurnOf(d))'
  <2>1. issued <= issued'
    BY <1>2
  <2> QED BY <1>5, <1>6, <1>7, <2>1, OthersKeepStore
<1>8. \A p \in DOMAIN sent[c] : sent[c][p].id \in Nat /\ sent[c][p].id < issued'
  <2>1. \A p \in DOMAIN sent[c] : sent[c][p] \in [id : Nat, kind : Kind]
    BY <1>4 DEF Longer
  <2> QED BY <1>1, <1>2, <2>1 DEF WireOk
<1>9. \A n \in Ids(Range(sent[c])) : n \in Nat /\ n < issued'
  BY <1>8 DEF Ids, Range
<1>10. \A j \in DOMAIN wire[c] : wire[c][j].id < issued'
  BY <1>1, <1>8 DEF WireOk
<1>11. /\ \A j \in DOMAIN wire'[c] : (j \in DOMAIN wire[c] /\ wire'[c][j] = wire[c][j])
                                       \/ (j = Len(wire[c]) + 1 /\ wire'[c][j] = x)
       /\ \A p \in DOMAIN sent'[c] : (p \in DOMAIN sent[c] /\ sent'[c][p] = sent[c][p])
                                       \/ (p = Len(sent[c]) + 1 /\ sent'[c][p] = call)
       /\ \A p \in DOMAIN sent[c] : p \in DOMAIN sent'[c] /\ sent'[c][p] = sent[c][p]
       /\ Len(sent[c]) + 1 \in DOMAIN sent'[c] /\ sent'[c][Len(sent[c]) + 1] = call
       /\ Range(sent'[c]) = Range(sent[c]) \cup {call} /\ Range(wire'[c]) = Range(wire[c]) \cup {x}
  BY <1>4 DEF Longer
<1>12. WireOk(c)'
  <2>1. InOrder(wire'[c])
    <3>1. ASSUME NEW i \in DOMAIN wire'[c], NEW j \in DOMAIN wire'[c], i < j
          PROVE  i \in DOMAIN wire[c] /\ wire'[c][i] = wire[c][i]
      <4>1. \A m \in DOMAIN wire[c] : m \in Nat /\ m < Len(wire[c]) + 1
        BY <1>4 DEF Longer
      <4>2. Len(wire[c]) \in Nat
        BY <1>4 DEF Longer
      <4> QED BY <1>11, <3>1, <4>1, <4>2
    <3> QED BY <1>1, <1>3, <1>10, <1>11, <3>1 DEF WireOk, InOrder
  <2>2. InOrder(sent'[c])
    <3>1. ASSUME NEW i \in DOMAIN sent'[c], NEW j \in DOMAIN sent'[c], i < j
          PROVE  i \in DOMAIN sent[c] /\ sent'[c][i] = sent[c][i]
      <4>1. \A m \in DOMAIN sent[c] : m \in Nat /\ m < Len(sent[c]) + 1
        BY <1>4 DEF Longer
      <4>2. Len(sent[c]) \in Nat
        BY <1>4 DEF Longer
      <4> QED BY <1>11, <3>1, <4>1, <4>2
    <3> QED BY <1>1, <1>3, <1>8, <1>11, <3>1 DEF WireOk, InOrder
  <2>3. \A p \in DOMAIN sent'[c] : sent'[c][p].id <= issued'
    BY <1>2, <1>3, <1>8, <1>11
  <2>4. \A j \in DOMAIN wire'[c] :
          /\ wire'[c][j].conn = c
          /\ \E p \in DOMAIN sent'[c] : sent'[c][p].id = wire'[c][j].id /\ sent'[c][p].kind = wire'[c][j].kind
    BY <1>1, <1>3, <1>11 DEF WireOk
  <2> QED BY <2>1, <2>2, <2>3, <2>4 DEF WireOk
<1>13. Rest(c, 0)' = Rest(c, 0) \cup {issued'}
  <2>1. \A s : Len(s) \in Nat /\ DOMAIN s = 1 .. Len(s) => {s[j].id : j \in 0 + 1 .. Len(s)} = Ids(Range(s))
    BY DEF Ids, Range
  <2>2. Rest(c, 0) = Ids(Range(wire[c]))
    BY <1>4, <2>1 DEF Rest, Longer
  <2>3. Rest(c, 0)' = Ids(Range(wire'[c]))
    <3>1. wire'[c] \in Seq(Command)
      BY <1>4 DEF Longer
    <3>2. Len(wire'[c]) \in Nat /\ DOMAIN wire'[c] = 1 .. Len(wire'[c])
      BY <3>1, LenProperties
    <3> QED BY <2>1, <3>2 DEF Rest
  <2> QED BY <1>3, <1>11, <2>2, <2>3 DEF Ids
<1>14. TurnOk(c, 0, TurnOf(c))'
  <2>1. TurnOf(c)' \in Turn /\ TurnOf(c)' = TurnOf(c)
    BY <1>1, <1>6 DEF TurnOf, TurnOk
  <2> DEFINE q == state[c].queue
  <2>2. /\ QueueOk(c, 0, q) /\ StoreOk(c, Ids(Range(q)) \cup Rest(c, 0), store)
        /\ AnswersOk(c, 0, later[c], answers[c])
    BY <1>1 DEF TurnOk, TurnOf
  <2>3. \A p \in DOMAIN q : q[p].id \in Nat /\ q[p].id < issued'
    <3>1. \A p \in DOMAIN q : q[p] \in Command
      BY <2>2, ElementOfSeq, LenProperties DEF QueueOk
    <3> HIDE DEF q
    <3> QED BY <1>2, <2>2, <3>1 DEF QueueOk, Command
  <2>4. QueueOk(c, 0, q)'
    <3>1. \A p \in DOMAIN q : q[p].id <= issued' /\ \A n \in Rest(c, 0)' : q[p].id < n
      <4>1. \A p \in DOMAIN q : q[p].id <= issued'
        BY <1>2, <2>3
      <4> HIDE DEF q
      <4> QED BY <1>13, <2>2, <2>3, <4>1 DEF QueueOk
    <3> QED BY <1>6, <2>2, <3>1 DEF QueueOk
  <2>5. StoreOk(c, Ids(Range(q)) \cup Rest(c, 0), store)'
    <3>1. \A p \in DOMAIN store : store[p].id < issued' /\ store[p].id <= issued'
      BY <1>2, StoreIsOk
    <3>2. (Ids(Range(q)) \cup Rest(c, 0))' = (Ids(Range(q)) \cup Rest(c, 0)) \cup {issued'}
      BY <1>6, <1>13
    <3> DEFINE L == Ids(Range(q)) \cup Rest(c, 0)
    <3>3. L' = L \cup {issued'} /\ StoreOk(c, L, store)
      BY <2>2, <3>2
    <3> HIDE DEF L
    <3>4. \A p \in DOMAIN store : store[p].conn = c => \A n \in L' : store[p].id < n
      BY <3>1, <3>3 DEF StoreOk
    <3>5. StoreOk(c, L, store)'
      BY <1>6, <3>1, <3>3, <3>4 DEF StoreOk
    <3> QED BY <3>5 DEF L
  <2>6. AnswersOk(c, 0, later[c], answers[c])'
    <3>1. Ids(Range(sent'[c])) = Ids(Range(sent[c])) \cup {issued'}
      BY <1>3, <1>11 DEF Ids
    <3>2. Delayed(c) \subseteq Delayed(c)' /\ AtOnce(c)' \subseteq AtOnce(c) \cup {issued'}
      BY <1>3, <1>11 DEF Delayed, AtOnce, Ids
    <3>3. \A n \in later[c] \cup Range(answers[c]) : n < issued'
      BY <1>9, <2>2 DEF AnswersOk
    <3>4. AllBefore(later[c] \cup Range(answers[c]), Rest(c, 0) \cup {issued'})
      BY <2>2, <3>3 DEF AnswersOk, AllBefore
    <3>5. \A p \in DOMAIN answers[c] : answers[c][p] \in AtOnce(c)' => answers[c][p] \in AtOnce(c)
      <4>1. \A p \in DOMAIN answers[c] : answers[c][p] < issued'
        BY <3>3 DEF Range
      <4>2. ~(issued' < issued')
        BY <1>2
      <4> QED BY <3>2, <4>1, <4>2
    <3> QED BY <1>6, <1>13, <2>2, <3>1, <3>2, <3>4, <3>5 DEF AnswersOk
  <2> QED BY <1>1, <2>1, <2>4, <2>5, <2>6, <1>6 DEF TurnOk, TurnOf
<1> QED BY <1>5, <1>7, <1>12, <1>14 DEF IInv
(* Calls of a client have numbers of their own, so none is both kinds *)

LEMMA KindsApart ==
  ASSUME TypeOK, NEW c \in Conn, WireOk(c) PROVE AtOnce(c) \cap Delayed(c) = {}
<1>1. sent[c] \in Seq([id : Nat, kind : Kind])
  BY DEF TypeOK
<1>2. Len(sent[c]) \in Nat /\ DOMAIN sent[c] = 1 .. Len(sent[c])
      /\ \A p \in DOMAIN sent[c] : sent[c][p] \in [id : Nat, kind : Kind]
  BY <1>1, LenProperties, ElementOfSeq
<1>3. ASSUME NEW p \in DOMAIN sent[c], NEW q \in DOMAIN sent[c], sent[c][p].id = sent[c][q].id PROVE p = q
  <2> DEFINE k == Len(sent[c])
  <2>1. p \in 1 .. k /\ q \in 1 .. k /\ k \in Nat /\ sent[c][p].id \in Nat
    BY <1>2
  <2>2. ~(p < q) /\ ~(q < p)
    BY <1>3, <2>1 DEF WireOk, InOrder
  <2> HIDE DEF k
  <2> QED BY <2>1, <2>2
<1> QED BY <1>3 DEF AtOnce, Delayed, Ids, Range

LEMMA AnswerLaterKeeps ==
  ASSUME IInv, NEW c \in Conn, AnswerLater(c) PROVE IInv'
<1>1. PICK id \in later[c] : /\ later' = [later EXCEPT ![c] = @ \ {id}]
                             /\ answers' = [answers EXCEPT ![c] = Append(@, id)]
  BY DEF AnswerLater
<1>2. TypeOK /\ WireOk(c) /\ TurnOk(c, 0, TurnOf(c)) /\ AnswersOk(c, 0, later[c], answers[c])
  BY DEF IInv, TurnOk, TurnOf
<1>3. /\ role' = role /\ state' = state /\ store' = store /\ wire' = wire /\ sent' = sent
      /\ issued' = issued /\ closes' = closes
  BY DEF AnswerLater
<1>4. /\ later'[c] = later[c] \ {id} /\ answers'[c] = Append(answers[c], id)
      /\ id \in Nat /\ answers[c] \in Seq(Nat)
  BY <1>1, <1>2 DEF TypeOK
<1>5. Longer(Nat, answers[c], id, answers'[c])
  BY <1>4, Appended
<1>6. TypeOK'
  <2>1. answers'[c] \in Seq(Nat)
    BY <1>5 DEF Longer
  <2>2. answers' \in [Conn -> Seq(Nat)] /\ later' \in [Conn -> SUBSET Nat]
    BY <1>1, <1>2, <1>4, <2>1 DEF TypeOK
  <2> QED BY <1>2, <1>3, <2>2 DEF TypeOK
<1>7. ASSUME NEW d \in Conn, d # c PROVE WireOk(d)' /\ TurnOk(d, 0, TurnOf(d))'
  <2>1. issued <= issued' /\ later'[d] = later[d] /\ answers'[d] = answers[d]
    BY <1>1, <1>2, <1>3, <1>7 DEF TypeOK
  <2> QED BY <1>3, <1>6, <2>1, OthersKeepStore
<1>8. WireOk(c)'
  BY <1>2, <1>3 DEF WireOk
<1>9. AnswersOk(c, 0, later[c], answers[c])'
  <2> DEFINE new == answers'[c]
  <2>1. /\ new \in Seq(Nat) /\ Range(new) = Range(answers[c]) \cup {id}
        /\ \A p \in DOMAIN new : (p \in DOMAIN answers[c] /\ new[p] = answers[c][p])
                                  \/ (p = Len(answers[c]) + 1 /\ new[p] = id)
    BY <1>5 DEF Longer
  <2>2. Rest(c, 0)' = Rest(c, 0) /\ AtOnce(c)' = AtOnce(c) /\ Delayed(c)' = Delayed(c)
    BY <1>3 DEF Rest, AtOnce, Delayed
  <2>3. id \in Delayed(c) /\ id \notin AtOnce(c) /\ id \notin Range(answers[c])
    BY <1>2, KindsApart DEF AnswersOk
  <2>4. later'[c] \cup Range(new) = later[c] \cup Range(answers[c]) /\ later'[c] \cap Range(new) = {}
    BY <1>2, <1>4, <2>1, <2>3 DEF AnswersOk
  <2>5. Ids(Range(sent[c])) = Rest(c, 0) \cup later'[c] \cup Range(new)
    BY <1>2, <2>4 DEF AnswersOk
  <2>6. IsInjective(new)
    <3>1. \A p \in DOMAIN answers[c] : answers[c][p] # id
      BY <2>3 DEF Range
    <3> HIDE DEF new
    <3> QED BY <1>2, <2>1, <3>1 DEF AnswersOk, IsInjective
  <2>7. \A p, q \in DOMAIN new : p < q /\ new[p] \in AtOnce(c) /\ new[q] \in AtOnce(c) => new[p] < new[q]
    <3> HIDE DEF new
    <3> QED BY <1>2, <2>1, <2>3 DEF AnswersOk
  <2> QED BY <1>2, <1>3, <1>4, <2>1, <2>2, <2>4, <2>5, <2>6, <2>7 DEF AnswersOk
<1>10. QueueOk(c, 0, state[c].queue)' /\ StoreOk(c, Ids(Range(state[c].queue)) \cup Rest(c, 0), store)'
  <2>1. Rest(c, 0)' = Rest(c, 0)
    BY <1>3 DEF Rest
  <2> QED BY <1>2, <1>3, <2>1 DEF TurnOk, TurnOf, QueueOk, StoreOk
<1>11. TurnOf(c)' \in Turn
  BY <1>6 DEF TypeOK, TurnOf, Turn, Sess, Stored
<1>12. TurnOk(c, 0, TurnOf(c))'
  BY <1>2, <1>3, <1>9, <1>10, <1>11 DEF TurnOk, TurnOf
<1> QED BY <1>6, <1>7, <1>8, <1>12 DEF IInv

(* A connection that starts has nothing queued, sent or answered *)

Starts(c) ==
  /\ state[c] = Fresh /\ later[c] = {} /\ wire[c] = <<>> /\ sent[c] = <<>> /\ answers[c] = <<>>

StartIsOk ==
  \A c \in Conn :
    /\ TypeOK /\ Starts(c)
    /\ \A p, q \in DOMAIN store : p < q /\ store[p].conn = store[q].conn => store[p].id < store[q].id
    /\ \A p \in DOMAIN store : store[p].id <= issued
    => WireOk(c) /\ TurnOk(c, 0, TurnOf(c))

LEMMA FreshIsOk == StartIsOk
<1> SUFFICES ASSUME TypeOK, NEW c \in Conn, Starts(c),
                    \A p, q \in DOMAIN store : p < q /\ store[p].conn = store[q].conn => store[p].id < store[q].id,
                    \A p \in DOMAIN store : store[p].id <= issued
             PROVE  WireOk(c) /\ TurnOk(c, 0, TurnOf(c))
  BY DEF StartIsOk
<1>1. DOMAIN <<>> = {} /\ Len(<<>>) = 0
  OBVIOUS
<1>2. Rest(c, 0) = {} /\ Ids(Range(sent[c])) = {} /\ Range(answers[c]) = {} /\ Range(state[c].queue) = {}
  BY <1>1 DEF Starts, Rest, Ids, Range, Fresh
<1>3. WireOk(c)
  BY <1>1 DEF WireOk, Starts, InOrder
<1>4. QueueOk(c, 0, state[c].queue) /\ state[c].queue = <<>>
  BY EmptyQueue DEF Starts, Fresh
<1>5. Ids(Range(state[c].queue)) \cup Rest(c, 0) = {}
  BY <1>2 DEF Ids
<1>6. StoreOk(c, {}, store)
  BY DEF StoreOk, TypeOK, Stored, Range
<1>7. AnswersOk(c, 0, later[c], answers[c])
  BY <1>1, <1>2 DEF AnswersOk, Starts, AllBefore, IsInjective
<1>8. TurnOf(c) \in Turn
  BY DEF TypeOK, TurnOf, Turn, Sess, Stored
<1> QED BY <1>3, <1>4, <1>5, <1>6, <1>7, <1>8 DEF TurnOk, TurnOf

LEMMA CloseKeeps ==
  ASSUME IInv, NEW c \in Conn, Close(c) PROVE IInv'
<1>1. TypeOK
  BY DEF IInv
<1>2. Fresh \in Sess /\ <<>> \in Seq(Command) /\ <<>> \in Seq(Nat) /\ <<>> \in Seq([id : Nat, kind : Kind])
  BY ConstantsAssumption DEF Fresh, Sess
<1>3. TypeOK'
  <2>1. state' \in [Conn -> Sess] /\ later' \in [Conn -> SUBSET Nat]
    BY <1>1, <1>2 DEF TypeOK, Close, Sess
  <2>2. wire' \in [Conn -> Seq(Command)]
    BY <1>1, <1>2 DEF TypeOK, Close
  <2>3. sent' \in [Conn -> Seq([id : Nat, kind : Kind])]
    BY <1>1, <1>2 DEF TypeOK, Close
  <2>4. answers' \in [Conn -> Seq(Nat)]
    BY <1>1, <1>2 DEF TypeOK, Close
  <2>5. closes' \in Nat /\ role' \in Roles /\ issued' \in Nat /\ store' \in Seq(Stored)
    BY <1>1 DEF TypeOK, Close, Stored
  <2> QED BY <2>1, <2>2, <2>3, <2>4, <2>5 DEF TypeOK, Sess, Stored
<1>4. /\ store' = store /\ issued' = issued /\ issued \in Nat /\ issued <= issued
      /\ Starts(c)'
      /\ \A d \in Conn \ {c} : /\ state'[d] = state[d] /\ later'[d] = later[d] /\ wire'[d] = wire[d]
                               /\ sent'[d] = sent[d] /\ answers'[d] = answers[d]
  BY <1>1 DEF TypeOK, Close, Starts
<1>5. ASSUME NEW d \in Conn, d # c PROVE WireOk(d)' /\ TurnOk(d, 0, TurnOf(d))'
  BY <1>3, <1>4, <1>5, OthersKeepStore
<1>6. WireOk(c)' /\ TurnOk(c, 0, TurnOf(c))'
  <2>1. /\ \A p, q \in DOMAIN store' : p < q /\ store'[p].conn = store'[q].conn => store'[p].id < store'[q].id
        /\ \A p \in DOMAIN store' : store'[p].id <= issued'
    BY <1>4, StoreIsOk
  <2>2. StartIsOk'
    BY FreshIsOk, PTL
  <2> QED BY <1>3, <1>4, <2>1, <2>2 DEF StartIsOk
<1> QED BY <1>3, <1>5, <1>6 DEF IInv

LEMMA InitIsOk ==
  ASSUME Init PROVE IInv
<1>1. Fresh \in Sess /\ <<>> \in Seq(Command) /\ <<>> \in Seq(Nat) /\ <<>> \in Seq([id : Nat, kind : Kind])
      /\ <<>> \in Seq([conn : Conn, id : Nat, db : Db])
  BY ConstantsAssumption DEF Fresh, Sess
<1>2. TypeOK
  BY <1>1 DEF TypeOK, Init, Sess
<1>3. ASSUME NEW c \in Conn PROVE Starts(c)
  BY DEF Init, Starts
<1>4. DOMAIN store = {}
  BY DEF Init
<1> QED BY <1>2, <1>3, <1>4, FreshIsOk DEF IInv, StartIsOk
LEMMA RoleKeeps ==
  ASSUME IInv, RoleChanges PROVE IInv'
<1>1. TypeOK
  BY DEF IInv
<1>2. TypeOK'
  BY <1>1 DEF TypeOK, RoleChanges
<1>3. ASSUME NEW d \in Conn PROVE WireOk(d)' /\ TurnOk(d, 0, TurnOf(d))'
  <2>1. issued <= issued' /\ issued \in Nat
    BY <1>1 DEF TypeOK, RoleChanges
  <2> QED BY <1>2, <2>1, OthersKeepStore DEF RoleChanges
<1> QED BY <1>2, <1>3 DEF IInv

LEMMA StutterKeeps ==
  ASSUME IInv, UNCHANGED vars PROVE IInv'
<1>1. TypeOK
  BY DEF IInv
<1>2. TypeOK'
  BY <1>1 DEF TypeOK, vars
<1>3. ASSUME NEW d \in Conn PROVE WireOk(d)' /\ TurnOk(d, 0, TurnOf(d))'
  <2>1. issued <= issued' /\ issued \in Nat
    BY <1>1 DEF TypeOK, vars
  <2> QED BY <1>2, <2>1, OthersKeepStore DEF vars
<1> QED BY <1>2, <1>3 DEF IInv

LEMMA NextKeeps ==
  ASSUME "throw" \notin Kind, IInv, [Next]_vars PROVE IInv'
<1>1. ASSUME NEW c \in Conn, NEW kind \in Kind \ {"SELECT"}, Send(c, kind, 0) PROVE IInv'
  BY <1>1, SendKeeps, ConstantsAssumption
<1>2. ASSUME NEW c \in Conn, NEW db \in Selected, "SELECT" \in Kind, Send(c, "SELECT", db) PROVE IInv'
  BY <1>2, SendKeeps, ConstantsAssumption
<1>3. ASSUME NEW c \in Conn, ServeChunk(c) \/ AnswerLater(c) \/ Close(c) PROVE IInv'
  BY <1>3, ChunkKeeps, AnswerLaterKeeps, CloseKeeps
<1> QED BY <1>1, <1>2, <1>3, RoleKeeps, StutterKeeps DEF Next
------------------------------------------------------------------------------
(* What the invariant says of answers and of writes *)

LEMMA ComingIsRest ==
  ASSUME TypeOK, NEW c \in Conn PROVE Ids(Range(wire[c])) = Rest(c, 0)
<1>1. wire[c] \in Seq(Command)
  BY DEF TypeOK
<1>2. DOMAIN wire[c] = 0 + 1 .. Len(wire[c])
  BY <1>1, LenProperties
<1> QED BY <1>2 DEF Ids, Range, Rest

LEMMA InOrderFromIInv ==
  ASSUME IInv PROVE OnceAndInOrder
<1> SUFFICES ASSUME NEW c \in Conn
             PROVE  LET applied == Ids(Mine(c))
                        queued  == Ids(Range(state[c].queue))
                        coming  == Ids(Range(wire[c]))
                    IN  /\ \A i, j \in DOMAIN store :
                             i < j /\ store[i].conn = c /\ store[j].conn = c => store[i].id < store[j].id
                        /\ InOrder(state[c].queue) /\ InOrder(wire[c])
                        /\ AllBefore(applied, queued \cup coming) /\ AllBefore(queued, coming)
  BY DEF OnceAndInOrder
<1>1. TypeOK /\ WireOk(c) /\ QueueOk(c, 0, state[c].queue)
      /\ StoreOk(c, Ids(Range(state[c].queue)) \cup Rest(c, 0), store)
  BY DEF IInv, TurnOk, TurnOf
<1>2. Ids(Range(wire[c])) = Rest(c, 0)
  BY <1>1, ComingIsRest
<1>3. AllBefore(Ids(Mine(c)), Ids(Range(state[c].queue)) \cup Rest(c, 0))
  <2> DEFINE L == Ids(Range(state[c].queue)) \cup Rest(c, 0)
  <2>1. StoreOk(c, L, store)
    BY <1>1
  <2> HIDE DEF L
  <2>2. AllBefore(Ids(Mine(c)), L)
    BY <2>1 DEF StoreOk, AllBefore, Ids, Mine, Range
  <2> QED BY <2>2 DEF L
<1>4. AllBefore(Ids(Range(state[c].queue)), Rest(c, 0))
  BY <1>1 DEF QueueOk, AllBefore, Ids, Range
<1>5. \A i, j \in DOMAIN store : i < j /\ store[i].conn = c /\ store[j].conn = c => store[i].id < store[j].id
  BY <1>1 DEF StoreOk
<1> QED BY <1>1, <1>2, <1>3, <1>4, <1>5 DEF QueueOk, WireOk

LEMMA AnsweredFromIInv ==
  ASSUME IInv PROVE CallsAreAnswered
<1>1. ASSUME NEW c \in Conn
      PROVE  /\ Ids(Range(sent[c])) = Rest(c, 0) \cup later[c] \cup Range(answers[c])
             /\ AllBefore(later[c] \cup Range(answers[c]), Rest(c, 0))
             /\ later[c] \cap AtOnce(c) = {}
             /\ AnswersOk(c, 0, later[c], answers[c])
             /\ Ids(Range(wire[c])) = Rest(c, 0)
             /\ sent[c] \in Seq([id : Nat, kind : Kind])
  <2>1. TypeOK /\ WireOk(c) /\ AnswersOk(c, 0, later[c], answers[c])
    BY DEF IInv, TurnOk, TurnOf
  <2> QED BY <2>1, ComingIsRest, KindsApart DEF AnswersOk, TypeOK
<1>2. NoCallIsForgotten
  BY <1>1 DEF NoCallIsForgotten
<1>3. ASSUME NEW c \in Conn, NEW n \in AtOnce(c) \cap Range(answers[c]), NEW m \in AtOnce(c), m < n
      PROVE  m \in Range(answers[c])
  <2>1. m \in Nat /\ n \in Nat /\ m \in Ids(Range(sent[c]))
    <3>1. \A x \in Range(sent[c]) : x \in [id : Nat, kind : Kind]
      <4>1. sent[c] \in [1 .. Len(sent[c]) -> [id : Nat, kind : Kind]]
        BY <1>1, LenProperties
      <4> QED BY <4>1 DEF Range
    <3>2. \A x \in Range(sent[c]) : x.id \in Nat
      BY <3>1
    <3> QED BY <1>3, <3>2 DEF AtOnce, Ids
  <2>2. m \notin later[c]
    BY <1>1, <1>3
  <2>3. m \notin Rest(c, 0)
    <3>1. n < m \/ m \notin Rest(c, 0)
      BY <1>1, <1>3 DEF AllBefore
    <3> QED BY <1>3, <2>1, <3>1
  <2> QED BY <1>1, <2>1, <2>2, <2>3
<1>4. AnswersMatchCalls
  BY <1>1, <1>3 DEF AnswersMatchCalls, AnswersOk
<1> QED BY <1>2, <1>4 DEF CallsAreAnswered

(* The invariant, and with it the types, hold in every state as long as no command's handler *)
(* throws (one that does ends its chunk: the commands after it are never answered).          *)

THEOREM SessionInvariant ==
  ASSUME "throw" \notin Kind PROVE Spec => [](TypeOK /\ IInv)
<1>1. IInv /\ [Next]_vars => IInv'
  BY NextKeeps
<1>2. Init => IInv
  BY InitIsOk
<1>3. IInv => TypeOK /\ IInv
  BY DEF IInv
<1> QED BY <1>1, <1>2, <1>3, PTL DEF Spec

(* However commands are split into chunks, whatever is queued by MULTI, and whoever else writes, *)
(* the writes of a connection are applied once and in the order its client sent them.            *)

THEOREM WritesTakeEffectInOrder ==
  ASSUME "throw" \notin Kind PROVE Spec => []OnceAndInOrder
BY SessionInvariant, InOrderFromIInv, PTL

(* Every call is answered once, or is on its way or set aside for a later turn, and a client *)
(* that takes answers in order gives each to its own call.                                   *)

THEOREM CallsGetTheirAnswers ==
  ASSUME "throw" \notin Kind PROVE Spec => []CallsAreAnswered
BY SessionInvariant, AnsweredFromIInv, PTL
==============================================================================
