--------------------------- MODULE KeyspaceProofs ----------------------------
(***************************************************************************)
(* For any set of keys, any clock and values of any length: the variables  *)
(* of Keyspace keep their types and no deadline outlives its key.  Every   *)
(* handler ends in Finish, so the proof is one lemma about Finish, two     *)
(* about the maps it is given, and one step per handler.  The second half  *)
(* shows that Keyspace implements LogicalKeyspace: a pair of maps          *)
(* represents a map of lives, a handler's maps represent what the abstract *)
(* command makes of its own, and then the states after both are the same.  *)
(***************************************************************************)
EXTENDS Keyspace, SequenceTheorems, FiniteSetTheorems, TLAPS

Char == Atom \cup {Comma}

\* The two maps a handler leaves behind are well formed.
Good(m, x) == IsMap(m, Entry) /\ IsMap(x, Nat) /\ DOMAIN x \subseteq DOMAIN m

IInv == TypeOK /\ ExpiresOnlyHeldKeys

\* What every step is shown to do.
EventsMeanGone == \A k \in events' : k \in DOMAIN kv /\ k \notin DOMAIN kv'
StepOK == IInv' /\ EventsMeanGone

LEMMA PutIsMap ==
  ASSUME NEW T, NEW f, NEW k \in Key, NEW v \in T, IsMap(f, T)
  PROVE  IsMap(Put(f, k, v), T) /\ DOMAIN Put(f, k, v) = DOMAIN f \cup {k}
  BY DEF IsMap, Put

LEMMA DropIsMap ==
  ASSUME NEW T, NEW f, NEW K, IsMap(f, T)
  PROVE  IsMap(Drop(f, K), T) /\ DOMAIN Drop(f, K) = DOMAIN f \ K
  BY DEF IsMap, Drop

LEMMA EmptyIsMap == ASSUME NEW T PROVE IsMap(EmptyMap, T) /\ DOMAIN EmptyMap = {}
  BY DEF IsMap, EmptyMap

LEMMA TextIsEntry == ASSUME NEW s \in Seq(Char) PROVE Text(s) \in Entry
  BY DEF Text, Entry, Char

LEMMA ItemsIsEntry == ASSUME NEW s \in Seq(Char) PROVE Items(s) \in Entry
  BY DEF Items, Entry, Char

LEMMA AsTextIsString == ASSUME NEW e \in Entry PROVE AsText(e) \in Seq(Char)
<1> DEFINE n == IF e.data = <<>> THEN 0 ELSE 2 * Len(e.data) - 1
<1>1. e.data \in Seq(Char)
  BY DEF Entry, Char
<1>2. CASE e.form = "text"
  BY <1>1, <1>2 DEF AsText
<1>3. CASE e.form # "text"
  <2>1. Len(e.data) \in Nat /\ (e.data # <<>> => Len(e.data) > 0)
    BY <1>1, LenProperties, EmptySeq
  <2>2. n \in Nat
    BY <2>1
  <2>3. ASSUME NEW i \in 1 .. n PROVE (IF i % 2 = 1 THEN e.data[(i + 1) \div 2] ELSE Comma) \in Char
    <3>1. CASE i % 2 = 1
      <4>1. (i + 1) \div 2 \in 1 .. Len(e.data)
        BY <2>1, <2>2, <2>3
      <4> QED BY <1>1, <4>1, <3>1, ElementOfSeq
    <3>2. CASE i % 2 # 1
      BY <3>2 DEF Char
    <3> QED BY <3>1, <3>2
  <2>4. [i \in 1 .. n |-> IF i % 2 = 1 THEN e.data[(i + 1) \div 2] ELSE Comma] \in Seq(Char)
    BY <2>2, <2>3, SeqDef
  <2> QED BY <1>3, <2>4 DEF AsText
<1> QED BY <1>2, <1>3

LEMMA AppendedIsEntry == ASSUME NEW e \in Entry, NEW a \in Atom PROVE Appended(e, a) \in Entry
<1>1. Append(AsText(e), a) \in Seq(Char)
  BY AsTextIsString, AppendProperties DEF Char
<1> QED BY <1>1 DEF Appended, Entry, Char

LEMMA PushedIsEntry ==
  ASSUME NEW e \in Entry, NEW c \in Char, NEW side PROVE Pushed(e, c, side) \in Entry
<1>1. e.data \in Seq(Char)
  BY DEF Entry, Char
<1>2. <<c>> \in Seq(Char)
  OBVIOUS
<1>3. <<c>> \o e.data \in Seq(Char) /\ Append(e.data, c) \in Seq(Char)
  BY <1>1, <1>2, ConcatProperties, AppendProperties
<1> QED BY <1>3 DEF Pushed, Holding, Entry, Char

LEMMA PoppedIsEntry ==
  ASSUME NEW e \in Entry, e.data # <<>>, NEW side
  PROVE  Popped(e, side) \in Entry /\ PopValue(e, side) \in Char
<1>1. e.data \in Seq(Char) /\ Len(e.data) \in Nat /\ Len(e.data) > 0
  BY LenProperties, EmptySeq DEF Entry, Char
<1>2. Tail(e.data) \in Seq(Char) /\ Head(e.data) \in Char
  BY <1>1, HeadTailProperties
<1>3. SubSeq(e.data, 1, Len(e.data) - 1) \in Seq(Char)
  BY <1>1, SubSeqProperties
<1>4. e.data[Len(e.data)] \in Char
  BY <1>1, ElementOfSeq
<1> QED BY <1>2, <1>3, <1>4 DEF Popped, Holding, PopValue, Entry, Char
------------------------------------------------------------------------------
(* What handlers do to a well-formed pair of maps leaves it well formed. *)

LEMMA PutEntryGood ==
  ASSUME NEW m, NEW x, Good(m, x), NEW k \in Key, NEW e \in Entry
  PROVE  Good(Put(m, k, e), x) /\ k \in DOMAIN Put(m, k, e)
<1>1. IsMap(m, Entry) /\ IsMap(x, Nat) /\ DOMAIN x \subseteq DOMAIN m
  BY DEF Good
<1>2. IsMap(Put(m, k, e), Entry)
  BY <1>1, PutIsMap
<1>3. DOMAIN Put(m, k, e) = DOMAIN m \cup {k}
  BY DEF Put
<1> QED BY <1>1, <1>2, <1>3 DEF Good

LEMMA PutDeadlineGood ==
  ASSUME NEW m, NEW x, Good(m, x), NEW k \in DOMAIN m, NEW t \in Nat
  PROVE  Good(m, Put(x, k, t))
<1>1. IsMap(m, Entry) /\ IsMap(x, Nat) /\ DOMAIN x \subseteq DOMAIN m
  BY DEF Good
<1>2. k \in Key
  BY <1>1 DEF IsMap
<1>3. IsMap(Put(x, k, t), Nat)
  BY <1>1, <1>2, PutIsMap
<1>4. DOMAIN Put(x, k, t) = DOMAIN x \cup {k}
  BY DEF Put
<1> QED BY <1>1, <1>3, <1>4 DEF Good

LEMMA DropDeadlinesGood ==
  ASSUME NEW m, NEW x, Good(m, x), NEW K PROVE Good(m, Drop(x, K))
<1>1. IsMap(m, Entry) /\ IsMap(x, Nat) /\ DOMAIN x \subseteq DOMAIN m
  BY DEF Good
<1>2. IsMap(Drop(x, K), Nat)
  BY <1>1, DropIsMap
<1>3. DOMAIN Drop(x, K) = DOMAIN x \ K
  BY DEF Drop
<1> QED BY <1>1, <1>2, <1>3 DEF Good

LEMMA DropGood ==
  ASSUME NEW m, NEW x, Good(m, x), NEW K PROVE Good(Drop(m, K), Drop(x, K))
<1>1. IsMap(m, Entry) /\ IsMap(x, Nat) /\ DOMAIN x \subseteq DOMAIN m
  BY DEF Good
<1>2. IsMap(Drop(m, K), Entry) /\ IsMap(Drop(x, K), Nat)
  BY <1>1, DropIsMap
<1>3. DOMAIN Drop(m, K) = DOMAIN m \ K /\ DOMAIN Drop(x, K) = DOMAIN x \ K
  BY DEF Drop
<1> QED BY <1>1, <1>2, <1>3 DEF Good

LEMMA DeadlineGood ==
  ASSUME NEW m, NEW x, Good(m, x), NEW k \in DOMAIN m, NEW at \in Nat \cup {Undefined}
  PROVE  Good(m, Deadline(x, k, at))
  BY PutDeadlineGood, DropDeadlinesGood DEF Deadline

LEMMA LookupGood ==
  ASSUME IInv, NEW K
  PROVE  Good(kv, expires) /\ Good(Kv(K), Expires(K))
<1>1. Good(kv, expires)
  BY DEF IInv, TypeOK, ExpiresOnlyHeldKeys, Good
<1> QED BY <1>1, DropGood DEF Kv, Expires

LEMMA FinishKeeps ==
  ASSUME IInv, NEW m, NEW x, NEW r, Good(m, x), Finish(m, x, r)
  PROVE  StepOK
  BY DEF IInv, TypeOK, ExpiresOnlyHeldKeys, Good, Finish, IsMap, StepOK, EventsMeanGone

LEMMA AnswerKeeps == ASSUME IInv, NEW K, NEW r, Answer(K, r) PROVE StepOK
  BY LookupGood, FinishKeeps DEF Answer

LEMMA StoreKeeps ==
  ASSUME IInv, NEW k \in Key, NEW s \in Seq(Char), NEW at \in Nat \cup {Undefined}, NEW r, Store(k, s, at, r)
  PROVE  StepOK
<1>1. Good(Put(Kv({k}), k, Text(s)), Expires({k})) /\ k \in DOMAIN Put(Kv({k}), k, Text(s))
  BY LookupGood, TextIsEntry, PutEntryGood
<1>2. Good(Put(Kv({k}), k, Text(s)), Deadline(Expires({k}), k, at))
  BY <1>1, DeadlineGood
<1> QED BY <1>2, FinishKeeps DEF Store

LEMMA EditKeeps ==
  ASSUME IInv, NEW k \in Key, NEW e \in Entry, NEW r, Edit(k, e, r)
  PROVE  StepOK
<1>1. Good(Put(Kv({k}), k, e), Expires({k}))
  BY LookupGood, PutEntryGood
<1> QED BY <1>1, FinishKeeps DEF Edit

LEMMA RemoveKeeps == ASSUME IInv, NEW K, NEW k, NEW r, Remove(K, k, r) PROVE StepOK
<1>1. Good(Drop(Kv(K), {k}), Drop(Expires(K), {k}))
  BY LookupGood, DropGood
<1> QED BY <1>1, FinishKeeps DEF Remove

LEMMA SetDeadlineKeeps ==
  ASSUME IInv, NEW k, Live(k), NEW t \in Nat, NEW r, Finish(kv, Put(expires, k, t), r)
  PROVE  StepOK
<1>1. Good(kv, expires) /\ k \in DOMAIN kv
  BY LookupGood DEF Live
<1>2. Good(kv, Put(expires, k, t))
  BY <1>1, PutDeadlineGood
<1> QED BY <1>2, FinishKeeps

LEMMA DropDeadlineKeeps ==
  ASSUME IInv, NEW k, NEW r, Finish(kv, Drop(expires, {k}), r) PROVE StepOK
<1>1. Good(kv, Drop(expires, {k}))
  BY LookupGood, DropDeadlinesGood
<1> QED BY <1>1, FinishKeeps

\* Counts are of whole units.
LEMMA AfterIsTime ==
  ASSUME NEW t \in Nat, NEW s \in Int, s > 0, NEW u \in Nat \ {0}
  PROVE  s * u \in Int /\ s * u > 0 /\ t + s * u \in Nat
  OBVIOUS

LEMMA LiveEntry == ASSUME IInv, NEW k, Live(k) PROVE kv[k] \in Entry /\ k \in Key
  BY DEF IInv, TypeOK, IsMap, Live

LEMMA OneChar == ASSUME NEW a \in Atom PROVE a \in Char /\ <<a>> \in Seq(Char)
  BY DEF Char

LEMMA EmptyValues == <<>> \in Seq(Char) /\ EmptyText \in Entry /\ NewList \in Entry
<1>1. <<>> \in Seq(Char)
  BY EmptySeq
<1> QED BY <1>1, TextIsEntry, ItemsIsEntry DEF EmptyText, NewList
------------------------------------------------------------------------------
(* One lemma per handler that stores something of its own making. *)

LEMMA SetKeeps ==
  ASSUME IInv, NEW k \in Key, NEW a \in Atom, NEW cond, NEW get, NEW keep,
         NEW at \in Nat \cup {Undefined}, Set(k, a, cond, get, keep, at)
  PROVE  StepOK
<1> DEFINE m == Put(Kv({k}), k, Text(<<a>>))
<1>1. Good(m, Expires({k})) /\ k \in DOMAIN m
  BY LookupGood, OneChar, TextIsEntry, PutEntryGood
<1>2. Good(m, Deadline(Expires({k}), k, at))
  BY <1>1, DeadlineGood
<1>3. CASE (cond = "NX" /\ Live(k)) \/ (cond = "XX" /\ ~Live(k))
  BY <1>3, AnswerKeeps DEF Set
<1>4. CASE ~((cond = "NX" /\ Live(k)) \/ (cond = "XX" /\ ~Live(k)))
  <2> DEFINE x == IF at = Undefined /\ keep THEN Expires({k}) ELSE Deadline(Expires({k}), k, at)
             r == IF get THEN OldText(k) ELSE Ok
  <2>1. Good(m, x)
    BY <1>1, <1>2
  <2>2. Finish(m, x, r)
    BY <1>4 DEF Set
  <2> HIDE DEF m, x, r
  <2> QED BY <2>1, <2>2, FinishKeeps
<1> QED BY <1>3, <1>4

LEMMA AppendKeeps ==
  ASSUME IInv, NEW k \in Key, NEW a \in Atom, AppendTo(k, a) PROVE StepOK
<1> DEFINE old == IF Live(k) THEN kv[k] ELSE EmptyText
<1>1. Appended(old, a) \in Entry
  BY LiveEntry, EmptyValues, AppendedIsEntry
<1>2. Edit(k, Appended(old, a), Num(Len(Appended(old, a).data)))
  BY DEF AppendTo
<1> QED BY <1>1, <1>2, EditKeeps

LEMMA MSetKeeps ==
  ASSUME IInv, NEW K \in SUBSET Key, NEW a \in Atom, MSet(K, a) PROVE StepOK
<1> DEFINE m == [x \in DOMAIN kv \cup K |-> IF x \in K THEN Text(<<a>>) ELSE kv[x]]
<1>1. Text(<<a>>) \in Entry
  BY OneChar, TextIsEntry
<1>2. Good(kv, expires)
  BY LookupGood
<1>3. IsMap(m, Entry) /\ DOMAIN m = DOMAIN kv \cup K
  BY <1>1, <1>2 DEF Good, IsMap
<1>4. Good(m, Drop(expires, K))
  <2>1. IsMap(expires, Nat) /\ DOMAIN expires \subseteq DOMAIN kv
    BY <1>2 DEF Good
  <2>2. IsMap(Drop(expires, K), Nat)
    BY <2>1, DropIsMap
  <2>3. DOMAIN Drop(expires, K) \subseteq DOMAIN m
    BY <1>3, <2>1 DEF Drop
  <2> QED BY <1>3, <2>2, <2>3 DEF Good
<1>5. Finish(m, Drop(expires, K), Ok)
  BY DEF MSet
<1> QED BY <1>4, <1>5, FinishKeeps

LEMMA MSetNXKeeps ==
  ASSUME IInv, NEW j \in Key, NEW k \in Key, NEW a \in Atom, MSetNX(j, k, a) PROVE StepOK
<1> DEFINE m == Put(Put(Kv({j, k}), j, Text(<<a>>)), k, Text(<<a>>))
           x == Drop(Expires({j, k}), {j, k})
<1>1. Good(m, x)
  BY LookupGood, OneChar, TextIsEntry, PutEntryGood, DropDeadlinesGood
<1>2. CASE Live(j) \/ Live(k)
  BY <1>2, AnswerKeeps DEF MSetNX
<1>3. CASE ~Live(j) /\ ~Live(k)
  <2>1. Finish(m, x, Num(1))
    BY <1>3 DEF MSetNX
  <2> QED BY <1>1, <2>1, FinishKeeps
<1> QED BY <1>2, <1>3

LEMMA PushKeeps ==
  ASSUME IInv, NEW k \in Key, NEW a \in Atom, NEW side, Push(k, a, side) PROVE StepOK
<1> DEFINE e == IF Live(k) THEN kv[k] ELSE NewList
<1>1. e \in Entry
  BY LiveEntry, EmptyValues
<1>2. Pushed(e, a, side) \in Entry
  BY <1>1, OneChar, PushedIsEntry
<1>3. CASE CanPush(e)
  BY <1>2, <1>3, EditKeeps DEF Push
<1>4. CASE ~CanPush(e)
  BY <1>4, AnswerKeeps DEF Push
<1> QED BY <1>3, <1>4

LEMMA PopKeeps == ASSUME IInv, NEW k \in Key, NEW side, Pop(k, side) PROVE StepOK
<1>1. CASE Poppable(k)
  <2>1. Popped(kv[k], side) \in Entry
    BY <1>1, LiveEntry, PoppedIsEntry DEF Poppable
  <2> QED BY <1>1, <2>1, EditKeeps DEF Pop
<1>2. CASE ~Poppable(k)
  BY <1>2, AnswerKeeps DEF Pop
<1> QED BY <1>1, <1>2

LEMMA RPopLPushKeeps ==
  ASSUME IInv, NEW s \in Key, NEW d \in Key, RPopLPush(s, d) PROVE StepOK
<1>1. CASE ~Poppable(s)
  BY <1>1, AnswerKeeps DEF RPopLPush
<1>2. CASE Poppable(s)
  <2> DEFINE v    == PopValue(kv[s], "right")
             m    == Put(Kv({s, d}), s, Popped(kv[s], "right"))
             dest == IF d \in DOMAIN m THEN m[d] ELSE NewList
             x    == Expires({s, d})
  <2>1. Popped(kv[s], "right") \in Entry /\ v \in Char
    BY <1>2, LiveEntry, PoppedIsEntry DEF Poppable
  <2>2. Good(m, x)
    BY <2>1, LookupGood, PutEntryGood
  <2>3. dest \in Entry
    BY <2>2, EmptyValues DEF Good, IsMap
  <2>4. Good(Put(m, d, Pushed(dest, v, "left")), x)
    BY <2>1, <2>2, <2>3, PushedIsEntry, PutEntryGood
  <2>5. Finish(Put(m, d, Pushed(dest, v, "left")), x, Bulk(v)) \/ Finish(m, x, Crash)
    BY <1>2 DEF RPopLPush
  <2> HIDE DEF m, dest, v, x
  <2> QED BY <2>2, <2>4, <2>5, FinishKeeps
<1> QED BY <1>1, <1>2

LEMMA MovedKeeps ==
  ASSUME IInv, NEW s, NEW d \in Key, Live(s), NEW m, NEW x, Good(m, x), NEW r,
         s \in DOMAIN m, Moved(s, d, m, x, r)
  PROVE  StepOK
<1> DEFINE m1 == Put(m, d, kv[s])
           x1 == IF s \in DOMAIN x THEN Put(x, d, x[s]) ELSE Drop(x, {d})
<1>1. Good(m1, x) /\ d \in DOMAIN m1
  BY LiveEntry, PutEntryGood
<1>2. s \in DOMAIN x => x[s] \in Nat
  BY DEF Good, IsMap
<1>3. Good(m1, x1)
  BY <1>1, <1>2, PutDeadlineGood, DropDeadlinesGood
<1>4. Good(Drop(m1, {s}), Drop(x1, {s}))
  BY <1>3, DropGood
<1>5. Finish(Drop(m1, {s}), Drop(x1, {s}), r)
  BY DEF Moved
<1> QED BY <1>4, <1>5, FinishKeeps
------------------------------------------------------------------------------
LEMMA StringCommandKeeps ==
  ASSUME IInv, ConstantsAssumption, StringCommand PROVE StepOK
<1>0. now \in Nat /\ SetTimes \subseteq Nat \cup {Undefined} /\ Second \in Nat \ {0}
      /\ Seconds \subseteq Int /\ Millis \subseteq Int
  BY DEF IInv, TypeOK, ConstantsAssumption, Undefined, SetTimes, Times
<1>1. CASE \E k \in Key : Get(k)
  BY <1>1, AnswerKeeps DEF Get
<1>2. CASE \E k \in Key, a \in Atom, cond \in {"always", "NX", "XX"},
              get, keep \in BOOLEAN, at \in SetTimes : Set(k, a, cond, get, keep, at)
  BY <1>0, <1>2, SetKeeps
<1>3. ASSUME NEW k \in Key, NEW a \in Atom, SetNX(k, a) PROVE StepOK
  BY <1>0, <1>3, AnswerKeeps, StoreKeeps, OneChar DEF SetNX
<1>4. ASSUME NEW k \in Key, NEW a \in Atom, NEW s \in Seconds, SetEX(k, a, s) PROVE StepOK
  <2>1. s > 0 => now + s * Second \in Nat
    BY <1>0, AfterIsTime
  <2>2. CASE s <= 0
    BY <1>4, <2>2, AnswerKeeps DEF SetEX
  <2>3. CASE ~(s <= 0)
    <3>1. s > 0
      BY <1>0, <2>3
    <3> QED BY <1>4, <2>1, <2>3, <3>1, StoreKeeps, OneChar DEF SetEX
  <2> QED BY <2>2, <2>3
<1>5. ASSUME NEW k \in Key, NEW a \in Atom, GetSet(k, a) PROVE StepOK
  BY <1>0, <1>5, AnswerKeeps, StoreKeeps, OneChar DEF GetSet
<1>6. ASSUME NEW k \in Key, GetDel(k) PROVE StepOK
  BY <1>6, AnswerKeeps, RemoveKeeps DEF GetDel
<1>7. ASSUME NEW k \in Key, GetExPersist(k) PROVE StepOK
  BY <1>7, AnswerKeeps, DropDeadlineKeeps DEF GetExPersist
<1>8. ASSUME NEW k \in Key, NEW ms \in {s * Second : s \in Seconds} \cup Millis, GetExIn(k, ms)
      PROVE StepOK
  <2>0. ASSUME NEW s \in Seconds PROVE s * Second \in Int
    <3>1. s \in Int
      BY <1>0
    <3> QED BY <1>0, <3>1
  <2>1. ms \in Int
    BY <1>0, <2>0, <1>8
  <2>2. CASE ~IsString(k) \/ ms <= 0
    BY <1>8, <2>2, AnswerKeeps DEF GetExIn
  <2>3. CASE IsString(k) /\ ~(ms <= 0)
    <3>1. now + ms \in Nat
      BY <1>0, <2>1, <2>3
    <3> QED BY <1>8, <2>3, <3>1, SetDeadlineKeeps DEF GetExIn, IsString
  <2> QED BY <2>2, <2>3
<1>9. ASSUME NEW j \in Key, NEW k \in Key, MGet(<<j, k>>) PROVE StepOK
  BY <1>9, AnswerKeeps DEF MGet
<1>10. CASE SetRefused
  BY <1>10, AnswerKeeps DEF SetRefused
<1> QED BY <1>1, <1>2, <1>3, <1>4, <1>5, <1>6, <1>7, <1>8, <1>9, <1>10,
           AppendKeeps, MSetKeeps, MSetNXKeeps DEF StringCommand, NonEmpty

LEMMA ListCommandKeeps == ASSUME IInv, ListCommand PROVE StepOK
<1>1. ASSUME NEW k \in Key, NEW t, Length(k, t) PROVE StepOK
  BY <1>1, AnswerKeeps DEF Length
<1> QED BY <1>1, PushKeeps, PopKeeps, RPopLPushKeeps DEF ListCommand

LEMMA KeyCommandKeeps ==
  ASSUME IInv, ConstantsAssumption, KeyCommand PROVE StepOK
<1>0. now \in Nat /\ Second \in Nat \ {0} /\ Seconds \subseteq Int /\ Millis \subseteq Int
      /\ Times \subseteq Nat
  BY DEF IInv, TypeOK, ConstantsAssumption, Times
<1>1. ASSUME NEW K, Del(K) PROVE StepOK
  BY <1>1, LookupGood, DropGood, FinishKeeps DEF Del
<1>2. ASSUME NEW K, Exists(K) PROVE StepOK
  BY <1>2, AnswerKeeps DEF Exists
<1>3. ASSUME NEW k, Type(k) PROVE StepOK
  BY <1>3, AnswerKeeps DEF Type
<1>4. CASE Keys
  BY <1>4, AnswerKeeps DEF Keys
<1>5. CASE DbSize \/ RandomKey
  BY <1>5, AnswerKeeps DEF DbSize, RandomKey
<1>6. CASE FlushDb
  BY <1>6, EmptyIsMap, FinishKeeps DEF FlushDb, Good
<1>7. ASSUME NEW k \in Key, NEW s \in Seconds, Expire(k, s) PROVE StepOK
  <2>1. s > 0 => now + s * Second \in Nat
    BY <1>0, AfterIsTime
  <2>2. CASE ~Live(k)
    BY <1>7, <2>2, AnswerKeeps DEF Expire
  <2>3. CASE Live(k) /\ s <= 0
    <3>1. Good(Drop(kv, {k}), Drop(expires, {k}))
      BY LookupGood, DropGood
    <3>2. kv' = Drop(kv, {k}) /\ expires' = Drop(expires, {k}) /\ events' = {k} /\ now' = now
      BY <1>7, <2>3 DEF Expire
    <3> QED BY <2>3, <3>1, <3>2 DEF IInv, TypeOK, ExpiresOnlyHeldKeys, Good, IsMap, StepOK, EventsMeanGone, Drop, Live
  <2>4. CASE Live(k) /\ ~(s <= 0)
    <3>1. s > 0
      BY <1>0, <2>4
    <3> QED BY <1>7, <2>1, <2>4, <3>1, SetDeadlineKeeps DEF Expire
  <2> QED BY <2>2, <2>3, <2>4
<1>8. ASSUME NEW k \in Key, NEW ms \in Millis, PExpire(k, ms) PROVE StepOK
  <2>1. CASE ~Live(k)
    BY <1>8, <2>1, AnswerKeeps DEF PExpire
  <2>2. CASE Live(k) /\ ms <= 0
    BY <1>8, <2>2, RemoveKeeps DEF PExpire
  <2>3. CASE Live(k) /\ ~(ms <= 0)
    <3>1. now + ms \in Nat
      BY <1>0, <2>3
    <3> QED BY <1>8, <2>3, <3>1, SetDeadlineKeeps DEF PExpire
  <2> QED BY <2>1, <2>2, <2>3
<1>9. ASSUME NEW k \in Key, NEW t \in Times, ExpireAt(k, t) PROVE StepOK
  BY <1>0, <1>9, AnswerKeeps, SetDeadlineKeeps DEF ExpireAt
<1>10. ASSUME NEW k \in Key, NEW unit, Ttl(k, unit) PROVE StepOK
  BY <1>10, AnswerKeeps DEF Ttl
<1>11. ASSUME NEW k \in Key, Persist(k) PROVE StepOK
  BY <1>11, AnswerKeeps, DropDeadlineKeeps DEF Persist
<1>12. ASSUME NEW s \in Key, NEW d \in Key, Rename(s, d) PROVE StepOK
  BY <1>12, AnswerKeeps, LookupGood, MovedKeeps DEF Rename, Live
<1>13. ASSUME NEW s \in Key, NEW d \in Key, RenameNX(s, d) PROVE StepOK
  <2>1. CASE Live(s) /\ ~Live(d)
    <3>1. s \in DOMAIN Kv({d})
      BY <2>1 DEF Kv, Drop, Live, Stale
    <3>2. Moved(s, d, Kv({d}), Expires({d}), Num(1))
      BY <1>13, <2>1 DEF RenameNX
    <3> QED BY <2>1, <3>1, <3>2, LookupGood, MovedKeeps
  <2>2. CASE ~Live(s) \/ Live(d)
    BY <1>13, <2>2, AnswerKeeps DEF RenameNX
  <2> QED BY <2>1, <2>2
<1> QED BY <1>1, <1>2, <1>3, <1>4, <1>5, <1>6, <1>7, <1>8, <1>9, <1>10, <1>11, <1>12, <1>13
        DEF KeyCommand

LEMMA PurgeKeeps == ASSUME IInv, PurgeExpiredBatch PROVE StepOK
<1>1. Good(Drop(kv, Stale), Drop(expires, Stale))
  BY LookupGood, DropGood
<1>2. Stale \subseteq Key
  BY DEF IInv, TypeOK, IsMap, Stale
<1>3. \A k \in Stale : k \in DOMAIN kv /\ k \notin DOMAIN Drop(kv, Stale)
  BY DEF IInv, ExpiresOnlyHeldKeys, Stale, Drop
<1> QED BY <1>1, <1>2, <1>3
        DEF PurgeExpiredBatch, IInv, TypeOK, ExpiresOnlyHeldKeys, Good, IsMap, StepOK, EventsMeanGone

LEMMA TickKeeps == ASSUME IInv, Tick PROVE StepOK
  BY DEF Tick, IInv, TypeOK, ExpiresOnlyHeldKeys, IsMap, StepOK, EventsMeanGone

LEMMA StutterKeeps == ASSUME IInv, UNCHANGED vars PROVE IInv'
  BY DEF vars, IInv, TypeOK, ExpiresOnlyHeldKeys, IsMap

LEMMA NextKeeps == ASSUME IInv, Next, ConstantsAssumption PROVE StepOK
  BY StringCommandKeeps, ListCommandKeeps, KeyCommandKeeps, PurgeKeeps, TickKeeps
     DEF Next, Command

LEMMA Inductive == Spec => []IInv
<1> USE ConstantsAssumption
<1>1. Init => IInv
  BY EmptyIsMap DEF Init, IInv, TypeOK, ExpiresOnlyHeldKeys
<1>2. IInv /\ [Next]_vars => IInv'
  BY NextKeeps, StutterKeeps DEF StepOK
<1> QED BY <1>1, <1>2, PTL DEF Spec

\* Every reachable state has well-typed maps and no orphan deadline: a value can
\* only be killed by a deadline that was set while its key was held.
THEOREM KeyspaceInvariant == Spec => [](TypeOK /\ ExpiresOnlyHeldKeys)
<1>1. IInv => TypeOK /\ ExpiresOnlyHeldKeys
  BY DEF IInv
<1> QED BY <1>1, Inductive, PTL

\* An 'expired' event is only raised for a key that was held and goes in that very
\* step.  It needs the invariant: the batch reads `expires', the claim is on `kv'.
THEOREM KeyspaceEvents == Spec => ExpiredEventMeansGone
<1>1. IInv /\ [Next]_vars
      => [\A k \in events' : k \in DOMAIN kv /\ k \notin DOMAIN kv']_vars
  BY NextKeeps, ConstantsAssumption DEF StepOK, EventsMeanGone
<1> QED BY <1>1, Inductive, PTL DEF Spec, ExpiredEventMeansGone

\* The maps hold entries and times, under keys, whatever commands, clock and timer do.
THEOREM KeyspaceTypes == Spec => []TypeOK
  BY KeyspaceInvariant, PTL
------------------------------------------------------------------------------
(* Keyspace implements LogicalKeyspace. *)

\* The deadline of a key in x, as LogicalKeyspace has it.
Until(x, k) == IF k \in DOMAIN x THEN x[k] ELSE -1

\* k is alive in a pair of maps, and in a map of the abstract keyspace.
Alive(m, x, k) == k \in DOMAIN m /\ ~(k \in DOMAIN x /\ now >= x[k])
Lasts(ml, k)   == k \in DOMAIN ml /\ ~(ml[k].at # -1 /\ ml[k].at <= now)

\* The pair of maps says of k what the abstract map says.
Shows(m, x, ml, k) ==
  /\ Alive(m, x, k) <=> Lasts(ml, k)
  /\ Alive(m, x, k) => ml[k] = [entry |-> m[k], at |-> Until(x, k)]
Represents(m, x, ml) == \A k : Shows(m, x, ml, k)

LEMMA LogicalFacts ==
  ASSUME IInv
  PROVE  /\ Represents(kv, expires, LogicalDb)
         /\ \A k : Logical!Has(k) <=> Live(k)
         /\ \A k : Live(k) => LogicalDb[k].entry = kv[k] /\ LogicalDb[k].at = Until(expires, k)
         /\ \A k : Logical!Life(k) = IF Live(k) THEN Until(expires, k) ELSE -1
<1>1. now \in Nat /\ \A k \in DOMAIN expires : expires[k] \in Nat
  BY DEF IInv, TypeOK, IsMap
<1>2. \A k : k \in DOMAIN LogicalDb <=> Live(k)
  BY DEF LogicalDb, Live
<1>3. \A k : Live(k) => LogicalDb[k] = [entry |-> kv[k], at |-> Until(expires, k)]
  BY DEF LogicalDb, Live, Until
<1>3a. ASSUME NEW k, Live(k)
       PROVE  LogicalDb[k].entry = kv[k] /\ LogicalDb[k].at = Until(expires, k)
  <2> DEFINE u == Until(expires, k)
  <2>1. LogicalDb[k] = [entry |-> kv[k], at |-> u]
    BY <1>3, <1>3a
  <2> HIDE DEF u
  <2> QED BY <2>1 DEF u
<1>4. \A k : Alive(kv, expires, k) <=> Live(k)
  BY DEF Alive, Live, Expired
<1>5. ASSUME NEW k, Live(k) PROVE Lasts(LogicalDb, k)
  <2>1. LogicalDb[k].at = Until(expires, k)
    BY <1>3a, <1>5
  <2> QED BY <1>1, <1>2, <1>5, <2>1 DEF Lasts, Until, Live, Expired
<1>6. Represents(kv, expires, LogicalDb)
  BY <1>2, <1>3, <1>4, <1>5 DEF Represents, Shows, Lasts
<1>7. \A k : Logical!Has(k) <=> Live(k)
  BY <1>2 DEF Logical!Has
<1>8. \A k : Logical!Life(k) = IF Live(k) THEN Until(expires, k) ELSE -1
  BY <1>3a, <1>7 DEF Logical!Life, Logical!Forever
<1> QED BY <1>3a, <1>6, <1>7, <1>8

\* A handler that ends with maps that represent ml has done what Become(ml) asks for.
LEMMA EndBecomes ==
  ASSUME NEW m, NEW x, NEW ml, NEW r, Represents(m, x, ml),
         kv' = m, expires' = x, reply' = r, now' = now
  PROVE  Logical!Become(ml, r) /\ now' = now
<1>1. kv' = m /\ expires' = x /\ reply' = r /\ now' = now
  OBVIOUS
<1> DEFINE D == {y \in DOMAIN m : Alive(m, x, y)}
           A == Logical!AliveAt(ml, now)
<1>2. LogicalDb' = [k \in D |-> [entry |-> m[k], at |-> Until(x, k)]]
  BY <1>1 DEF LogicalDb, Live, Expired, Alive, Until
<1>3. A = [k \in {y \in DOMAIN ml : Lasts(ml, y)} |-> ml[k]]
  BY DEF Logical!AliveAt, Logical!Without, Logical!Forever, Lasts
<1>4. \A k : k \in D <=> k \in DOMAIN ml /\ Lasts(ml, k)
  BY DEF Represents, Shows, Lasts, Alive
<1>5. \A k \in D : ml[k] = [entry |-> m[k], at |-> Until(x, k)]
  BY DEF Represents, Shows
<1>6. LogicalDb' = A
  BY <1>2, <1>3, <1>4, <1>5
<1> QED BY <1>1, <1>6 DEF Logical!Become

LEMMA FinishBecomes ==
  ASSUME NEW m, NEW x, NEW ml, NEW r, Represents(m, x, ml), Finish(m, x, r)
  PROVE  Logical!Become(ml, r) /\ now' = now
  BY EndBecomes DEF Finish

LEMMA ShowsAlike ==
  ASSUME NEW m, NEW x, NEW ml, NEW p, NEW y, NEW w, NEW j, Shows(m, x, ml, j),
         j \in DOMAIN p <=> j \in DOMAIN m, j \in DOMAIN m => p[j] = m[j],
         j \in DOMAIN y <=> j \in DOMAIN x, j \in DOMAIN x => y[j] = x[j],
         j \in DOMAIN w <=> j \in DOMAIN ml, j \in DOMAIN ml => w[j] = ml[j]
  PROVE  Shows(p, y, w, j)
<1>1. (Alive(p, y, j) <=> Alive(m, x, j)) /\ (Lasts(w, j) <=> Lasts(ml, j))
  BY DEF Alive, Lasts
<1>2. Until(y, j) = Until(x, j)
  BY DEF Until
<1>3. CASE Alive(m, x, j)
  <2>1. w[j] = ml[j] /\ p[j] = m[j]
    BY <1>3 DEF Shows, Alive, Lasts
  <2> QED BY <1>1, <1>2, <1>3, <2>1 DEF Shows
<1>4. CASE ~Alive(m, x, j)
  BY <1>1, <1>4 DEF Shows
<1> QED BY <1>3, <1>4

\* What handlers do to their two maps, and what the abstract keyspace does to its own.
LEMMA LookupRepresents ==
  ASSUME IInv, NEW K PROVE Represents(Kv(K), Expires(K), LogicalDb)
<1>1. Represents(kv, expires, LogicalDb)
  BY LogicalFacts
<1>2. ASSUME NEW k PROVE Shows(Kv(K), Expires(K), LogicalDb, k)
  <2>1. Shows(kv, expires, LogicalDb, k)
    BY <1>1 DEF Represents
  <2>2. CASE k \in K \cap Stale
    <3>1. k \notin DOMAIN Kv(K) /\ ~Alive(kv, expires, k)
      BY <2>2 DEF Kv, Drop, Stale, Expired, Alive
    <3> QED BY <2>1, <3>1 DEF Shows, Alive
  <2>3. CASE k \notin K \cap Stale
    <3>1. /\ k \in DOMAIN Kv(K) <=> k \in DOMAIN kv
          /\ k \in DOMAIN Expires(K) <=> k \in DOMAIN expires
          /\ k \in DOMAIN kv => Kv(K)[k] = kv[k]
          /\ k \in DOMAIN expires => Expires(K)[k] = expires[k]
      BY <2>3 DEF Kv, Expires, Drop
    <3> QED BY <2>1, <3>1, ShowsAlike
  <2> QED BY <2>2, <2>3
<1> QED BY <1>2 DEF Represents

\* y and x say the same of every key but those of K.
SameBut(y, x, K) ==
  \A j : j \notin K => (j \in DOMAIN y <=> j \in DOMAIN x) /\ (j \in DOMAIN x => y[j] = x[j])

LEMMA PutRepresents ==
  ASSUME NEW m, NEW x, NEW y, NEW ml, Represents(m, x, ml), now \in Nat, NEW k, NEW e,
         NEW at, SameBut(y, x, {k}), Until(y, k) = at, k \in DOMAIN y => y[k] \in Nat
  PROVE  Represents(Put(m, k, e), y, Logical!With(ml, k, e, at))
<1> DEFINE p == Put(m, k, e)
           w == Logical!With(ml, k, e, at)
<1>1. DOMAIN p = DOMAIN m \cup {k} /\ DOMAIN w = DOMAIN ml \cup {k}
  BY DEF Put, Logical!With
<1>2. p[k] = e /\ w[k] = [entry |-> e, at |-> at]
  BY DEF Put, Logical!With
<1>3. \A j : j # k => (j \in DOMAIN m => p[j] = m[j]) /\ (j \in DOMAIN ml => w[j] = ml[j])
  BY DEF Put, Logical!With
<1> HIDE DEF p, w
<1>4. Shows(p, y, w, k)
  <2>1. k \in DOMAIN p /\ k \in DOMAIN w /\ w[k].at = at
    BY <1>1, <1>2
  <2>2. Alive(p, y, k) <=> Lasts(w, k)
    BY <2>1 DEF Alive, Lasts, Until
  <2> QED BY <1>2, <2>2 DEF Shows
<1>5. ASSUME NEW j, j # k PROVE Shows(p, y, w, j)
  BY <1>1, <1>3, <1>5, ShowsAlike DEF Represents, SameBut
<1> QED BY <1>4, <1>5 DEF Represents, p, w

LEMMA DropRepresents ==
  ASSUME NEW m, NEW x, NEW y, NEW ml, Represents(m, x, ml), NEW K, SameBut(y, x, K)
  PROVE  Represents(Drop(m, K), y, Logical!Without(ml, K))
<1> DEFINE p == Drop(m, K)
           w == Logical!Without(ml, K)
<1>1. DOMAIN p = DOMAIN m \ K /\ DOMAIN w = DOMAIN ml \ K
  BY DEF Drop, Logical!Without
<1>3. \A j : j \notin K => (j \in DOMAIN m => p[j] = m[j]) /\ (j \in DOMAIN ml => w[j] = ml[j])
  BY DEF Drop, Logical!Without
<1> HIDE DEF p, w
<1>4. ASSUME NEW j, j \in K PROVE Shows(p, y, w, j)
  BY <1>1, <1>4 DEF Shows, Alive, Lasts
<1>5. ASSUME NEW j, j \notin K PROVE Shows(p, y, w, j)
  BY <1>1, <1>3, <1>5, ShowsAlike DEF Represents, SameBut
<1> QED BY <1>4, <1>5 DEF Represents, p, w

\* A command that looks keys up and changes nothing else changes nothing.
LEMMA AnswerSays ==
  ASSUME IInv, NEW K, NEW r, Answer(K, r) PROVE Logical!Say(r) /\ now' = now
  BY LookupRepresents, FinishBecomes DEF Answer, Logical!Say

LEMMA LogicalTerms ==
  ASSUME IInv
  PROVE  \A k : /\ \A t : Logical!IsA(k, t) <=> Live(k) /\ kv[k].type = t
                /\ Live(k) => Logical!Data(k) = kv[k].data
                /\ Logical!Old(k) = OldText(k) /\ Logical!Refusal(k) = Refusal(k)
<1>1. \A k, t : Logical!IsA(k, t) <=> Live(k) /\ kv[k].type = t
  BY LogicalFacts DEF Logical!IsA
<1>2. \A k : Live(k) => Logical!Data(k) = kv[k].data
  BY LogicalFacts DEF Logical!Data
<1>3. \A k : Logical!Old(k) = OldText(k)
  BY <1>1, <1>2 DEF Logical!Old, OldText, IsString, Logical!Bulk, Bulk, Logical!Nil, Nil
<1>4. \A k : Logical!Refusal(k) = Refusal(k)
  BY LogicalFacts DEF Logical!Refusal, Refusal, Logical!WrongType, WrongType, Logical!Nil, Nil
<1> QED BY <1>1, <1>2, <1>3, <1>4

LEMMA GetRefines ==
  ASSUME IInv, NEW k \in Key, Get(k), Calls("GET", <<k>>) PROVE Logical!Reads
<1>1. Logical!Say(IF IsString(k) THEN Bulk(kv[k].data) ELSE Refusal(k)) /\ now' = now
  BY AnswerSays DEF Get
<1>2. Logical!Say(IF Logical!IsA(k, "string") THEN Logical!Old(k) ELSE Logical!Refusal(k))
  BY <1>1, LogicalTerms DEF IsString, OldText
<1> QED BY <1>1, <1>2 DEF Logical!Reads, Logical!Calls, Calls
LEMMA SameCardinality == ASSUME NEW S PROVE Logical!Cardinality(S) = Cardinality(S)
  BY DEF Logical!Cardinality, Cardinality

LEMMA LogicalDomain ==
  ASSUME IInv
  PROVE  /\ DOMAIN LogicalDb = {k \in DOMAIN kv : Live(k)} /\ DOMAIN kv \subseteq Key
         /\ \A K : {k \in K : Live(k)} = K \cap DOMAIN LogicalDb
<1>1. DOMAIN LogicalDb = {k \in DOMAIN kv : Live(k)}
  BY DEF LogicalDb
<1>2. \A k : Live(k) => k \in DOMAIN kv
  BY DEF Live
<1> QED BY <1>1, <1>2 DEF IInv, TypeOK, IsMap

\* Rounding up is rounding down of the negative.
LEMMA RoundsUp ==
  ASSUME NEW x \in Int, NEW t \in Int, NEW unit \in Nat \ {0}
  PROVE  (x - t + unit - 1) \div unit = -((t - x) \div unit)
<1> DEFINE q == (t - x) \div unit
           r == (t - x) % unit
<1>1. q \in Int /\ r \in 0 .. unit - 1 /\ t - x = unit * q + r
  OBVIOUS
<1> HIDE DEF q, r
<1>2. x - t + unit - 1 = unit * (-q) + (unit - 1 - r) /\ unit - 1 - r \in 0 .. unit - 1
  <2>1. unit * (-q) = -(unit * q) /\ unit * q \in Int
    BY <1>1
  <2> DEFINE u == unit * q
  <2>2. u \in Int /\ t - x = u + r /\ unit * (-q) = -u
    BY <1>1, <2>1
  <2> HIDE DEF u
  <2> QED BY <1>1, <2>2
<1>3. (x - t + unit - 1) \div unit = -q
  BY <1>1, <1>2
<1> QED BY <1>3 DEF q

LEMMA MGetRefines ==
  ASSUME IInv, NEW j \in Key, NEW k \in Key, MGet(<<j, k>>), Calls("MGET", <<j, k>>)
  PROVE  Logical!Reads
<1>1. [i \in DOMAIN <<j, k>> |-> OldText(<<j, k>>[i])] = <<OldText(j), OldText(k)>>
  OBVIOUS
<1>2. Logical!Say(Arr(<<OldText(j), OldText(k)>>)) /\ now' = now
  BY <1>1, AnswerSays DEF MGet
<1>3. Logical!Say(Logical!Arr(<<Logical!Old(j), Logical!Old(k)>>))
  BY <1>2, LogicalTerms DEF Arr, Logical!Arr
<1> QED BY <1>2, <1>3 DEF Logical!Reads, Logical!Calls, Calls

LEMMA LengthRefines ==
  ASSUME IInv, NEW k \in Key, NEW t \in {"string", "list"}, Length(k, t), Calls("LEN", <<k, t>>)
  PROVE  Logical!Reads
<1> DEFINE r == CASE Logical!IsA(k, t) -> Logical!Num(Len(Logical!Data(k)))
                  [] ~Logical!Has(k) -> Logical!Num(0)
                  [] OTHER -> Logical!WrongType
<1>1. (Logical!IsA(k, t) <=> Live(k) /\ kv[k].type = t) /\ (Logical!Has(k) <=> Live(k))
      /\ (Live(k) => Logical!Data(k) = kv[k].data)
  BY LogicalTerms, LogicalFacts
<1>2. Logical!Say(r) /\ now' = now
  <2>1. CASE ~Live(k)
    <3>1. r = Num(0)
      BY <1>1, <2>1 DEF Num, Logical!Num
    <3> QED BY <2>1, <3>1, AnswerSays DEF Length
  <2>2. CASE Live(k) /\ kv[k].type # t
    <3>1. r = WrongType
      BY <1>1, <2>2 DEF WrongType, Logical!WrongType
    <3> QED BY <2>2, <3>1, AnswerSays DEF Length
  <2>3. CASE Live(k) /\ kv[k].type = t
    <3>1. r = Num(Len(kv[k].data))
      BY <1>1, <2>3 DEF Num, Logical!Num
    <3> QED BY <2>3, <3>1, AnswerSays DEF Length
  <2> QED BY <2>1, <2>2, <2>3
<1> QED BY <1>2 DEF Logical!Reads, Logical!Calls, Calls

LEMMA ExistsRefines ==
  ASSUME IInv, NEW K \in SUBSET Key, Exists(K), Calls("EXISTS", <<K>>) PROVE Logical!Reads
<1>1. Logical!Say(Num(Cardinality(K \cap DOMAIN LogicalDb))) /\ now' = now
  BY AnswerSays, LogicalDomain DEF Exists
<1>2. Logical!Calls("EXISTS", <<K>>)
      /\ Logical!Say(Logical!Num(Cardinality(K \cap DOMAIN LogicalDb)))
  BY <1>1 DEF Logical!Calls, Calls, Num, Logical!Num
<1> QED BY <1>2, SameCardinality DEF Logical!Reads

LEMMA TypeRefines ==
  ASSUME IInv, NEW k \in Key, Type(k), Calls("TYPE", <<k>>) PROVE Logical!Reads
<1>1. Logical!Say(IF Live(k) THEN Bulk(kv[k].type) ELSE Bulk("none")) /\ now' = now
  BY AnswerSays DEF Type
<1>2. Logical!Say(Logical!Bulk(IF Logical!Has(k) THEN LogicalDb[k].entry.type ELSE "none"))
  BY <1>1, LogicalFacts DEF Bulk, Logical!Bulk
<1> QED BY <1>1, <1>2 DEF Logical!Reads, Logical!Calls, Calls

LEMMA KeysRefines == ASSUME IInv, Keys, Calls("KEYS", <<>>) PROVE Logical!Reads
<1>1. Logical!Say(Arr(DOMAIN LogicalDb)) /\ now' = now
  BY AnswerSays, LogicalDomain DEF Keys
<1> QED BY <1>1 DEF Logical!Reads, Logical!Calls, Calls, Arr, Logical!Arr

LEMMA TtlRefines ==
  ASSUME IInv, ConstantsAssumption, NEW k \in Key, NEW unit \in {1, Second}, Ttl(k, unit),
         Calls("TTL", <<k, unit>>)
  PROVE  Logical!Reads
<1> DEFINE c == -((now - Logical!Life(k)) \div unit)
           n == CASE ~Logical!Has(k) -> -2
                  [] Logical!Has(k) /\ Logical!Life(k) = Logical!Forever -> -1
                  [] OTHER -> c
<1>1. (Logical!Has(k) <=> Live(k))
      /\ (Logical!Life(k) = IF Live(k) THEN Until(expires, k) ELSE -1)
  BY LogicalFacts
<1>2. Logical!Say(Logical!Num(n)) /\ now' = now
  <2>1. CASE ~Live(k)
    <3>1. n = -2
      <4> HIDE DEF c
      <4> QED BY <1>1, <2>1
    <3> QED BY <2>1, <3>1, AnswerSays DEF Ttl, Num, Logical!Num
  <2>2. CASE Live(k) /\ k \notin DOMAIN expires
    <3>1. n = -1
      <4> HIDE DEF c
      <4> QED BY <1>1, <2>2 DEF Until, Logical!Forever
    <3> QED BY <2>2, <3>1, AnswerSays DEF Ttl, Num, Logical!Num
  <2>3. CASE Live(k) /\ k \in DOMAIN expires
    <3>1. expires[k] \in Nat /\ now \in Nat /\ unit \in Nat \ {0}
      BY <2>3 DEF IInv, TypeOK, IsMap, ConstantsAssumption
    <3>2. Logical!Life(k) = expires[k] /\ expires[k] # Logical!Forever
      BY <1>1, <2>3, <3>1 DEF Until, Logical!Forever
    <3>3. n = c
      <4> HIDE DEF c
      <4> QED BY <1>1, <2>3, <3>2
    <3>4. (expires[k] - now + unit - 1) \div unit = n
      BY <3>1, <3>2, <3>3, RoundsUp DEF c
    <3> HIDE DEF n
    <3> QED BY <2>3, <3>4, AnswerSays DEF Ttl, Num, Logical!Num
  <2> HIDE DEF n
  <2> QED BY <2>1, <2>2, <2>3
<1> QED BY <1>2 DEF Logical!Reads, Logical!Calls, Calls

LEMMA DbSizeRefines ==
  ASSUME IInv, ConstantsAssumption, DbSize, Calls("DBSIZE", <<>>) PROVE Logical!Reads
<1> DEFINE n == Cardinality(DOMAIN kv)
<1>1. DOMAIN LogicalDb \subseteq DOMAIN kv /\ DOMAIN kv \subseteq Key /\ IsFiniteSet(Key)
  BY LogicalDomain DEF ConstantsAssumption
<1>2. n \in Cardinality(DOMAIN LogicalDb) .. Cardinality(Key)
  BY <1>1, FS_Subset, FS_CardinalityType
<1>3. Logical!Say(Num(n)) /\ now' = now
  BY AnswerSays DEF DbSize
<1> HIDE DEF n
<1>4. Logical!Calls("DBSIZE", <<>>) /\ Logical!Say(Logical!Num(n))
  BY <1>3 DEF Logical!Calls, Calls, Num, Logical!Num
<1> QED BY <1>2, <1>4, SameCardinality DEF Logical!Reads

LEMMA RandomKeyRefines ==
  ASSUME IInv, RandomKey, Calls("RANDOMKEY", <<>>) PROVE Logical!Reads
<1>1. CASE DOMAIN kv = {} /\ Answer({}, Nil)
  <2>1. DOMAIN LogicalDb = {}
    BY <1>1, LogicalDomain
  <2>2. Logical!Say(Nil) /\ now' = now
    BY <1>1, AnswerSays
  <2> QED BY <2>1, <2>2 DEF Logical!Reads, Logical!Calls, Calls, Nil, Logical!Nil
<1>2. CASE \E k \in DOMAIN kv : Answer({}, Bulk(k))
  <2>1. PICK k \in Key : Answer({}, Bulk(k))
    BY <1>2, LogicalDomain
  <2>2. Logical!Say(Bulk(k)) /\ now' = now
    BY <2>1, AnswerSays
  <2> QED BY <2>2 DEF Logical!Reads, Logical!Calls, Calls, Bulk, Logical!Bulk
<1> QED BY <1>1, <1>2 DEF RandomKey------------------------------------------------------------------------------
LEMMA PutDeadlineIs ==
  ASSUME NEW x, NEW k, NEW t
  PROVE  SameBut(Put(x, k, t), x, {k}) /\ k \in DOMAIN Put(x, k, t) /\ Put(x, k, t)[k] = t
         /\ Until(Put(x, k, t), k) = t
  BY DEF SameBut, Put, Until

LEMMA DropDeadlinesIs ==
  ASSUME NEW x, NEW K
  PROVE  SameBut(Drop(x, K), x, K)
         /\ \A k \in K : k \notin DOMAIN Drop(x, K) /\ Until(Drop(x, K), k) = -1
  BY DEF SameBut, Drop, Until

\* A key that was looked up has the deadline its life has.
LEMMA LookupLife ==
  ASSUME IInv, NEW K, NEW k \in K
  PROVE  /\ Until(Expires(K), k) = Logical!Life(k)
         /\ k \in DOMAIN Expires(K) => Expires(K)[k] \in Nat
         /\ k \in DOMAIN Expires(K) => Live(k)
<1>1. k \in DOMAIN Expires(K) <=> (k \in DOMAIN expires /\ ~Expired(k))
  BY DEF Expires, Drop, Stale
<1>2. k \in DOMAIN Expires(K) => Expires(K)[k] = expires[k]
  BY DEF Expires, Drop
<1>3. k \in DOMAIN expires => k \in DOMAIN kv /\ expires[k] \in Nat
  BY DEF IInv, TypeOK, IsMap, ExpiresOnlyHeldKeys
<1>4. Logical!Life(k) = IF Live(k) THEN Until(expires, k) ELSE -1
  BY LogicalFacts
<1>5. k \in DOMAIN Expires(K) => Live(k)
  BY <1>1, <1>3 DEF Live
<1>6. Live(k) => (k \in DOMAIN Expires(K) <=> k \in DOMAIN expires)
  BY <1>1 DEF Live
<1>7. CASE k \in DOMAIN Expires(K)
  <2>1. Live(k) /\ k \in DOMAIN expires /\ Expires(K)[k] = expires[k]
    BY <1>1, <1>2, <1>5, <1>7
  <2> QED BY <1>3, <1>4, <1>7, <2>1 DEF Until
<1>8. CASE k \notin DOMAIN Expires(K)
  BY <1>4, <1>6, <1>8 DEF Until
<1> QED BY <1>2, <1>1, <1>3, <1>5, <1>7, <1>8

LEMMA LifeType ==
  ASSUME IInv, NEW k PROVE Logical!Life(k) \in Nat \cup {-1}
  BY LogicalFacts DEF IInv, TypeOK, IsMap, Until

LEMMA PutBecomes ==
  ASSUME IInv, NEW K, NEW k, NEW e, NEW y, NEW at, NEW r,
         SameBut(y, Expires(K), {k}), Until(y, k) = at, k \in DOMAIN y => y[k] \in Nat,
         Finish(Put(Kv(K), k, e), y, r)
  PROVE  Logical!Become(Logical!With(LogicalDb, k, e, at), r) /\ now' = now
<1>1. now \in Nat
  BY DEF IInv, TypeOK
<1>2. Represents(Put(Kv(K), k, e), y, Logical!With(LogicalDb, k, e, at))
  BY <1>1, LookupRepresents, PutRepresents
<1> QED BY <1>2, FinishBecomes

LEMMA DeadlineIs ==
  ASSUME NEW x, NEW k, NEW at \in Nat \cup {Undefined}
  PROVE  LET y == Deadline(x, k, at)
         IN  SameBut(y, x, {k}) /\ Until(y, k) = at /\ (k \in DOMAIN y => y[k] \in Nat)
<1>1. CASE at = Undefined
  BY <1>1, DropDeadlinesIs DEF Deadline, Undefined
<1>2. CASE at # Undefined
  BY <1>2, PutDeadlineIs DEF Deadline
<1> QED BY <1>1, <1>2

LEMMA StoreBecomes ==
  ASSUME IInv, NEW k, NEW s, NEW at \in Nat \cup {Undefined}, NEW r, Store(k, s, at, r)
  PROVE  Logical!Become(Logical!With(LogicalDb, k, Logical!Text(s), at), r) /\ now' = now
<1>1. Logical!Text(s) = Text(s)
  BY DEF Logical!Text, Text
<1> DEFINE y == Deadline(Expires({k}), k, at)
<1>2. SameBut(y, Expires({k}), {k}) /\ Until(y, k) = at /\ (k \in DOMAIN y => y[k] \in Nat)
  BY DeadlineIs
<1>3. Finish(Put(Kv({k}), k, Text(s)), y, r)
  BY DEF Store
<1> HIDE DEF y
<1> QED BY <1>1, <1>2, <1>3, PutBecomes

LEMMA EditBecomes ==
  ASSUME IInv, NEW k, NEW e, NEW r, Edit(k, e, r)
  PROVE  Logical!Become(Logical!With(LogicalDb, k, e, Logical!Life(k)), r) /\ now' = now
<1>1. SameBut(Expires({k}), Expires({k}), {k})
  BY DEF SameBut
<1>2. Until(Expires({k}), k) = Logical!Life(k)
      /\ (k \in DOMAIN Expires({k}) => Expires({k})[k] \in Nat)
  BY LookupLife
<1>3. Finish(Put(Kv({k}), k, e), Expires({k}), r)
  BY DEF Edit
<1> QED BY <1>1, <1>2, <1>3, PutBecomes

LEMMA SetRefines ==
  ASSUME IInv, NEW k \in Key, NEW a \in Atom, NEW cond \in {"always", "NX", "XX"},
         NEW get \in BOOLEAN, NEW keep \in BOOLEAN, NEW at \in SetTimes,
         Set(k, a, cond, get, keep, at), Calls("SET", <<k, a, cond, get, keep, at>>)
  PROVE  Logical!Overwrites
<1> DEFINE life == IF keep /\ at = Logical!Forever THEN Logical!Life(k) ELSE at
           r == IF get THEN Logical!Old(k) ELSE Logical!Ok
           ml == Logical!With(LogicalDb, k, Logical!Text(<<a>>), life)
<1>1. (Logical!Has(k) <=> Live(k)) /\ r = (IF get THEN OldText(k) ELSE Ok)
      /\ Logical!Text(<<a>>) = Text(<<a>>)
  BY LogicalFacts, LogicalTerms DEF Ok, Logical!Ok, Logical!Text, Text
<1>2. at \in Nat \cup {Undefined} /\ at \in Logical!Lives /\ Logical!Forever = Undefined
  BY DEF SetTimes, Times, Logical!Lives, Logical!Times, Logical!Forever, Undefined
<1>3. IF cond = "always" \/ (cond = "XX" <=> Logical!Has(k))
      THEN Logical!Become(ml, r) ELSE Logical!Say(Logical!Nil)
  <2>1. CASE (cond = "NX" /\ Live(k)) \/ (cond = "XX" /\ ~Live(k))
    <3>1. ~(cond = "always" \/ (cond = "XX" <=> Logical!Has(k)))
      BY <1>1, <2>1
    <3>2. Logical!Say(Nil)
      BY <2>1, AnswerSays DEF Set
    <3> QED BY <3>1, <3>2 DEF Nil, Logical!Nil
  <2>2. CASE ~((cond = "NX" /\ Live(k)) \/ (cond = "XX" /\ ~Live(k)))
    <3>1. cond = "always" \/ (cond = "XX" <=> Logical!Has(k))
      BY <1>1, <2>2
    <3> DEFINE y == IF at = Undefined /\ keep THEN Expires({k})
                    ELSE Deadline(Expires({k}), k, at)
    <3>2. Finish(Put(Kv({k}), k, Text(<<a>>)), y, r)
      BY <1>1, <2>2 DEF Set
    <3>3. SameBut(y, Expires({k}), {k}) /\ Until(y, k) = life
          /\ (k \in DOMAIN y => y[k] \in Nat)
      <4>1. CASE at = Undefined /\ keep
        BY <1>2, <4>1, LookupLife DEF SameBut
      <4>2. CASE ~(at = Undefined /\ keep)
        BY <1>2, <4>2, DeadlineIs
      <4> QED BY <4>1, <4>2
    <3> HIDE DEF y, life, r
    <3>4. Logical!Become(ml, r)
      BY <1>1, <3>2, <3>3, PutBecomes
    <3> QED BY <3>1, <3>4
  <2> QED BY <2>1, <2>2
<1>4. Logical!Calls("SET", <<k, a, cond, get, keep, at>>)
  <2>1. now' = now
    BY DEF Set, Answer, Finish
  <2> QED BY <2>1 DEF Logical!Calls, Calls
<1> HIDE DEF r
<1>5. /\ Logical!Calls("SET", <<k, a, cond, get, keep, at>>)
      /\ IF cond = "always" \/ (cond = "XX" <=> Logical!Has(k))
         THEN Logical!Become(Logical!With(LogicalDb, k, Logical!Text(<<a>>),
                IF keep /\ at = Logical!Forever THEN Logical!Life(k) ELSE at),
                IF get THEN Logical!Old(k) ELSE Logical!Ok)
         ELSE Logical!Say(Logical!Nil)
  BY <1>3, <1>4 DEF r
<1> QED BY <1>2, <1>5 DEF Logical!Overwrites

LEMMA SetRefusedRefines ==
  ASSUME IInv, NEW k \in Key, SetRefused, Calls("SET refused", <<k>>) PROVE Logical!Overwrites
<1>1. Logical!Calls("SET refused", <<k>>) /\ Logical!Say(Logical!BadValue)
  BY AnswerSays DEF SetRefused, Logical!Calls, Calls, BadValue, Logical!BadValue
<1> QED BY <1>1 DEF Logical!Overwrites

LEMMA SetNXRefines ==
  ASSUME IInv, NEW k \in Key, NEW a \in Atom, SetNX(k, a), Calls("SETNX", <<k, a>>)
  PROVE  Logical!Overwrites
<1>1. /\ Logical!Calls("SETNX", <<k, a>>)
      /\ IF Logical!Has(k) THEN Logical!Say(Logical!Num(0))
         ELSE Logical!Become(Logical!With(LogicalDb, k, Logical!Text(<<a>>), Logical!Forever),
                             Logical!Num(1))
  <2>1. CASE Live(k)
    BY <2>1, AnswerSays, LogicalFacts DEF SetNX, Logical!Calls, Calls, Num, Logical!Num
  <2>2. CASE ~Live(k)
    <3>1. Store(k, <<a>>, Undefined, Num(1)) /\ Undefined = Logical!Forever
      BY <2>2 DEF SetNX, Undefined, Logical!Forever
    <3>2. Logical!Become(Logical!With(LogicalDb, k, Logical!Text(<<a>>), Undefined), Num(1))
          /\ now' = now
      BY <3>1, StoreBecomes
    <3> QED BY <2>2, <3>1, <3>2, LogicalFacts DEF Logical!Calls, Calls, Num, Logical!Num
  <2> QED BY <2>1, <2>2
<1> QED BY <1>1 DEF Logical!Overwrites

LEMMA SetEXRefines ==
  ASSUME IInv, ConstantsAssumption, NEW k \in Key, NEW a \in Atom, NEW s \in Seconds,
         SetEX(k, a, s), Calls("SETEX", <<k, a, s>>)
  PROVE  Logical!Overwrites
<1>0. now \in Nat /\ s \in Int /\ Second \in Nat \ {0}
  BY DEF IInv, TypeOK, ConstantsAssumption
<1>1. /\ Logical!Calls("SETEX", <<k, a, s>>)
      /\ IF s > 0
         THEN Logical!Become(Logical!With(LogicalDb, k, Logical!Text(<<a>>), now + s * Second),
                             Logical!Ok)
         ELSE Logical!Say(Logical!BadValue)
  <2>1. CASE s <= 0
    <3>1. ~(s > 0)
      BY <1>0, <2>1
    <3> QED BY <2>1, <3>1, AnswerSays
            DEF SetEX, Logical!Calls, Calls, BadValue, Logical!BadValue
  <2>2. CASE ~(s <= 0)
    <3>1. s > 0
      BY <1>0, <2>2
    <3> DEFINE t == now + s * Second
    <3>2. t \in Nat \cup {Undefined}
      BY <1>0, <3>1, AfterIsTime
    <3>3. Store(k, <<a>>, t, Ok)
      BY <2>2 DEF SetEX
    <3> HIDE DEF t
    <3>4. Logical!Become(Logical!With(LogicalDb, k, Logical!Text(<<a>>), t), Ok) /\ now' = now
      BY <3>2, <3>3, StoreBecomes
    <3> QED BY <3>1, <3>4 DEF Logical!Calls, Calls, Ok, Logical!Ok, t
  <2> QED BY <2>1, <2>2
<1> QED BY <1>1 DEF Logical!Overwrites

LEMMA GetSetRefines ==
  ASSUME IInv, NEW k \in Key, NEW a \in Atom, GetSet(k, a), Calls("GETSET", <<k, a>>)
  PROVE  Logical!Overwrites
<1>1. (Logical!Has(k) <=> Live(k)) /\ (Logical!IsA(k, "string") <=> IsString(k))
      /\ Logical!Old(k) = OldText(k)
  BY LogicalFacts, LogicalTerms DEF IsString
<1>2. /\ Logical!Calls("GETSET", <<k, a>>)
      /\ IF Logical!Has(k) => Logical!IsA(k, "string")
         THEN Logical!Become(Logical!With(LogicalDb, k, Logical!Text(<<a>>), Logical!Forever),
                             Logical!Old(k))
         ELSE Logical!Say(Logical!WrongType)
  <2>1. CASE Live(k) /\ ~IsString(k)
    BY <1>1, <2>1, AnswerSays
       DEF GetSet, Logical!Calls, Calls, WrongType, Logical!WrongType
  <2>2. CASE ~(Live(k) /\ ~IsString(k))
    <3>1. Store(k, <<a>>, Undefined, OldText(k)) /\ Undefined = Logical!Forever
      BY <2>2 DEF GetSet, Undefined, Logical!Forever
    <3>2. Logical!Become(Logical!With(LogicalDb, k, Logical!Text(<<a>>), Undefined), OldText(k))
          /\ now' = now
      BY <3>1, StoreBecomes
    <3> QED BY <1>1, <2>2, <3>1, <3>2 DEF Logical!Calls, Calls
  <2> QED BY <2>1, <2>2
<1> QED BY <1>2 DEF Logical!Overwrites

LEMMA MSetRefines ==
  ASSUME IInv, NEW K \in SUBSET Key, NEW a \in Atom, MSet(K, a), Calls("MSET", <<K, a>>)
  PROVE  Logical!Overwrites
<1> DEFINE t == Text(<<a>>)
           m == [x \in DOMAIN kv \cup K |-> IF x \in K THEN t ELSE kv[x]]
           y == Drop(expires, K)
           ml == [x \in DOMAIN LogicalDb \cup K |->
                    IF x \in K THEN [entry |-> t, at |-> -1] ELSE LogicalDb[x]]
<1>1. ASSUME NEW j, j \in K PROVE Shows(m, y, ml, j)
  <2>1. j \in DOMAIN m /\ m[j] = t /\ j \in DOMAIN ml /\ ml[j] = [entry |-> t, at |-> -1]
    BY <1>1
  <2>2. j \notin DOMAIN y /\ Until(y, j) = -1
    BY <1>1, DropDeadlinesIs
  <2>3. ml[j].at = -1
    BY <2>1
  <2> HIDE DEF m, y, ml, t
  <2> QED BY <2>1, <2>2, <2>3 DEF Shows, Alive, Lasts
<1>2. ASSUME NEW j, j \notin K PROVE Shows(m, y, ml, j)
  <2>1. Shows(kv, expires, LogicalDb, j)
    BY LogicalFacts DEF Represents
  <2>2. /\ j \in DOMAIN m <=> j \in DOMAIN kv
        /\ j \in DOMAIN ml <=> j \in DOMAIN LogicalDb
        /\ j \in DOMAIN kv => m[j] = kv[j]
        /\ j \in DOMAIN LogicalDb => ml[j] = LogicalDb[j]
    BY <1>2
  <2>3. (j \in DOMAIN y <=> j \in DOMAIN expires) /\ (j \in DOMAIN expires => y[j] = expires[j])
    BY <1>2, DropDeadlinesIs DEF SameBut
  <2> HIDE DEF m, y, ml
  <2> QED BY <2>1, <2>2, <2>3, ShowsAlike
<1>3. Finish(m, y, Ok)
  BY DEF MSet
<1>4. ml = [x \in DOMAIN LogicalDb \cup K |->
              IF x \in K THEN [entry |-> Logical!Text(<<a>>), at |-> Logical!Forever]
              ELSE LogicalDb[x]]
  BY DEF Text, Logical!Text, Logical!Forever
<1> HIDE DEF m, y, ml
<1>5. Logical!Become(ml, Logical!Ok) /\ Logical!Calls("MSET", <<K, a>>)
  BY <1>1, <1>2, <1>3, FinishBecomes DEF Represents, Ok, Logical!Ok, Logical!Calls, Calls
<1> QED BY <1>4, <1>5 DEF Logical!Overwrites

LEMMA MSetNXRefines ==
  ASSUME IInv, NEW j \in Key, NEW k \in Key, NEW a \in Atom, MSetNX(j, k, a),
         Calls("MSETNX", <<j, k, a>>)
  PROVE  Logical!Overwrites
<1>1. (Logical!Has(j) <=> Live(j)) /\ (Logical!Has(k) <=> Live(k))
  BY LogicalFacts
<1>2. {j, k} \cap DOMAIN LogicalDb # {} <=> Live(j) \/ Live(k)
  BY <1>1 DEF Logical!Has
<1>3. /\ Logical!Calls("MSETNX", <<j, k, a>>)
      /\ IF {j, k} \cap DOMAIN LogicalDb # {} THEN Logical!Say(Logical!Num(0))
         ELSE Logical!Become(
                Logical!With(Logical!With(LogicalDb, j, Logical!Text(<<a>>), Logical!Forever),
                             k, Logical!Text(<<a>>), Logical!Forever), Logical!Num(1))
  <2>1. CASE Live(j) \/ Live(k)
    BY <1>2, <2>1, AnswerSays DEF MSetNX, Logical!Calls, Calls, Num, Logical!Num
  <2>2. CASE ~(Live(j) \/ Live(k))
    <3> DEFINE K == {j, k}
               t == Text(<<a>>)
               m1 == Put(Kv(K), j, t)
               y1 == Drop(Expires(K), {j})
               y2 == Drop(Expires(K), K)
               ml == Logical!With(LogicalDb, j, t, -1)
    <3>1. Finish(Put(m1, k, t), y2, Num(1))
      BY <2>2 DEF MSetNX
    <3>2. now \in Nat
      BY DEF IInv, TypeOK
    <3>3. SameBut(y1, Expires(K), {j}) /\ Until(y1, j) = -1 /\ j \notin DOMAIN y1
      BY DropDeadlinesIs
    <3>4. Represents(m1, y1, ml)
      <4>1. Represents(Kv(K), Expires(K), LogicalDb)
        BY LookupRepresents
      <4> HIDE DEF K, y1, t
      <4> QED BY <3>2, <3>3, <4>1, PutRepresents
    <3>5. SameBut(y2, y1, {k}) /\ Until(y2, k) = -1 /\ k \notin DOMAIN y2
      <4>1. Until(y2, k) = -1 /\ k \notin DOMAIN y2
        BY DropDeadlinesIs
      <4>2. SameBut(y2, y1, {k})
        BY DEF SameBut, Drop
      <4> QED BY <4>1, <4>2
    <3> HIDE DEF m1, y1, y2, ml, t
    <3>6. Represents(Put(m1, k, t), y2, Logical!With(ml, k, t, -1))
      BY <3>2, <3>4, <3>5, PutRepresents
    <3>7. Logical!Become(Logical!With(ml, k, t, -1), Num(1)) /\ now' = now
      BY <3>1, <3>6, FinishBecomes
    <3>8. t = Logical!Text(<<a>>) /\ Logical!Forever = -1 /\ Num(1) = Logical!Num(1)
      BY DEF t, Text, Logical!Text, Logical!Forever, Num, Logical!Num
    <3> QED BY <1>2, <2>2, <3>7, <3>8 DEF ml, Logical!Calls, Calls
  <2> QED BY <2>1, <2>2
<1> QED BY <1>3 DEF Logical!Overwrites
------------------------------------------------------------------------------
\* What the two modules make of an entry is the same.
LEMMA SameEdits ==
  ASSUME NEW e, NEW a, NEW side
  PROVE  /\ Logical!Appended(e, a) = Appended(e, a)
         /\ Logical!Pushed(e, a, side) = Pushed(e, a, side)
         /\ Logical!Popped(e, side) = Popped(e, side)
         /\ Logical!PopValue(e, side) = PopValue(e, side)
         /\ Logical!CanPush(e) <=> CanPush(e)
         /\ Logical!CanPop(e) <=> CanPop(e)
         /\ Logical!Items(<<>>) = NewList /\ Logical!Text(<<>>) = EmptyText
  BY DEF Logical!Appended, Appended, Logical!AsText, AsText, Logical!Pushed, Pushed,
         Logical!Holding, Holding, Logical!Popped, Popped, Logical!PopValue, PopValue,
         Logical!CanPush, CanPush, Logical!CanPop, CanPop, Logical!Items, Items, NewList,
         Logical!Text, Text, EmptyText

LEMMA AppendRefines ==
  ASSUME IInv, NEW k \in Key, NEW a \in Atom, AppendTo(k, a), Calls("APPEND", <<k, a>>)
  PROVE  Logical!Edits
<1> DEFINE e == Appended(IF Live(k) THEN kv[k] ELSE EmptyText, a)
           el == Logical!Appended(IF Logical!Has(k) THEN LogicalDb[k].entry
                                  ELSE Logical!Text(<<>>), a)
<1>1. e = el
  BY SameEdits, LogicalFacts
<1>2. Edit(k, e, Num(Len(e.data)))
  BY DEF AppendTo
<1> HIDE DEF e
<1>3. Logical!Become(Logical!With(LogicalDb, k, e, Logical!Life(k)), Num(Len(e.data)))
      /\ now' = now
  BY <1>2, EditBecomes
<1> HIDE DEF el
<1>4. Logical!Calls("APPEND", <<k, a>>)
      /\ Logical!Become(Logical!With(LogicalDb, k, el, Logical!Life(k)),
                        Logical!Num(Len(el.data)))
  BY <1>1, <1>3 DEF Logical!Calls, Calls, Num, Logical!Num
<1> QED BY <1>4 DEF Logical!Edits, el
LEMMA PushRefines ==
  ASSUME IInv, NEW k \in Key, NEW a \in Atom, NEW side \in Sides, Push(k, a, side),
         Calls("PUSH", <<k, a, side>>)
  PROVE  Logical!Edits
<1> DEFINE e == IF Live(k) THEN kv[k] ELSE NewList
           el == IF Logical!Has(k) THEN LogicalDb[k].entry ELSE Logical!Items(<<>>)
<1>1. e = el
  BY SameEdits, LogicalFacts
<1>2. IF CanPush(e) THEN Edit(k, Pushed(e, a, side), Num(Len(e.data) + 1))
      ELSE Answer({k}, Crash)
  BY DEF Push
<1> HIDE DEF e, el
<1>3. /\ Logical!Calls("PUSH", <<k, a, side>>)
      /\ IF Logical!CanPush(el)
         THEN Logical!Become(Logical!With(LogicalDb, k, Logical!Pushed(el, a, side),
                                          Logical!Life(k)), Logical!Num(Len(el.data) + 1))
         ELSE Logical!Say(Logical!Crash)
  <2>1. CASE CanPush(e)
    <3>1. Logical!Become(Logical!With(LogicalDb, k, Pushed(e, a, side), Logical!Life(k)),
                         Num(Len(e.data) + 1)) /\ now' = now
      BY <1>2, <2>1, EditBecomes
    <3> QED BY <1>1, <2>1, <3>1, SameEdits DEF Logical!Calls, Calls, Num, Logical!Num
  <2>2. CASE ~CanPush(e)
    <3>1. Logical!Say(Crash) /\ now' = now
      BY <1>2, <2>2, AnswerSays
    <3> QED BY <1>1, <2>2, <3>1, SameEdits DEF Logical!Calls, Calls, Crash, Logical!Crash
  <2> QED BY <2>1, <2>2
<1>4. side \in Logical!Sides
  BY DEF Sides, Logical!Sides
<1> QED BY <1>3, <1>4 DEF Logical!Edits, el

\* What POP and RPOPLPUSH find at the key they pop from.
LEMMA PoppableFacts ==
  ASSUME IInv, NEW k
  PROVE  /\ Logical!IsA(k, "list") <=> Live(k) /\ kv[k].type = "list"
         /\ Live(k) => Logical!Data(k) = kv[k].data /\ LogicalDb[k].entry = kv[k]
         /\ ~Logical!IsA(k, "list") => ListReply(k) = Logical!Refusal(k) /\ ~Poppable(k)
         /\ Logical!IsA(k, "list") /\ Logical!Data(k) = <<>>
            => ListReply(k) = Logical!Nil /\ ~Poppable(k)
         /\ Logical!IsA(k, "list") /\ Logical!Data(k) # <<>>
            => /\ Poppable(k) <=> Logical!CanPop(LogicalDb[k].entry)
               /\ ListReply(k) = Logical!Crash
<1>1. /\ Logical!IsA(k, "list") <=> Live(k) /\ kv[k].type = "list"
      /\ Live(k) => Logical!Data(k) = kv[k].data /\ LogicalDb[k].entry = kv[k]
      /\ Logical!Refusal(k) = Refusal(k)
  BY LogicalTerms, LogicalFacts
<1>2. ~Logical!IsA(k, "list") => ListReply(k) = Logical!Refusal(k) /\ ~Poppable(k)
  BY <1>1 DEF ListReply, Refusal, Poppable
<1>3. Logical!IsA(k, "list") /\ Logical!Data(k) = <<>>
      => ListReply(k) = Logical!Nil /\ ~Poppable(k)
  BY <1>1 DEF ListReply, Logical!Nil, Nil, Poppable
<1>4. Logical!IsA(k, "list") /\ Logical!Data(k) # <<>>
      => (Poppable(k) <=> Logical!CanPop(LogicalDb[k].entry)) /\ ListReply(k) = Logical!Crash
  BY <1>1, SameEdits DEF ListReply, Logical!Crash, Crash, Poppable
<1> QED BY <1>1, <1>2, <1>3, <1>4

LEMMA PopRefines ==
  ASSUME IInv, NEW k \in Key, NEW side \in Sides, Pop(k, side), Calls("POP", <<k, side>>)
  PROVE  Logical!Edits
<1> DEFINE el == LogicalDb[k].entry
<1>1. /\ Logical!Calls("POP", <<k, side>>)
      /\ CASE ~Logical!IsA(k, "list") -> Logical!Say(Logical!Refusal(k))
           [] Logical!IsA(k, "list") /\ Logical!Data(k) = <<>> -> Logical!Say(Logical!Nil)
           [] OTHER -> IF Logical!CanPop(el)
                       THEN Logical!Become(Logical!With(LogicalDb, k, Logical!Popped(el, side),
                                                        Logical!Life(k)),
                                           Logical!Bulk(Logical!PopValue(el, side)))
                       ELSE Logical!Say(Logical!Crash)
  <2>1. CASE Poppable(k)
    <3>1. Edit(k, Popped(kv[k], side), Bulk(PopValue(kv[k], side)))
      BY <2>1 DEF Pop
    <3>2. Logical!Become(Logical!With(LogicalDb, k, Popped(kv[k], side), Logical!Life(k)),
                         Bulk(PopValue(kv[k], side))) /\ now' = now
      BY <3>1, EditBecomes
    <3>3. Logical!IsA(k, "list") /\ Logical!Data(k) # <<>> /\ Logical!CanPop(el) /\ el = kv[k]
      BY <2>1, PoppableFacts DEF Poppable
    <3> HIDE DEF el
    <3> QED BY <3>2, <3>3, SameEdits DEF Logical!Calls, Calls, Bulk, Logical!Bulk
  <2>2. CASE ~Poppable(k)
    <3>1. Logical!Say(ListReply(k)) /\ now' = now
      BY <2>2, AnswerSays DEF Pop
    <3>2. Logical!Calls("POP", <<k, side>>)
      BY <3>1 DEF Logical!Calls, Calls
    <3> HIDE DEF el
    <3>3. CASE ~Logical!IsA(k, "list")
      BY <3>1, <3>2, <3>3, PoppableFacts
    <3>4. CASE Logical!IsA(k, "list") /\ Logical!Data(k) = <<>>
      BY <3>1, <3>2, <3>4, PoppableFacts
    <3>5. CASE Logical!IsA(k, "list") /\ Logical!Data(k) # <<>>
      BY <2>2, <3>1, <3>2, <3>5, PoppableFacts DEF el
    <3> QED BY <3>3, <3>4, <3>5
  <2> QED BY <2>1, <2>2
<1>2. side \in Logical!Sides
  BY DEF Sides, Logical!Sides
<1> QED BY <1>1, <1>2 DEF Logical!Edits

LEMMA RPopLPushRefines ==
  ASSUME IInv, NEW s \in Key, NEW d \in Key, RPopLPush(s, d), Calls("RPOPLPUSH", <<s, d>>)
  PROVE  Logical!Edits
<1> DEFINE el == LogicalDb[s].entry
           vl == Logical!PopValue(el, "right")
           ml == Logical!With(LogicalDb, s, Logical!Popped(el, "right"), Logical!Life(s))
           tl == IF d \in DOMAIN ml THEN ml[d].entry ELSE Logical!Items(<<>>)
           Popping == IF Logical!CanPush(tl)
                      THEN Logical!Become(Logical!With(ml, d, Logical!Pushed(tl, vl, "left"),
                                                       Logical!Life(d)), Logical!Bulk(vl))
                      ELSE Logical!Become(ml, Logical!Crash)
<1>1. Poppable(s) => Popping /\ now' = now
  <2> SUFFICES ASSUME Poppable(s) PROVE Popping /\ now' = now
    OBVIOUS
  <2> DEFINE K    == {s, d}
             v    == PopValue(kv[s], "right")
             m    == Put(Kv(K), s, Popped(kv[s], "right"))
             dest == IF d \in DOMAIN m THEN m[d] ELSE NewList
             x    == Expires(K)
  <2>1. /\ CanPush(dest) => Finish(Put(m, d, Pushed(dest, v, "left")), x, Bulk(v))
        /\ ~CanPush(dest) => Finish(m, x, Crash)
    BY DEF RPopLPush
  <2>2. Live(s) /\ el = kv[s] /\ v = vl /\ Logical!Popped(el, "right") = Popped(kv[s], "right")
    BY PoppableFacts, SameEdits DEF Poppable
  <2>3. now \in Nat
    BY DEF IInv, TypeOK
  <2>4. /\ SameBut(x, x, {s}) /\ SameBut(x, x, {d})
        /\ Until(x, s) = Logical!Life(s) /\ (s \in DOMAIN x => x[s] \in Nat)
        /\ Until(x, d) = Logical!Life(d) /\ (d \in DOMAIN x => x[d] \in Nat)
    BY LookupLife DEF SameBut
  <2>5. Represents(m, x, ml)
    <3>1. Represents(Kv(K), x, LogicalDb)
      BY LookupRepresents
    <3> DEFINE e == Popped(kv[s], "right")
    <3> HIDE DEF x, K, e, el
    <3>2. Represents(Put(Kv(K), s, e), x, Logical!With(LogicalDb, s, e, Logical!Life(s)))
      BY <2>3, <2>4, <3>1, PutRepresents
    <3> QED BY <2>2, <3>2 DEF e
  <2>6. dest = tl
    <3>1. CASE d = s
      <4>1. d \in DOMAIN m /\ m[d] = Popped(kv[s], "right")
        BY <3>1 DEF Put
      <4>2. d \in DOMAIN ml /\ ml[d].entry = Logical!Popped(el, "right")
        BY <3>1 DEF Logical!With
      <4> HIDE DEF m, ml, el
      <4> QED BY <2>2, <4>1, <4>2
    <3>2. CASE d # s
      <4>1. d \in DOMAIN m <=> Live(d)
        BY <3>2 DEF Put, Kv, Drop, Live, Stale, Expired
      <4>2. Live(d) => m[d] = kv[d]
        BY <3>2 DEF Put, Kv, Drop, Live, Stale, Expired
      <4>3. d \in DOMAIN ml <=> Live(d)
        BY <3>2, LogicalFacts DEF Logical!With, Logical!Has
      <4>4. Live(d) => ml[d].entry = kv[d]
        <5>1. d \in DOMAIN LogicalDb => ml[d] = LogicalDb[d]
          BY <3>2 DEF Logical!With
        <5> HIDE DEF ml
        <5> QED BY <5>1, LogicalFacts DEF Logical!Has
      <4> HIDE DEF m, ml
      <4> QED BY <4>1, <4>2, <4>3, <4>4, SameEdits
    <3> QED BY <3>1, <3>2
  <2> HIDE DEF m, x, ml, dest, tl, K, v, vl
  <2>7. CASE CanPush(dest)
    <3> DEFINE p == Pushed(dest, v, "left")
    <3>1. Represents(Put(m, d, p), x, Logical!With(ml, d, p, Logical!Life(d)))
      BY <2>3, <2>4, <2>5, PutRepresents
    <3>2. Logical!Become(Logical!With(ml, d, p, Logical!Life(d)), Bulk(v)) /\ now' = now
      BY <2>1, <2>7, <3>1, FinishBecomes
    <3>3. p = Logical!Pushed(tl, vl, "left") /\ Bulk(v) = Logical!Bulk(vl) /\ Logical!CanPush(tl)
      BY <2>2, <2>6, <2>7, SameEdits DEF Bulk, Logical!Bulk
    <3> HIDE DEF p
    <3> QED BY <3>2, <3>3
  <2>8. CASE ~CanPush(dest)
    <3>1. Logical!Become(ml, Crash) /\ now' = now
      BY <2>1, <2>5, <2>8, FinishBecomes
    <3> QED BY <2>6, <2>8, <3>1, SameEdits DEF Crash, Logical!Crash
  <2> QED BY <2>7, <2>8
<1>2. ~Poppable(s) => Logical!Say(ListReply(s)) /\ now' = now
  BY AnswerSays DEF RPopLPush
<1>3. Logical!Calls("RPOPLPUSH", <<s, d>>)
  BY <1>1, <1>2 DEF Logical!Calls, Calls
<1> HIDE DEF Popping
<1>4. (CASE ~Logical!IsA(s, "list") -> Logical!Say(Logical!Refusal(s))
         [] Logical!IsA(s, "list") /\ Logical!Data(s) = <<>> -> Logical!Say(Logical!Nil)
         [] OTHER -> IF ~Logical!CanPop(el) THEN Logical!Say(Logical!Crash) ELSE Popping)
  <2>1. CASE ~Logical!IsA(s, "list")
    BY <1>2, <2>1, PoppableFacts
  <2>2. CASE Logical!IsA(s, "list") /\ Logical!Data(s) = <<>>
    BY <1>2, <2>2, PoppableFacts
  <2>3. CASE Logical!IsA(s, "list") /\ Logical!Data(s) # <<>>
    BY <1>1, <1>2, <2>3, PoppableFacts
  <2> QED BY <2>1, <2>2, <2>3
<1> QED BY <1>3, <1>4 DEF Logical!Edits, Popping------------------------------------------------------------------------------
LEMMA DelRefines ==
  ASSUME IInv, NEW K \in SUBSET Key, Del(K), Calls("DEL", <<K>>) PROVE Logical!Removals
<1>1. Represents(Drop(kv, K), Drop(expires, K), Logical!Without(LogicalDb, K))
  BY LogicalFacts, DropRepresents, DropDeadlinesIs
<1>2. Finish(Drop(kv, K), Drop(expires, K), Num(Cardinality(K \cap DOMAIN LogicalDb)))
  BY LogicalDomain DEF Del
<1>3. Logical!Become(Logical!Without(LogicalDb, K), Num(Cardinality(K \cap DOMAIN LogicalDb)))
      /\ now' = now
  BY <1>1, <1>2, FinishBecomes
<1>4. Logical!Calls("DEL", <<K>>)
      /\ Logical!Become(Logical!Without(LogicalDb, K),
                        Logical!Num(Logical!Cardinality(K \cap DOMAIN LogicalDb)))
  BY <1>3, SameCardinality DEF Logical!Calls, Calls, Num, Logical!Num
<1> QED BY <1>4 DEF Logical!Removals

LEMMA RemoveBecomes ==
  ASSUME IInv, NEW K, NEW k, NEW r, Remove(K, k, r)
  PROVE  Logical!Become(Logical!Without(LogicalDb, {k}), r) /\ now' = now
<1>1. Represents(Drop(Kv(K), {k}), Drop(Expires(K), {k}), Logical!Without(LogicalDb, {k}))
  BY LookupRepresents, DropRepresents, DropDeadlinesIs
<1> QED BY <1>1, FinishBecomes DEF Remove

LEMMA GetDelRefines ==
  ASSUME IInv, NEW k \in Key, GetDel(k), Calls("GETDEL", <<k>>) PROVE Logical!Removals
<1>1. (Logical!IsA(k, "string") <=> IsString(k)) /\ Logical!Old(k) = OldText(k)
      /\ Logical!Refusal(k) = Refusal(k)
  BY LogicalTerms DEF IsString
<1>2. /\ Logical!Calls("GETDEL", <<k>>)
      /\ IF Logical!IsA(k, "string")
         THEN Logical!Become(Logical!Without(LogicalDb, {k}), Logical!Old(k))
         ELSE Logical!Say(Logical!Refusal(k))
  <2>1. CASE IsString(k)
    <3>1. Remove({k}, k, OldText(k))
      BY <2>1 DEF GetDel, OldText
    <3>2. Logical!Become(Logical!Without(LogicalDb, {k}), OldText(k)) /\ now' = now
      BY <3>1, RemoveBecomes
    <3> QED BY <1>1, <2>1, <3>2 DEF Logical!Calls, Calls
  <2>2. CASE ~IsString(k)
    <3>1. Logical!Say(Refusal(k)) /\ now' = now
      BY <2>2, AnswerSays DEF GetDel
    <3> QED BY <1>1, <2>2, <3>1 DEF Logical!Calls, Calls
  <2> QED BY <2>1, <2>2
<1> QED BY <1>2 DEF Logical!Removals

LEMMA FlushDbRefines == ASSUME IInv, FlushDb, Calls("FLUSHDB", <<>>) PROVE Logical!Removals
<1> DEFINE ml == Logical!Without(LogicalDb, Key)
<1>1. DOMAIN LogicalDb \subseteq Key
  BY LogicalDomain
<1>2. DOMAIN ml = {}
  BY <1>1 DEF Logical!Without
<1>3. DOMAIN EmptyMap = {}
  BY DEF EmptyMap
<1> HIDE DEF ml
<1>4. Represents(EmptyMap, EmptyMap, ml)
  BY <1>2, <1>3 DEF Represents, Shows, Alive, Lasts
<1>5. Logical!Become(ml, Ok) /\ now' = now
  BY <1>4, FinishBecomes DEF FlushDb
<1>6. Logical!Calls("FLUSHDB", <<>>) /\ Logical!Become(ml, Logical!Ok)
  BY <1>5 DEF Logical!Calls, Calls, Ok, Logical!Ok
<1> QED BY <1>6 DEF Logical!Removals, ml

\* The destination is written, then the source goes.
LEMMA MovedBecomes ==
  ASSUME IInv, NEW s, NEW d, Live(s), NEW m, NEW x, NEW r, Represents(m, x, LogicalDb),
         s \in DOMAIN x <=> s \in DOMAIN expires, s \in DOMAIN x => x[s] = expires[s],
         Moved(s, d, m, x, r)
  PROVE  Logical!Become(
           Logical!Without(Logical!With(LogicalDb, d, LogicalDb[s].entry, Logical!Life(s)), {s}), r)
         /\ now' = now
<1> DEFINE y  == IF s \in DOMAIN x THEN Put(x, d, x[s]) ELSE Drop(x, {d})
           at == Logical!Life(s)
           ml == Logical!With(LogicalDb, d, kv[s], at)
           p  == Put(m, d, kv[s])
<1>1. now \in Nat /\ (s \in DOMAIN x => x[s] \in Nat)
  BY DEF IInv, TypeOK, IsMap
<1>2. at = Until(expires, s) /\ LogicalDb[s].entry = kv[s]
  BY LogicalFacts
<1>3. SameBut(y, x, {d}) /\ Until(y, d) = at /\ (d \in DOMAIN y => y[d] \in Nat)
  <2>1. CASE s \in DOMAIN x
    <3>1. SameBut(Put(x, d, x[s]), x, {d}) /\ Until(Put(x, d, x[s]), d) = x[s]
          /\ Put(x, d, x[s])[d] = x[s]
      BY PutDeadlineIs
    <3>2. at = x[s]
      BY <1>2, <2>1 DEF Until
    <3> HIDE DEF at
    <3> QED BY <1>1, <2>1, <3>1, <3>2
  <2>2. CASE s \notin DOMAIN x
    <3>1. at = -1
      BY <1>2, <2>2 DEF Until
    <3> HIDE DEF at
    <3> QED BY <2>2, <3>1, DropDeadlinesIs
  <2> QED BY <2>1, <2>2
<1> HIDE DEF y, at
<1>4. Represents(p, y, ml)
  BY <1>1, <1>3, PutRepresents
<1> HIDE DEF p, ml
<1>5. Represents(Drop(p, {s}), Drop(y, {s}), Logical!Without(ml, {s}))
  BY <1>4, DropRepresents, DropDeadlinesIs
<1>6. Finish(Drop(p, {s}), Drop(y, {s}), r)
  BY DEF Moved, p, y
<1>7. Logical!Become(Logical!Without(ml, {s}), r) /\ now' = now
  BY <1>5, <1>6, FinishBecomes
<1> QED BY <1>2, <1>7 DEF ml, at

LEMMA RenameRefines ==
  ASSUME IInv, NEW s \in Key, NEW d \in Key, Rename(s, d), Calls("RENAME", <<s, d>>)
  PROVE  Logical!Removals
<1>1. /\ Logical!Calls("RENAME", <<s, d>>)
      /\ IF Logical!Has(s)
         THEN Logical!Become(Logical!Without(
                Logical!With(LogicalDb, d, LogicalDb[s].entry, Logical!Life(s)), {s}), Logical!Ok)
         ELSE Logical!Say(Logical!NoSuchKey)
  <2>1. CASE Live(s)
    <3>1. Moved(s, d, kv, expires, Ok)
      BY <2>1 DEF Rename
    <3>2. Logical!Become(Logical!Without(
            Logical!With(LogicalDb, d, LogicalDb[s].entry, Logical!Life(s)), {s}), Ok)
          /\ now' = now
      BY <2>1, <3>1, LogicalFacts, MovedBecomes
    <3> QED BY <2>1, <3>2, LogicalFacts DEF Logical!Calls, Calls, Ok, Logical!Ok
  <2>2. CASE ~Live(s)
    BY <2>2, AnswerSays, LogicalFacts
       DEF Rename, Logical!Calls, Calls, NoSuchKey, Logical!NoSuchKey
  <2> QED BY <2>1, <2>2
<1> QED BY <1>1 DEF Logical!Removals

LEMMA RenameNXRefines ==
  ASSUME IInv, NEW s \in Key, NEW d \in Key, RenameNX(s, d), Calls("RENAMENX", <<s, d>>)
  PROVE  Logical!Removals
<1>0. (Logical!Has(s) <=> Live(s)) /\ (Logical!Has(d) <=> Live(d))
  BY LogicalFacts
<1>1. /\ Logical!Calls("RENAMENX", <<s, d>>)
      /\ IF ~Logical!Has(s) THEN Logical!Say(Logical!NoSuchKey)
         ELSE IF Logical!Has(d) THEN Logical!Say(Logical!Num(0))
         ELSE Logical!Become(Logical!Without(
                Logical!With(LogicalDb, d, LogicalDb[s].entry, Logical!Life(s)), {s}),
                Logical!Num(1))
  <2>1. CASE ~Live(s)
    BY <1>0, <2>1, AnswerSays DEF RenameNX, Logical!Calls, Calls, NoSuchKey, Logical!NoSuchKey
  <2>2. CASE Live(s) /\ Live(d)
    BY <1>0, <2>2, AnswerSays DEF RenameNX, Logical!Calls, Calls, Num, Logical!Num
  <2>3. CASE Live(s) /\ ~Live(d)
    <3>1. Moved(s, d, Kv({d}), Expires({d}), Num(1))
      BY <2>3 DEF RenameNX
    <3>2. /\ s \in DOMAIN Expires({d}) <=> s \in DOMAIN expires
          /\ s \in DOMAIN Expires({d}) => Expires({d})[s] = expires[s]
      BY <2>3 DEF Expires, Drop
    <3>3. Logical!Become(Logical!Without(
            Logical!With(LogicalDb, d, LogicalDb[s].entry, Logical!Life(s)), {s}), Num(1))
          /\ now' = now
      BY <2>3, <3>1, <3>2, LookupRepresents, MovedBecomes
    <3> QED BY <1>0, <2>3, <3>3 DEF Logical!Calls, Calls, Num, Logical!Num
  <2> QED BY <2>1, <2>2, <2>3
<1> QED BY <1>1 DEF Logical!Removals------------------------------------------------------------------------------
\* A live key gets a deadline, loses it, or is killed.
LEMMA SetDeadlineBecomes ==
  ASSUME IInv, NEW k, Live(k), NEW t \in Nat, NEW r, Finish(kv, Put(expires, k, t), r)
  PROVE  Logical!Become(Logical!With(LogicalDb, k, LogicalDb[k].entry, t), r) /\ now' = now
<1>1. now \in Nat
  BY DEF IInv, TypeOK
<1>2. kv = Put(kv, k, kv[k]) /\ LogicalDb[k].entry = kv[k]
  <2>1. kv = [x \in DOMAIN kv |-> kv[x]]
    BY DEF IInv, TypeOK, IsMap
  <2> QED BY <2>1, LogicalFacts DEF Put, Live
<1>3. Represents(Put(kv, k, kv[k]), Put(expires, k, t), Logical!With(LogicalDb, k, kv[k], t))
  BY <1>1, LogicalFacts, PutDeadlineIs, PutRepresents
<1> QED BY <1>2, <1>3, FinishBecomes

LEMMA DropDeadlineBecomes ==
  ASSUME IInv, NEW k, Live(k), NEW r, Finish(kv, Drop(expires, {k}), r)
  PROVE  Logical!Become(Logical!With(LogicalDb, k, LogicalDb[k].entry, -1), r) /\ now' = now
<1>1. now \in Nat
  BY DEF IInv, TypeOK
<1>2. kv = Put(kv, k, kv[k]) /\ LogicalDb[k].entry = kv[k]
  <2>1. kv = [x \in DOMAIN kv |-> kv[x]]
    BY DEF IInv, TypeOK, IsMap
  <2> QED BY <2>1, LogicalFacts DEF Put, Live
<1>3. Represents(Put(kv, k, kv[k]), Drop(expires, {k}), Logical!With(LogicalDb, k, kv[k], -1))
  BY <1>1, LogicalFacts, DropDeadlinesIs, PutRepresents
<1> QED BY <1>2, <1>3, FinishBecomes

LEMMA KillBecomes ==
  ASSUME IInv, NEW k, NEW e, NEW m, NEW x, NEW r, Represents(m, x, LogicalDb),
         kv' = Drop(m, {k}), expires' = Drop(x, {k}), reply' = r, now' = now
  PROVE  Logical!Become(Logical!With(LogicalDb, k, e, now), r)
<1> DEFINE p == Drop(m, {k})
           y == Drop(x, {k})
           w == Logical!With(LogicalDb, k, e, now)
<1>1. now \in Nat
  BY DEF IInv, TypeOK
<1>2. Shows(p, y, w, k)
  <2>1. k \notin DOMAIN p
    BY DEF Drop
  <2>2. k \in DOMAIN w /\ w[k] = [entry |-> e, at |-> now]
    BY DEF Logical!With
  <2>3. w[k].at = now
    BY <2>2
  <2> HIDE DEF p, y, w
  <2> QED BY <1>1, <2>1, <2>2, <2>3 DEF Shows, Alive, Lasts
<1>3. ASSUME NEW j, j # k PROVE Shows(p, y, w, j)
  <2>1. Shows(m, x, LogicalDb, j)
    BY DEF Represents
  <2>2. /\ j \in DOMAIN p <=> j \in DOMAIN m
        /\ j \in DOMAIN m => p[j] = m[j]
        /\ j \in DOMAIN y <=> j \in DOMAIN x
        /\ j \in DOMAIN x => y[j] = x[j]
    BY <1>3 DEF Drop
  <2>3. /\ j \in DOMAIN w <=> j \in DOMAIN LogicalDb
        /\ j \in DOMAIN LogicalDb => w[j] = LogicalDb[j]
    BY <1>3 DEF Logical!With
  <2> HIDE DEF p, y, w
  <2> QED BY <2>1, <2>2, <2>3, ShowsAlike
<1>4. Represents(p, y, w)
  BY <1>2, <1>3 DEF Represents
<1> QED BY <1>4, EndBecomes

LEMMA ExpireRefines ==
  ASSUME IInv, ConstantsAssumption, NEW k \in Key, NEW s \in Seconds, Expire(k, s),
         Calls("EXPIRE", <<k, s>>)
  PROVE  Logical!Lifetimes
<1>0. now \in Nat /\ s \in Int /\ Second \in Nat \ {0}
  BY DEF IInv, TypeOK, ConstantsAssumption
<1>1. Logical!Calls("EXPIRE", <<k, s>>)
      /\ Logical!LiveUntil(k, Logical!After(s * Second), Logical!Num(1), Logical!Num(0))
  <2>1. CASE ~Live(k)
    BY <2>1, AnswerSays, LogicalFacts
       DEF Expire, Logical!LiveUntil, Logical!Calls, Calls, Num, Logical!Num
  <2>2. CASE Live(k) /\ s <= 0
    <3>1. s * Second \in Int /\ ~(s * Second > 0)
      BY <1>0, <2>2
    <3>2. Logical!After(s * Second) = now
      BY <1>0, <3>1 DEF Logical!After
    <3>3. kv' = Drop(kv, {k}) /\ expires' = Drop(expires, {k}) /\ reply' = Num(1) /\ now' = now
      BY <2>2 DEF Expire
    <3>4. Logical!Become(Logical!With(LogicalDb, k, LogicalDb[k].entry, now), Num(1))
      BY <3>3, LogicalFacts, KillBecomes
    <3> QED BY <2>2, <3>2, <3>3, <3>4, LogicalFacts
            DEF Logical!LiveUntil, Logical!Calls, Calls, Num, Logical!Num
  <2>3. CASE Live(k) /\ ~(s <= 0)
    <3> DEFINE t == now + s * Second
    <3>1. s * Second \in Int /\ s * Second > 0 /\ t \in Nat
      BY <1>0, <2>3, AfterIsTime
    <3>2. Logical!After(s * Second) = t
      BY <1>0, <3>1 DEF Logical!After
    <3>3. Finish(kv, Put(expires, k, t), Num(1))
      BY <2>3 DEF Expire
    <3> HIDE DEF t
    <3>4. Logical!Become(Logical!With(LogicalDb, k, LogicalDb[k].entry, t), Num(1)) /\ now' = now
      BY <2>3, <3>1, <3>3, SetDeadlineBecomes
    <3> QED BY <2>3, <3>2, <3>4, LogicalFacts
            DEF Logical!LiveUntil, Logical!Calls, Calls, Num, Logical!Num
  <2> QED BY <2>1, <2>2, <2>3
<1> QED BY <1>1 DEF Logical!Lifetimes

LEMMA PExpireRefines ==
  ASSUME IInv, ConstantsAssumption, NEW k \in Key, NEW ms \in Millis, PExpire(k, ms),
         Calls("PEXPIRE", <<k, ms>>)
  PROVE  Logical!Lifetimes
<1>0. now \in Nat /\ ms \in Int
  BY DEF IInv, TypeOK, ConstantsAssumption
<1>1. Logical!Calls("PEXPIRE", <<k, ms>>)
      /\ Logical!LiveUntil(k, Logical!After(ms), Logical!Num(1), Logical!Num(0))
  <2>1. CASE ~Live(k)
    BY <2>1, AnswerSays, LogicalFacts
       DEF PExpire, Logical!LiveUntil, Logical!Calls, Calls, Num, Logical!Num
  <2>2. CASE Live(k) /\ ms <= 0
    <3>1. Logical!After(ms) = now
      BY <1>0, <2>2 DEF Logical!After
    <3>2. Finish(Drop(Kv({k}), {k}), Drop(Expires({k}), {k}), Num(1))
      BY <2>2 DEF PExpire, Remove
    <3>3. Logical!Become(Logical!With(LogicalDb, k, LogicalDb[k].entry, now), Num(1)) /\ now' = now
      BY <3>2, LookupRepresents, KillBecomes DEF Finish
    <3> QED BY <2>2, <3>1, <3>3, LogicalFacts
            DEF Logical!LiveUntil, Logical!Calls, Calls, Num, Logical!Num
  <2>3. CASE Live(k) /\ ~(ms <= 0)
    <3> DEFINE t == now + ms
    <3>1. t \in Nat /\ Logical!After(ms) = t
      BY <1>0, <2>3 DEF Logical!After
    <3>2. Finish(kv, Put(expires, k, t), Num(1))
      BY <2>3 DEF PExpire
    <3> HIDE DEF t
    <3>3. Logical!Become(Logical!With(LogicalDb, k, LogicalDb[k].entry, t), Num(1)) /\ now' = now
      BY <2>3, <3>1, <3>2, SetDeadlineBecomes
    <3> QED BY <2>3, <3>1, <3>3, LogicalFacts
            DEF Logical!LiveUntil, Logical!Calls, Calls, Num, Logical!Num
  <2> QED BY <2>1, <2>2, <2>3
<1> QED BY <1>1 DEF Logical!Lifetimes

LEMMA ExpireAtRefines ==
  ASSUME IInv, NEW k \in Key, NEW t \in Times, ExpireAt(k, t), Calls("EXPIREAT", <<k, t>>)
  PROVE  Logical!Lifetimes
<1>1. t \in Nat /\ t \in Logical!Times
  BY DEF Times, Logical!Times
<1>2. Logical!Calls("EXPIREAT", <<k, t>>)
      /\ Logical!LiveUntil(k, t, Logical!Num(1), Logical!Num(0))
  <2>1. CASE ~Live(k)
    BY <2>1, AnswerSays, LogicalFacts
       DEF ExpireAt, Logical!LiveUntil, Logical!Calls, Calls, Num, Logical!Num
  <2>2. CASE Live(k)
    <3>1. Logical!Become(Logical!With(LogicalDb, k, LogicalDb[k].entry, t), Num(1)) /\ now' = now
      BY <1>1, <2>2, SetDeadlineBecomes DEF ExpireAt
    <3> QED BY <2>2, <3>1, LogicalFacts
            DEF Logical!LiveUntil, Logical!Calls, Calls, Num, Logical!Num
  <2> QED BY <2>1, <2>2
<1> QED BY <1>1, <1>2 DEF Logical!Lifetimes

\* A key that has no deadline is left as it is when it is to have none.
LEMMA NoDeadlineBecomes ==
  ASSUME IInv, NEW k, Live(k), k \notin DOMAIN expires, NEW r, Answer({k}, r)
  PROVE  Logical!Become(Logical!With(LogicalDb, k, LogicalDb[k].entry, -1), r) /\ now' = now
<1> DEFINE w == Logical!With(LogicalDb, k, LogicalDb[k].entry, -1)
<1>1. k \in DOMAIN LogicalDb /\ LogicalDb[k] = [entry |-> LogicalDb[k].entry, at |-> -1]
  BY DEF LogicalDb, Live
<1>2. LogicalDb = [x \in DOMAIN LogicalDb |-> LogicalDb[x]]
  BY DEF LogicalDb
<1>3. w = LogicalDb
  BY <1>1, <1>2 DEF Logical!With
<1>4. Logical!Say(r) /\ now' = now
  BY AnswerSays
<1> QED BY <1>3, <1>4 DEF Logical!Say

LEMMA PersistRefines ==
  ASSUME IInv, NEW k \in Key, Persist(k), Calls("PERSIST", <<k>>) PROVE Logical!Lifetimes
<1> DEFINE r == Logical!Num(IF Logical!Life(k) = Logical!Forever THEN 0 ELSE 1)
<1>1. (Logical!Has(k) <=> Live(k)) /\ Logical!Forever = -1 /\ Logical!Num(0) = Num(0)
  BY LogicalFacts DEF Logical!Forever, Num, Logical!Num
<1>2. Logical!LiveUntil(k, Logical!Forever, r, Logical!Num(0)) /\ now' = now
  <2>1. CASE ~Live(k)
    BY <1>1, <2>1, AnswerSays DEF Persist, Logical!LiveUntil
  <2>2. CASE Live(k) /\ k \in DOMAIN expires
    <3>1. Logical!Life(k) = expires[k] /\ expires[k] \in Nat
      BY <2>2, LogicalFacts DEF Until, IInv, TypeOK, IsMap
    <3>2. r = Num(1)
      BY <1>1, <3>1 DEF Num, Logical!Num
    <3>3. Logical!Become(Logical!With(LogicalDb, k, LogicalDb[k].entry, -1), Num(1)) /\ now' = now
      BY <2>2, DropDeadlineBecomes DEF Persist
    <3> HIDE DEF r
    <3> QED BY <1>1, <2>2, <3>2, <3>3 DEF Logical!LiveUntil
  <2>3. CASE Live(k) /\ k \notin DOMAIN expires
    <3>1. Logical!Life(k) = -1
      BY <2>3, LogicalFacts DEF Until
    <3>2. r = Num(0)
      BY <1>1, <3>1
    <3>3. Logical!Become(Logical!With(LogicalDb, k, LogicalDb[k].entry, -1), Num(0)) /\ now' = now
      BY <2>3, NoDeadlineBecomes DEF Persist
    <3> HIDE DEF r
    <3> QED BY <1>1, <2>3, <3>2, <3>3 DEF Logical!LiveUntil
  <2> QED BY <2>1, <2>2, <2>3
<1>3. Logical!Calls("PERSIST", <<k>>)
  BY <1>2 DEF Logical!Calls, Calls
<1> QED BY <1>2, <1>3 DEF Logical!Lifetimes

LEMMA GetExPersistRefines ==
  ASSUME IInv, NEW k \in Key, GetExPersist(k), Calls("GETEX PERSIST", <<k>>)
  PROVE  Logical!Lifetimes
<1>1. (Logical!IsA(k, "string") <=> IsString(k)) /\ Logical!Old(k) = OldText(k)
      /\ Logical!Refusal(k) = Refusal(k) /\ (Logical!Has(k) <=> Live(k)) /\ Logical!Forever = -1
  BY LogicalTerms, LogicalFacts DEF IsString, Logical!Forever
<1>2. /\ Logical!Calls("GETEX PERSIST", <<k>>)
      /\ IF Logical!IsA(k, "string")
         THEN Logical!LiveUntil(k, Logical!Forever, Logical!Old(k), Logical!Nil)
         ELSE Logical!Say(Logical!Refusal(k))
  <2>1. CASE IsString(k)
    <3>1. Live(k) /\ Finish(kv, Drop(expires, {k}), OldText(k))
      BY <2>1 DEF GetExPersist, OldText, IsString
    <3>2. Logical!Become(Logical!With(LogicalDb, k, LogicalDb[k].entry, -1), OldText(k))
          /\ now' = now
      BY <3>1, DropDeadlineBecomes
    <3> QED BY <1>1, <2>1, <3>1, <3>2 DEF Logical!LiveUntil, Logical!Calls, Calls
  <2>2. CASE ~IsString(k)
    <3>1. Logical!Say(Refusal(k)) /\ now' = now
      BY <2>2, AnswerSays DEF GetExPersist
    <3> QED BY <1>1, <2>2, <3>1 DEF Logical!Calls, Calls
  <2> QED BY <2>1, <2>2
<1> QED BY <1>2 DEF Logical!Lifetimes

LEMMA GetExRefines ==
  ASSUME IInv, ConstantsAssumption, NEW k \in Key,
         NEW ms \in {s * Second : s \in Seconds} \cup Millis, GetExIn(k, ms),
         Calls("GETEX", <<k, ms>>)
  PROVE  Logical!Lifetimes
<1>0. now \in Nat /\ ms \in Int
  <2>1. ASSUME NEW s \in Seconds PROVE s * Second \in Int
    <3>1. s \in Int /\ Second \in Int
      BY DEF ConstantsAssumption
    <3> QED BY <3>1
  <2>2. Millis \subseteq Int
    BY DEF ConstantsAssumption
  <2> QED BY <2>1, <2>2 DEF IInv, TypeOK
<1>1. (Logical!IsA(k, "string") <=> IsString(k)) /\ Logical!Old(k) = OldText(k)
      /\ Logical!Refusal(k) = Refusal(k) /\ (Logical!Has(k) <=> Live(k))
  BY LogicalTerms, LogicalFacts DEF IsString
<1>2. /\ Logical!Calls("GETEX", <<k, ms>>)
      /\ IF ~Logical!IsA(k, "string") THEN Logical!Say(Logical!Refusal(k))
         ELSE IF ms <= 0 THEN Logical!Say(Logical!BadValue)
         ELSE Logical!LiveUntil(k, now + ms, Logical!Old(k), Logical!Nil)
  <2>1. CASE ~IsString(k)
    <3>1. Logical!Say(Refusal(k)) /\ now' = now
      BY <2>1, AnswerSays DEF GetExIn
    <3> QED BY <1>1, <2>1, <3>1 DEF Logical!Calls, Calls
  <2>2. CASE IsString(k) /\ ms <= 0
    <3>1. Logical!Say(BadValue) /\ now' = now
      BY <2>2, AnswerSays DEF GetExIn
    <3> QED BY <1>1, <2>2, <3>1 DEF Logical!Calls, Calls, BadValue, Logical!BadValue
  <2>3. CASE IsString(k) /\ ~(ms <= 0)
    <3> DEFINE t == now + ms
    <3>1. t \in Nat
      BY <1>0, <2>3
    <3>2. Live(k) /\ Finish(kv, Put(expires, k, t), OldText(k))
      BY <2>3 DEF GetExIn, OldText, IsString
    <3> HIDE DEF t
    <3>3. Logical!Become(Logical!With(LogicalDb, k, LogicalDb[k].entry, t), OldText(k))
          /\ now' = now
      BY <3>1, <3>2, SetDeadlineBecomes
    <3>4. Logical!LiveUntil(k, t, Logical!Old(k), Logical!Nil)
      BY <1>1, <3>2, <3>3 DEF Logical!LiveUntil
    <3> QED BY <1>1, <2>3, <3>3, <3>4 DEF Logical!Calls, Calls, t
  <2> QED BY <2>1, <2>2, <2>3
<1> QED BY <1>2 DEF Logical!Lifetimes------------------------------------------------------------------------------
\* The purge is a step that clients do not see.
LEMMA PurgeIsHidden ==
  ASSUME IInv, PurgeExpiredBatch PROVE LogicalDb' = LogicalDb /\ UNCHANGED <<now, call, reply>>
<1>1. kv' = Drop(kv, Stale) /\ expires' = Drop(expires, Stale) /\ UNCHANGED <<now, call, reply>>
  BY DEF PurgeExpiredBatch
<1>2. DOMAIN kv' = DOMAIN kv \ Stale /\ DOMAIN expires' = DOMAIN expires \ Stale
  BY <1>1 DEF Drop
<1>3. \A k \in DOMAIN kv' : kv'[k] = kv[k]
  BY <1>1 DEF Drop
<1>4. \A k \in DOMAIN expires' : expires'[k] = expires[k]
  BY <1>1 DEF Drop
<1>5. \A k : Live(k) <=> k \in DOMAIN kv /\ k \notin Stale
  BY DEF Live, Stale, Expired
<1>6. \A k : k \in DOMAIN kv' /\ Live(k)' <=> k \in DOMAIN kv /\ Live(k)
  BY <1>1, <1>2, <1>4, <1>5 DEF Live, Expired, Stale
<1>7. \A k : Live(k) => (k \in DOMAIN expires' <=> k \in DOMAIN expires)
  BY <1>2, <1>5
<1>8. LogicalDb' = LogicalDb
  <2>1. {k \in DOMAIN kv' : Live(k)'} = {k \in DOMAIN kv : Live(k)}
    BY <1>6
  <2>2. ASSUME NEW k, k \in DOMAIN kv, Live(k)
        PROVE  /\ kv'[k] = kv[k]
               /\ (IF k \in DOMAIN expires' THEN expires'[k] ELSE -1)
                  = (IF k \in DOMAIN expires THEN expires[k] ELSE -1)
    BY <1>2, <1>3, <1>4, <1>5, <1>7, <2>2
  <2> QED BY <2>1, <2>2 DEF LogicalDb
<1> QED BY <1>1, <1>8

LEMMA TickRefines == ASSUME IInv, Tick PROVE Logical!Tick
<1>0. now \in Nat /\ \A k \in DOMAIN expires : expires[k] \in Nat
  BY DEF IInv, TypeOK, IsMap
<1>1. now' = now + 1 /\ UNCHANGED <<kv, expires, call, reply>>
  BY DEF Tick
<1> DEFINE Val(k) == [entry |-> kv[k], at |-> Until(expires, k)]
           A == Logical!AliveAt(LogicalDb, now')
           Over == {k \in DOMAIN LogicalDb : LogicalDb[k].at # -1 /\ LogicalDb[k].at <= now'}
<1>2. A = [k \in DOMAIN LogicalDb \ Over |-> LogicalDb[k]]
  BY DEF Logical!AliveAt, Logical!Without, Logical!Forever
<1>3. \A k : k \in DOMAIN LogicalDb <=> Live(k)
  BY LogicalFacts DEF Logical!Has
<1>4. \A k : Live(k)' <=> Live(k) /\ ~(k \in DOMAIN expires /\ expires[k] <= now')
  BY <1>0, <1>1 DEF Live, Expired
<1>5. ASSUME NEW k, Live(k) PROVE k \in Over <=> (k \in DOMAIN expires /\ expires[k] <= now')
  <2>1. LogicalDb[k].at = Until(expires, k)
    BY <1>5, LogicalFacts
  <2> QED BY <1>0, <1>3, <1>5, <2>1 DEF Until
<1>6. \A k : k \in DOMAIN LogicalDb \ Over <=> (k \in DOMAIN kv /\ Live(k)')
  <2>1. \A k : Live(k)' => k \in DOMAIN kv
    BY <1>1 DEF Live
  <2> HIDE DEF Over
  <2> QED BY <1>3, <1>4, <1>5, <2>1
<1>7. LogicalDb' = [k \in {x \in DOMAIN kv : Live(x)'} |-> Val(k)]
  BY <1>1 DEF LogicalDb, Until
<1>8. \A k : Live(k) => LogicalDb[k] = Val(k)
  BY DEF LogicalDb, Live, Until
<1> HIDE DEF Val, Over
<1>9. LogicalDb' = A
  <2>1. {x \in DOMAIN kv : Live(x)'} = DOMAIN LogicalDb \ Over
    BY <1>6
  <2> QED BY <1>2, <1>3, <1>7, <1>8, <2>1
<1> QED BY <1>1, <1>9 DEF Logical!Tick

LEMMA StringRefines == ASSUME IInv, ConstantsAssumption, StringCommand PROVE Logical!Next
<1>1. Logical!Reads \/ Logical!Overwrites \/ Logical!Edits \/ Logical!Removals \/ Logical!Lifetimes
  BY GetRefines, SetRefines, SetRefusedRefines, SetNXRefines, SetEXRefines, GetSetRefines, GetDelRefines,
     GetExPersistRefines, GetExRefines, AppendRefines, MGetRefines, MSetRefines, MSetNXRefines
     DEF StringCommand, NonEmpty
<1> QED BY <1>1 DEF Logical!Next

LEMMA ListRefines == ASSUME IInv, ListCommand PROVE Logical!Next
<1>1. Logical!Reads \/ Logical!Edits
  BY PushRefines, PopRefines, RPopLPushRefines, LengthRefines DEF ListCommand
<1> QED BY <1>1 DEF Logical!Next

LEMMA KeyRefines == ASSUME IInv, ConstantsAssumption, KeyCommand PROVE Logical!Next
<1>1. Logical!Reads \/ Logical!Removals \/ Logical!Lifetimes
  BY DelRefines, ExistsRefines, TypeRefines, KeysRefines, DbSizeRefines, RandomKeyRefines,
     FlushDbRefines, ExpireRefines, PExpireRefines, ExpireAtRefines, TtlRefines, PersistRefines,
     RenameRefines, RenameNXRefines DEF KeyCommand, NonEmpty
<1> QED BY <1>1 DEF Logical!Next

\* Every step of the two maps, of the clock and of the purge timer is a step of the one map
\* without dead keys, or hidden from it.
LEMMA StepRefines == ASSUME IInv, ConstantsAssumption, [Next]_vars PROVE [Logical!Next]_Logical!vars
<1>1. CASE Command
  BY <1>1, StringRefines, ListRefines, KeyRefines DEF Command
<1>2. CASE PurgeExpiredBatch
  BY <1>2, PurgeIsHidden DEF Logical!vars
<1>3. CASE Tick
  BY <1>3, TickRefines DEF Logical!Next
<1>4. CASE UNCHANGED vars
  BY <1>4 DEF vars, Logical!vars, LogicalDb, Live, Expired
<1> QED BY <1>1, <1>2, <1>3, <1>4 DEF Next

\* Every command answers and changes the keyspace as if dead keys were not there, although
\* they are purged late, in part, or by a timer.
THEOREM KeyspaceRefinement == Spec => ImplementsLogicalKeyspace
<1> USE ConstantsAssumption
<1>1. Init => Logical!Init
  BY DEF Init, Logical!Init, LogicalDb, EmptyMap, Nil, Logical!Nil
<1>2. IInv /\ [Next]_vars => [Logical!Next]_Logical!vars
  BY StepRefines
<1> QED BY <1>1, <1>2, Inductive, PTL DEF Spec, ImplementsLogicalKeyspace, Logical!Spec
==============================================================================
