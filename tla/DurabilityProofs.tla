-------------------------- MODULE DurabilityProofs ---------------------------
(***************************************************************************)
(* For any number of writes, crashes, databases and overlapping saves, and *)
(* in every setting: the variables have their types; records reach the     *)
(* file in the order of the writes; a snapshot no save overlapped is one   *)
(* moment of the store; the flag of BGSAVE is exact; and with the AOF      *)
(* alone, database 0 and no faults the file is the store's history, so     *)
(* that a process that starts finds a past of the store with everything in *)
(* it that reached the file.                                               *)
(***************************************************************************)
EXTENDS Durability, SequenceTheorems, FiniteSetTheorems, TLAPS

Line == Record \cup {Torn}

F == INSTANCE Folding WITH Step <- Parse
G == INSTANCE Folding WITH Step <- Keep

(* Every set of naturals that is not empty has a least element: folds are reasoned about *)
(* with it, as with an induction. *)

LEMMA LeastNat ==
  ASSUME NEW T \in SUBSET Nat, T # {} PROVE \E n \in T : \A m \in T : n <= m
<1> DEFINE R == OpToRel(<, Nat)
<1>1. IsWellFoundedOn(R, Nat)
  BY NatLessThanWellFounded
<1>2. \A x, y \in Nat : <<y, x>> \in R <=> y < x
  BY DEF OpToRel
<1> HIDE DEF R
<1>3. PICK n \in T : \A m \in T : ~(<<m, n>> \in R)
  BY <1>1, WFMin
<1>4. n \in Nat /\ \A m \in T : m \in Nat /\ ~(m < n)
  BY <1>2, <1>3
<1>5. \A m \in T : n <= m
  BY <1>4
<1> QED BY <1>3, <1>5

(* Prefixes *)

LEMMA PrefixIsPointwise ==
  ASSUME NEW S, NEW s \in Seq(S), NEW t \in Seq(S)
  PROVE  IsPrefix(s, t) <=> Len(s) <= Len(t) /\ \A i \in 1 .. Len(s) : s[i] = t[i]
<1>1. Len(s) \in Nat /\ Len(t) \in Nat
  BY LenProperties
<1>2. CASE ~(Len(s) <= Len(t))
  BY <1>2 DEF IsPrefix
<1>3. CASE Len(s) <= Len(t)
  <2>1. /\ SubSeq(s, 1, Len(s)) \in Seq(S) /\ Len(SubSeq(s, 1, Len(s))) = Len(s)
        /\ \A i \in 1 .. Len(s) : SubSeq(s, 1, Len(s))[i] = s[i]
    <3>1. \A i \in 1 .. Len(s) : s[i] \in S
      BY ElementOfSeq
    <3> QED BY <1>1, <3>1, SubSeqProperties
  <2>2. /\ SubSeq(t, 1, Len(s)) \in Seq(S) /\ Len(SubSeq(t, 1, Len(s))) = Len(s)
        /\ \A i \in 1 .. Len(s) : SubSeq(t, 1, Len(s))[i] = t[i]
    <3>1. \A i \in 1 .. Len(s) : t[i] \in S
      BY <1>1, <1>3, ElementOfSeq
    <3> QED BY <1>1, <3>1, SubSeqProperties
  <2>3. SubSeq(s, 1, Len(s)) = SubSeq(t, 1, Len(s))
          <=> \A i \in 1 .. Len(s) : s[i] = t[i]
    <3>1. ASSUME \A i \in 1 .. Len(s) : s[i] = t[i]
          PROVE  SubSeq(s, 1, Len(s)) = SubSeq(t, 1, Len(s))
      BY <2>1, <2>2, <3>1, SeqEqual
    <3>2. ASSUME SubSeq(s, 1, Len(s)) = SubSeq(t, 1, Len(s)), NEW i \in 1 .. Len(s)
          PROVE  s[i] = t[i]
      BY <2>1, <2>2, <3>2
    <3> QED BY <3>1, <3>2
  <2> QED BY <1>3, <2>3 DEF IsPrefix
<1> QED BY <1>2, <1>3

LEMMA PrefixOfItself == ASSUME NEW S, NEW s \in Seq(S) PROVE IsPrefix(s, s)
<1>1. Len(s) \in Nat
  BY LenProperties
<1> QED BY <1>1, PrefixIsPointwise

LEMMA PrefixOfConcat ==
  ASSUME NEW S, NEW s \in Seq(S), NEW t \in Seq(S) PROVE IsPrefix(s, s \o t)
<1>1. Len(s) \in Nat /\ Len(t) \in Nat
  BY LenProperties
<1>2. /\ s \o t \in Seq(S) /\ Len(s \o t) = Len(s) + Len(t)
      /\ \A i \in 1 .. Len(s) + Len(t) : (s \o t)[i] = IF i <= Len(s) THEN s[i] ELSE t[i - Len(s)]
  BY ConcatProperties
<1>3. Len(s) <= Len(s \o t) /\ \A i \in 1 .. Len(s) : s[i] = (s \o t)[i]
  BY <1>1, <1>2
<1> QED BY <1>2, <1>3, PrefixIsPointwise

LEMMA PrefixOfAppend ==
  ASSUME NEW S, NEW s \in Seq(S), NEW t \in Seq(S), NEW e \in S, IsPrefix(s, t)
  PROVE  IsPrefix(s, Append(t, e))
<1>1. Len(s) \in Nat /\ Len(t) \in Nat
  BY LenProperties
<1>2. /\ Append(t, e) \in Seq(S) /\ Len(Append(t, e)) = Len(t) + 1
      /\ \A i \in 1 .. Len(t) : Append(t, e)[i] = t[i]
  BY AppendProperties
<1>3. Len(s) <= Len(t) /\ \A i \in 1 .. Len(s) : s[i] = t[i]
  BY PrefixIsPointwise
<1>4. Len(s) <= Len(Append(t, e)) /\ \A i \in 1 .. Len(s) : s[i] = Append(t, e)[i]
  BY <1>1, <1>2, <1>3
<1> QED BY <1>2, <1>4, PrefixIsPointwise

(* The head of the chain moves to the file: together they stay what they were. *)
LEMMA AppendingHeadKeepsConcat ==
  ASSUME NEW S, NEW a \in Seq(S), NEW p \in Seq(S), p # <<>>
  PROVE  Append(a, Head(p)) \o Tail(p) = a \o p
<1>1. Head(p) \in S /\ Tail(p) \in Seq(S) /\ <<Head(p)>> \in Seq(S)
  BY HeadTailProperties
<1>2. Append(a, Head(p)) = a \o <<Head(p)>>
  BY <1>1, AppendIsConcat
<1>3. <<Head(p)>> \o Tail(p) = p
  <2>1. /\ Len(p) \in Nat /\ Len(p) > 0 /\ Len(Tail(p)) = Len(p) - 1
        /\ \A i \in 1 .. Len(Tail(p)) : Tail(p)[i] = p[i + 1]
    BY LenProperties, HeadTailProperties, EmptySeq
  <2>2. Head(p) = p[1]
    BY <2>1
  <2>3. Len(<<Head(p)>>) = 1 /\ <<Head(p)>>[1] = p[1]
    BY <2>2
  <2>4. /\ <<Head(p)>> \o Tail(p) \in Seq(S) /\ Len(<<Head(p)>> \o Tail(p)) = Len(p)
        /\ \A i \in 1 .. Len(p) : (<<Head(p)>> \o Tail(p))[i] =
             IF i <= 1 THEN <<Head(p)>>[i] ELSE Tail(p)[i - 1]
    BY <1>1, <2>1, <2>3, ConcatProperties
  <2>5. \A i \in 1 .. Len(p) : (<<Head(p)>> \o Tail(p))[i] = p[i]
    BY <2>1, <2>3, <2>4
  <2> QED BY <2>4, <2>5, SeqEqual
<1> QED BY <1>1, <1>2, <1>3, ConcatAssociative
------------------------------------------------------------------------------
(* What a restart reads *)

LEMMA RecordsAreLines == \A q \in Seq(Record) : q \in Seq(Line)
  BY SeqMonotonic DEF Line

LEMMA RecordsAreNotTorn == \A r \in Record : r # Torn
  BY DEF Record, Torn, Op

\* What the parser is at, and where it begins.
Parsing == [lost : Nat, forged : History, left : Nat, records : History]

LEMMA BeginningIsParsing ==
  ASSUME NEW n \in Nat, NEW g \in History PROVE Beginning(n, g) \in Parsing
<1>1. <<>> \in History
  BY EmptySeq DEF History
<1> QED BY <1>1 DEF Beginning, Parsing

LEMMA ParseIsParsing ==
  ASSUME NEW p \in Parsing, NEW r \in Line PROVE Parse(p, r) \in Parsing
<1>1. CASE r = Torn
  <2>1. Parse(p, r) = [p EXCEPT !.left = p.lost, !.records = p.records \o p.forged]
    BY <1>1 DEF Parse
  <2>2. p.records \o p.forged \in History
    BY ConcatProperties DEF Parsing, History
  <2> QED BY <2>1, <2>2 DEF Parsing
<1>2. CASE r # Torn /\ p.left > 0
  <2>1. Parse(p, r) = [p EXCEPT !.left = p.left - 1] /\ p.left - 1 \in Nat
    BY <1>2 DEF Parse, Parsing
  <2> QED BY <2>1 DEF Parsing
<1>3. CASE r # Torn /\ p.left = 0
  <2>1. Parse(p, r) = [p EXCEPT !.records = Append(p.records, r)]
    BY <1>3 DEF Parse
  <2>2. r \in Record /\ p.records \in History
    BY <1>3 DEF Line, Parsing
  <2>3. Append(p.records, r) \in History
    BY <2>2, AppendProperties DEF History
  <2> QED BY <2>1, <2>3 DEF Parsing
<1> QED BY <1>1, <1>2, <1>3 DEF Parsing

LEMMA ReadableIsFold ==
  ASSUME NEW a, NEW n, NEW g PROVE Readable(a, n, g) = F!Fold(Beginning(n, g), a).records
BY DEF Readable, Beginning, FoldLeft, MapThenFoldSet, Max, F!Fold, F!Folds, F!Highest

LEMMA ReadableIsHistory ==
  ASSUME NEW a \in Seq(Line), NEW n \in Nat, NEW g \in History
  PROVE  Readable(a, n, g) \in History
<1> DEFINE S == [i \in 0 .. Len(a) |-> Parsing]
<1>1. Len(a) \in Nat /\ DOMAIN a = 1 .. Len(a) /\ \A i \in 1 .. Len(a) : a[i] \in Line
  BY LenProperties, ElementOfSeq
<1>2. \A i \in 0 .. Len(a) : S[i] = Parsing
  OBVIOUS
<1> HIDE DEF S
<1>3. Beginning(n, g) \in S[0]
  BY <1>1, <1>2, BeginningIsParsing
<1>4. \A i \in 1 .. Len(a) : \A p \in S[i - 1] : Parse(p, a[i]) \in S[i]
  BY <1>1, <1>2, ParseIsParsing
<1>5. F!Fold(Beginning(n, g), a) \in S[Len(a)]
  BY <1>1, <1>3, <1>4, LeastNat, F!FoldKeeps DEF F!NatsHaveLeast
<1>6. F!Fold(Beginning(n, g), a) \in Parsing
  BY <1>1, <1>2, <1>5
<1> QED BY <1>6, ReadableIsFold DEF Parsing

\* A parser that has read i records, none of them torn.
Read(p, a, i) ==
  p \in Parsing /\ p.left = 0 /\ Len(p.records) = i /\ \A j \in 1 .. i : p.records[j] = a[j]

LEMMA ReadsOn ==
  ASSUME NEW a \in History, NEW i \in 1 .. Len(a), NEW p, Read(p, a, i - 1)
  PROVE  Read(Parse(p, a[i]), a, i)
<1>1. Len(a) \in Nat /\ i \in Nat /\ i - 1 \in Nat /\ a[i] \in Record
  BY LenProperties, ElementOfSeq DEF History
<1>2. p \in Parsing /\ p.left = 0 /\ p.records \in Seq(Record) /\ Len(p.records) = i - 1
  BY DEF Read, Parsing, History
<1> DEFINE q == Parse(p, a[i])
<1>3. q = [p EXCEPT !.records = Append(p.records, a[i])]
  BY <1>1, <1>2, RecordsAreNotTorn DEF Parse
<1>4. q.left = 0 /\ q.records = Append(p.records, a[i])
  BY <1>2, <1>3 DEF Parsing
<1>5. q \in Parsing
  BY <1>1, <1>2, ParseIsParsing DEF Line
<1>6. /\ Len(Append(p.records, a[i])) = i /\ Append(p.records, a[i])[i] = a[i]
      /\ \A j \in 1 .. i - 1 : Append(p.records, a[i])[j] = p.records[j]
  BY <1>1, <1>2, AppendProperties
<1>7. \A j \in 1 .. i : j = i \/ j \in 1 .. i - 1
  BY <1>1
<1> HIDE DEF q
<1>8. \A j \in 1 .. i : q.records[j] = a[j]
  BY <1>4, <1>6, <1>7 DEF Read
<1>9. Read(q, a, i)
  BY <1>4, <1>5, <1>6, <1>8 DEF Read
<1> QED BY <1>9 DEF q

LEMMA WholeFileIsReadable ==
  ASSUME NEW a \in History, NEW n \in Nat, NEW g \in History PROVE Readable(a, n, g) = a
<1> DEFINE S == [i \in 0 .. Len(a) |-> {p \in Parsing : Read(p, a, i)}]
<1>1. Len(a) \in Nat /\ DOMAIN a = 1 .. Len(a)
  BY LenProperties DEF History
<1>2. \A i \in 0 .. Len(a) : \A p : p \in S[i] <=> Read(p, a, i)
  BY DEF Read
<1> HIDE DEF S
<1>3. Beginning(n, g) \in S[0]
  <2>1. Beginning(n, g).left = 0 /\ Beginning(n, g).records = <<>>
    BY DEF Beginning
  <2>2. Len(Beginning(n, g).records) = 0 /\ 1 .. 0 = {}
    BY <2>1
  <2>3. Read(Beginning(n, g), a, 0)
    BY <2>1, <2>2, BeginningIsParsing DEF Read
  <2> QED BY <1>1, <1>2, <2>3
<1>4. ASSUME NEW i \in 1 .. Len(a), NEW p \in S[i - 1] PROVE Parse(p, a[i]) \in S[i]
  <2>1. i \in 0 .. Len(a) /\ i - 1 \in 0 .. Len(a)
    BY <1>1
  <2>2. Read(p, a, i - 1)
    BY <1>2, <2>1
  <2>3. Read(Parse(p, a[i]), a, i)
    BY <2>2, ReadsOn
  <2> QED BY <1>2, <2>1, <2>3
<1>5. F!Fold(Beginning(n, g), a) \in S[Len(a)]
  BY <1>1, <1>3, <1>4, LeastNat, F!FoldKeeps DEF F!NatsHaveLeast
<1>6. Read(F!Fold(Beginning(n, g), a), a, Len(a))
  BY <1>1, <1>2, <1>5
<1>7. /\ Readable(a, n, g) \in Seq(Record) /\ Len(Readable(a, n, g)) = Len(a)
      /\ \A j \in 1 .. Len(a) : Readable(a, n, g)[j] = a[j]
  BY <1>6, ReadableIsFold DEF Read, Parsing, History
<1> QED BY <1>7, SeqEqual DEF History

LEMMA ReplayIsHistory ==
  ASSUME NEW a \in History PROVE InDb0(a) \in History
<1>1. Len(a) \in Nat /\ DOMAIN a = 1 .. Len(a) /\ \A i \in 1 .. Len(a) : a[i] \in Record
  BY LenProperties, ElementOfSeq DEF History
<1>2. \A i \in 1 .. Len(a) : [a[i] EXCEPT !.db = 0] \in Record
  BY <1>1, ConstantsAssumption DEF Record
<1>3. InDb0(a) \in [1 .. Len(a) -> Record]
  BY <1>1, <1>2 DEF InDb0
<1> QED BY <1>1, <1>3, SeqDef DEF History

LEMMA ReplayInDb0 ==
  ASSUME NEW a \in History, \A i \in DOMAIN a : a[i].db = 0 PROVE InDb0(a) = a
<1>1. Len(a) \in Nat /\ DOMAIN a = 1 .. Len(a) /\ \A i \in 1 .. Len(a) : a[i] \in Record
  BY LenProperties, ElementOfSeq DEF History
<1>2. \A i \in 1 .. Len(a) : [a[i] EXCEPT !.db = 0] = a[i]
  BY <1>1 DEF Record
<1>3. \A i \in 1 .. Len(a) : InDb0(a)[i] = a[i]
  BY <1>1, <1>2 DEF InDb0
<1>4. InDb0(a) \in History /\ DOMAIN InDb0(a) = 1 .. Len(a)
  BY <1>1, ReplayIsHistory DEF InDb0
<1>5. Len(InDb0(a)) = Len(a)
  <2>1. InDb0(a) \in Seq(Record)
    BY <1>4 DEF History
  <2>2. Len(InDb0(a)) \in Nat /\ DOMAIN InDb0(a) = 1 .. Len(InDb0(a))
    BY <2>1, LenProperties
  <2> QED BY <1>1, <1>4, <2>2
<1> QED BY <1>1, <1>3, <1>4, <1>5, SeqEqual DEF History

LEMMA ForgedIsHistory == ASSUME TypeOK, NEW g \in Forged PROVE g \in History
<1>1. <<>> \in History
  BY EmptySeq DEF History
<1>2. ASSUME NEW op \in setting.op PROVE <<[op |-> op, db |-> 0, n |-> 0]>> \in History
  <2>1. [op |-> op, db |-> 0, n |-> 0] \in Record
    BY <1>2, ConstantsAssumption DEF TypeOK, Setting, Record
  <2> QED BY <2>1 DEF History
<1> QED BY <1>1, <1>2 DEF Forged
------------------------------------------------------------------------------
(* What a mixture of two copies is *)

Keeping(D) == [of : {D}, kept : History]

LEMMA KeepIsKeeping ==
  ASSUME NEW D, NEW q \in Keeping(D), NEW r \in Record PROVE Keep(q, r) \in Keeping(D)
<1>1. Append(q.kept, r) \in History
  BY AppendProperties DEF Keeping, History
<1>2. Keep(q, r) = IF r.db \in q.of THEN [q EXCEPT !.kept = Append(q.kept, r)] ELSE q
  BY DEF Keep
<1> QED BY <1>1, <1>2 DEF Keeping

LEMMA OfDbsIsFold ==
  ASSUME NEW h, NEW D PROVE OfDbs(h, D) = G!Fold([of |-> D, kept |-> <<>>], h).kept
BY DEF OfDbs, FoldLeft, MapThenFoldSet, Max, G!Fold, G!Folds, G!Highest

LEMMA OfDbsIsHistory == ASSUME NEW h \in History, NEW D PROVE OfDbs(h, D) \in History
<1> DEFINE S == [i \in 0 .. Len(h) |-> Keeping(D)]
           b == [of |-> D, kept |-> <<>>]
<1>1. Len(h) \in Nat /\ DOMAIN h = 1 .. Len(h) /\ \A i \in 1 .. Len(h) : h[i] \in Record
  BY LenProperties, ElementOfSeq DEF History
<1>2. \A i \in 0 .. Len(h) : S[i] = Keeping(D)
  OBVIOUS
<1>3. b \in Keeping(D)
  <2>1. <<>> \in History
    BY EmptySeq DEF History
  <2> QED BY <2>1 DEF Keeping
<1>4. OfDbs(h, D) = G!Fold(b, h).kept
  BY OfDbsIsFold
<1> HIDE DEF S, b
<1>5. b \in S[0]
  BY <1>1, <1>2, <1>3
<1>6. \A i \in 1 .. Len(h) : \A q \in S[i - 1] : Keep(q, h[i]) \in S[i]
  BY <1>1, <1>2, KeepIsKeeping
<1>7. G!Fold(b, h) \in S[Len(h)]
  BY <1>1, <1>5, <1>6, LeastNat, G!FoldKeeps DEF G!NatsHaveLeast
<1>8. G!Fold(b, h) \in Keeping(D)
  BY <1>1, <1>2, <1>7
<1> QED BY <1>4, <1>8 DEF Keeping

LEMMA MixedIsHistory ==
  ASSUME NEW s \in History, NEW other \in History, NEW D PROVE Mixed(s, other, D) \in History
<1>1. OfDbs(s, D) \in History /\ OfDbs(other, Db \ D) \in History
  BY OfDbsIsHistory
<1> QED BY <1>1, ConcatProperties DEF Mixed, History

\* What a file is when a save has ended: its own text, none, or a mixture.
LEMMA FinishedFile ==
  ASSUME NEW s \in Saver, FinishSave(s), savers[s].store \in History,
         savers[s].others \in SUBSET History
  PROVE  /\ snapshot' \in FileType
         /\ snapshot'.kind = "json" /\ snapshot'.alone => snapshot'.store = savers[s].store
<1> DEFINE own == savers[s].store
           others == savers[s].others
<1>1. \/ snapshot' = File(own, others = {})
      \/ snapshot' = Unreadable
      \/ \E other \in others, D \in SUBSET Db : snapshot' = File(Mixed(own, other, D), FALSE)
  BY DEF FinishSave, Mixtures
<1>2. CASE snapshot' = File(own, others = {})
  <2>1. (others = {}) \in BOOLEAN
    OBVIOUS
  <2>2. snapshot' = [kind |-> "json", store |-> own, alone |-> (others = {})]
    BY <1>2 DEF File
  <2> HIDE DEF own, others
  <2>3. own \in History
    BY DEF own
  <2>4. snapshot' \in FileType /\ snapshot'.store = own
    BY <2>1, <2>2, <2>3 DEF FileType
  <2> QED BY <2>4 DEF own
<1>3. CASE snapshot' = Unreadable
  BY <1>3 DEF Unreadable, FileType
<1>4. ASSUME NEW other \in others, NEW D \in SUBSET Db, snapshot' = File(Mixed(own, other, D), FALSE)
      PROVE  snapshot' \in FileType /\ ~snapshot'.alone
  <2>1. Mixed(own, other, D) \in History
    BY MixedIsHistory
  <2>2. snapshot' = [kind |-> "json", store |-> Mixed(own, other, D), alone |-> FALSE]
    BY <1>4 DEF File
  <2> QED BY <2>1, <2>2 DEF FileType
<1> QED BY <1>1, <1>2, <1>3, <1>4
------------------------------------------------------------------------------
(* Types *)

LEMMA SettingIs == \A x \in Settings : /\ x.features \in SUBSET {"aof", "snapshot"}
                                       /\ x.op \subseteq Op /\ x.db \subseteq Db
  BY ConstantsAssumption DEF Setting

LEMMA NewRecord ==
  ASSUME TypeOK, NEW op \in setting.op, NEW db \in setting.db
  PROVE  [op |-> op, db |-> db, n |-> written + 1] \in Record
BY SettingIs DEF TypeOK, Record

LEMMA TypesInit == Init => TypeOK
<1> SUFFICES ASSUME Init PROVE TypeOK
  OBVIOUS
<1>1. <<>> \in History /\ <<>> \in Seq(Record \cup {Torn})
  BY EmptySeq DEF History
<1>2. NoFile \in FileType /\ NotSaving \in SaverType
  BY DEF FileType, SaverType
<1> QED BY <1>1, <1>2 DEF Init, TypeOK

LEMMA TypesStep == TypeOK /\ [Next]_vars => TypeOK'
<1> SUFFICES ASSUME TypeOK, [Next]_vars PROVE TypeOK'
  OBVIOUS
<1>0. /\ setting \in Settings /\ up \in BOOLEAN /\ store \in History /\ pending \in History
      /\ aof \in Seq(Line) /\ snapshot \in FileType /\ savers \in [Saver -> SaverType]
      /\ bgsave \in BOOLEAN /\ written \in Nat /\ crashes \in Nat
  BY DEF TypeOK, Line
<1>1. ASSUME NEW op \in setting.op, NEW db \in setting.db, Write(op, db) PROVE TypeOK'
  <2> DEFINE r == [op |-> op, db |-> db, n |-> written + 1]
  <2>1. /\ store' = Append(store, r) /\ pending' \in {pending, Append(pending, r)}
        /\ written' = written + 1 /\ UNCHANGED <<setting, up, aof, snapshot, savers, bgsave, crashes>>
    BY <1>1 DEF Write, saveVars
  <2>2. r \in Record
    BY NewRecord
  <2> HIDE DEF r
  <2>3. store' \in History /\ pending' \in History
    <3>1. \A q \in History : Append(q, r) \in History
      BY <2>2, AppendProperties DEF History
    <3> QED BY <1>0, <2>1, <3>1
  <2> QED BY <1>0, <2>1, <2>3 DEF TypeOK
<1>2. CASE AppendCommand \/ AppendFails
  <2>1. /\ pending # <<>> /\ aof' \in {aof, Append(aof, Head(pending)), Append(aof, Torn)}
        /\ pending' = Tail(pending)
        /\ UNCHANGED <<setting, up, store, snapshot, savers, bgsave, written, crashes>>
    BY <1>2 DEF AppendCommand, AppendFails, saveVars
  <2>2. Head(pending) \in Line /\ Torn \in Line /\ Tail(pending) \in History
    BY <1>0, <2>1, HeadTailProperties DEF Line, History
  <2>3. aof' \in Seq(Line)
    <3>1. Append(aof, Head(pending)) \in Seq(Line) /\ Append(aof, Torn) \in Seq(Line)
      BY <1>0, <2>2, AppendProperties
    <3> QED BY <1>0, <2>1, <3>1
  <2> QED BY <1>0, <2>1, <2>2, <2>3 DEF TypeOK, Line
<1>3. ASSUME NEW s \in Saver, Save(s) \/ BgSave(s) \/ BgSaveTimer(s) PROVE TypeOK'
  <2>1. \/ savers' = [savers EXCEPT ![s] = [state |-> "copied", bg |-> FALSE, store |-> store]]
        \/ savers' = [savers EXCEPT ![s] = [state |-> "copied", bg |-> TRUE, store |-> store]]
        \/ savers' = [savers EXCEPT ![s] = [state |-> "scheduled"]]
        \/ savers' = [savers EXCEPT ![s] = NotSaving]
    BY <1>3 DEF Save, BgSave, BgSaveTimer
  <2>2. /\ [state |-> "copied", bg |-> FALSE, store |-> store] \in SaverType
        /\ [state |-> "copied", bg |-> TRUE, store |-> store] \in SaverType
        /\ [state |-> "scheduled"] \in SaverType /\ NotSaving \in SaverType
    BY <1>0 DEF SaverType
  <2>3. savers' \in [Saver -> SaverType]
    BY <1>0, <2>1, <2>2
  <2>4. /\ UNCHANGED <<setting, up, store, pending, aof, snapshot, written, crashes>>
        /\ bgsave' \in {bgsave, TRUE, FALSE}
    BY <1>3 DEF Save, BgSave, BgSaveTimer
  <2> QED BY <1>0, <2>3, <2>4 DEF TypeOK, Line
<1>4. ASSUME NEW x \in Saver, savers[x].state \in {"copied", "writing"}
      PROVE  savers[x].store \in History /\ savers[x].bg \in BOOLEAN
  BY <1>0, <1>4 DEF SaverType, NotSaving
<1>5. ASSUME NEW x \in Saver, savers[x].state = "writing"
      PROVE  /\ savers[x].others \in SUBSET History
             /\ \A h \in History :
                  [savers[x] EXCEPT !.others = savers[x].others \cup {h}] \in SaverType
  <2>1. savers[x] \in [state : {"writing"}, bg : BOOLEAN, store : History, others : SUBSET History]
    BY <1>0, <1>5 DEF SaverType, NotSaving
  <2>2. savers[x].others \in SUBSET History
    BY <2>1
  <2>3. ASSUME NEW h \in History
        PROVE  [savers[x] EXCEPT !.others = savers[x].others \cup {h}]
                 \in [state : {"writing"}, bg : BOOLEAN, store : History, others : SUBSET History]
    <3>1. savers[x].others \cup {h} \in SUBSET History
      BY <2>2
    <3> QED BY <2>1, <3>1
  <2> QED BY <2>2, <2>3 DEF SaverType
<1>6. ASSUME NEW s \in Saver, OpenFile(s) PROVE TypeOK'
  <2> DEFINE n == [state |-> "writing", bg |-> savers[s].bg, store |-> savers[s].store,
                   others |-> {savers[y].store : y \in Writing}]
             New(x) == CASE x = s -> n
                         [] x # s /\ x \in Writing ->
                              [savers[x] EXCEPT !.others = savers[x].others \cup {savers[s].store}]
                         [] OTHER -> savers[x]
  <2>1. savers[s].store \in History /\ savers[s].bg \in BOOLEAN
    BY <1>4, <1>6 DEF OpenFile
  <2>2. n \in SaverType
    <3>1. {savers[y].store : y \in Writing} \in SUBSET History
      BY <1>4 DEF Writing
    <3> QED BY <2>1, <3>1 DEF SaverType
  <2>3. savers' = [x \in Saver |-> New(x)]
    BY <1>6 DEF OpenFile
  <2> HIDE DEF n
  <2>4. \A x \in Saver : New(x) \in SaverType
    BY <1>0, <1>5, <2>1, <2>2 DEF Writing
  <2> HIDE DEF New
  <2>5. savers' \in [Saver -> SaverType]
    BY <2>3, <2>4
  <2>6. /\ UNCHANGED <<setting, up, store, pending, aof, bgsave, written, crashes>>
        /\ snapshot' = Unreadable
    BY <1>6 DEF OpenFile
  <2> QED BY <1>0, <2>5, <2>6 DEF TypeOK, Line, FileType
<1>7. ASSUME NEW s \in Saver, FinishSave(s) \/ SaveFails(s) PROVE TypeOK'
  <2>1. savers' = [savers EXCEPT ![s] = NotSaving] /\ NotSaving \in SaverType
    BY <1>7 DEF FinishSave, SaveFails, SaverType
  <2>2. savers' \in [Saver -> SaverType]
    BY <1>0, <2>1
  <2>3. /\ UNCHANGED <<setting, up, store, pending, aof, written, crashes>>
        /\ bgsave' \in BOOLEAN
    BY <1>0, <1>7 DEF FinishSave, SaveFails
  <2>4. CASE FinishSave(s)
    <3>1. savers[s].state = "writing"
      BY <2>4 DEF FinishSave
    <3>2. savers[s].store \in History /\ savers[s].others \in SUBSET History
      BY <1>4, <1>5, <3>1
    <3>3. snapshot' \in FileType
      BY <2>4, <3>2, FinishedFile
    <3> QED BY <1>0, <2>2, <2>3, <3>3 DEF TypeOK, Line
  <2>5. CASE SaveFails(s)
    <3>1. snapshot' = snapshot
      BY <2>5 DEF SaveFails
    <3> QED BY <1>0, <2>2, <2>3, <3>1 DEF TypeOK, Line
  <2> QED BY <1>7, <2>4, <2>5
<1>8. CASE Crash
  <2>1. /\ up' = FALSE /\ crashes' = crashes + 1 /\ pending' = <<>> /\ bgsave' = FALSE
        /\ savers' = [s \in Saver |-> NotSaving] /\ aof' \in {aof, Append(aof, Torn)}
        /\ UNCHANGED <<setting, store, snapshot, written>>
    BY <1>8 DEF Crash
  <2>2. pending' \in History /\ Torn \in Line
    BY <2>1, EmptySeq DEF History, Line
  <2>3. aof' \in Seq(Line)
    BY <1>0, <2>1, <2>2, AppendProperties
  <2>4. savers' \in [Saver -> SaverType]
    BY <2>1 DEF SaverType
  <2>5. up' \in BOOLEAN /\ bgsave' \in BOOLEAN
    BY <2>1, Zenon
  <2>7. crashes' \in Nat
    BY <1>0, <2>1
  <2>6. UNCHANGED <<setting, store, snapshot, written>>
    BY <2>1
  <2> QED BY <1>0, <2>2, <2>3, <2>4, <2>5, <2>6, <2>7 DEF TypeOK, Line
<1>9. CASE Start
  <2> DEFINE loaded == IF snapshot.kind = "json" THEN snapshot.store ELSE <<>>
             old    == IF "snapshot" \in setting.features THEN loaded ELSE <<>>
             tail(n, g) == IF "aof" \in setting.features THEN InDb0(Readable(aof, n, g)) ELSE <<>>
  <2>1. PICK n \in 0 .. Len(aof), g \in Forged : store' = old \o tail(n, g)
    BY <1>9 DEF Start
  <2>2. <<>> \in History
    BY EmptySeq DEF History
  <2>3. old \in History
    BY <1>0, <2>2 DEF FileType, NoFile, Unreadable
  <2>4. tail(n, g) \in History
    <3>1. n \in Nat /\ g \in History
      BY <1>0, ForgedIsHistory, LenProperties
    <3> QED BY <1>0, <2>2, <3>1, ReadableIsHistory, ReplayIsHistory
  <2>5. store' \in History
    BY <2>1, <2>3, <2>4, ConcatProperties DEF History
  <2>6. /\ up' = TRUE /\ UNCHANGED <<setting, pending, aof, snapshot, savers, bgsave, written, crashes>>
    BY <1>9 DEF Start, saveVars
  <2> QED BY <1>0, <2>5, <2>6 DEF TypeOK, Line
<1>10. CASE UNCHANGED vars
  BY <1>10 DEF vars, TypeOK
<1> QED BY <1>1, <1>2, <1>3, <1>6, <1>7, <1>8, <1>9, <1>10 DEF Next

\* The variables have their types in every setting: what is saved and loaded, logged, torn
\* and replayed are histories, whichever records the parser loses.
THEOREM DurabilityTypes == Spec => []TypeOK
<1> QED BY TypesInit, TypesStep, PTL DEF Spec
------------------------------------------------------------------------------
(* The order of the records *)

\* No record is numbered past w.
UpTo(l, w) == \A i \in DOMAIN l : l[i] # Torn => l[i].n <= w

LogInv ==
  /\ TypeOK /\ UpTo(aof \o pending, written) /\ LogInOrder

LEMMA LogTypes ==
  ASSUME TypeOK
  PROVE  /\ aof \in Seq(Line) /\ pending \in Seq(Record) /\ pending \in Seq(Line) /\ written \in Nat
BY RecordsAreLines DEF TypeOK, Line, History

LEMMA RecordNumber == ASSUME NEW x \in Line, x # Torn PROVE x.n \in Nat
  BY DEF Line, Record

LEMMA NewRecordKeepsOrder ==
  ASSUME NEW l \in Seq(Line), NEW w \in Nat, NEW e \in Record, e.n = w + 1,
         InOrder(l), UpTo(l, w)
  PROVE  InOrder(Append(l, e)) /\ UpTo(Append(l, e), w + 1)
<1> DEFINE m == Append(l, e)
<1>1. Len(l) \in Nat /\ DOMAIN l = 1 .. Len(l) /\ e \in Line
  BY LenProperties DEF Line
<1>2. /\ m \in Seq(Line) /\ Len(m) = Len(l) + 1 /\ m[Len(l) + 1] = e
      /\ \A i \in 1 .. Len(l) : m[i] = l[i]
  BY <1>1, AppendProperties
<1>3. DOMAIN m = 1 .. Len(l) + 1
  BY <1>1, <1>2, LenProperties
<1>4. \A i \in DOMAIN l : l[i] # Torn => l[i].n \in Nat /\ l[i].n <= w
  BY <1>1, ElementOfSeq, RecordNumber DEF UpTo
<1>5. ASSUME NEW i \in DOMAIN m, NEW j \in DOMAIN m, i < j, m[i] # Torn, m[j] # Torn
      PROVE  m[i].n < m[j].n
  <2>1. i \in DOMAIN l /\ m[i] = l[i]
    BY <1>1, <1>2, <1>3, <1>5
  <2>2. CASE j = Len(l) + 1
    BY <1>2, <1>4, <1>5, <2>1, <2>2
  <2>3. CASE j # Len(l) + 1
    BY <1>1, <1>2, <1>3, <1>5, <2>1, <2>3 DEF InOrder
  <2> QED BY <2>2, <2>3
<1>6. ASSUME NEW i \in DOMAIN m, m[i] # Torn PROVE m[i].n <= w + 1
  <2>1. CASE i = Len(l) + 1
    BY <1>2, <2>1
  <2>2. CASE i # Len(l) + 1
    BY <1>1, <1>2, <1>3, <1>4, <1>6, <2>2
  <2> QED BY <2>1, <2>2
<1> HIDE DEF m
<1>7. InOrder(m) /\ UpTo(m, w + 1)
  BY <1>5, <1>6 DEF InOrder, UpTo
<1> QED BY <1>7 DEF m

LEMMA TornKeepsOrder ==
  ASSUME NEW l \in Seq(Line), NEW w \in Nat, InOrder(l), UpTo(l, w)
  PROVE  InOrder(Append(l, Torn)) /\ UpTo(Append(l, Torn), w)
<1>1. Len(l) \in Nat /\ DOMAIN l = 1 .. Len(l) /\ Torn \in Line
  BY LenProperties DEF Line
<1>2. /\ Append(l, Torn) \in Seq(Line) /\ Len(Append(l, Torn)) = Len(l) + 1
      /\ Append(l, Torn)[Len(l) + 1] = Torn
      /\ \A i \in 1 .. Len(l) : Append(l, Torn)[i] = l[i]
  BY <1>1, AppendProperties
<1>3. DOMAIN Append(l, Torn) = 1 .. Len(l) + 1
  BY <1>1, <1>2, LenProperties
<1> QED BY <1>1, <1>2, <1>3 DEF InOrder, UpTo

\* What is left when one line is dropped is in order.
LEMMA DroppingKeepsOrder ==
  ASSUME NEW a \in Seq(Line), NEW p \in Seq(Line), p # <<>>, NEW w \in Nat,
         InOrder(a \o p), UpTo(a \o p, w)
  PROVE  InOrder(a \o Tail(p)) /\ UpTo(a \o Tail(p), w)
<1> DEFINE l == a \o p
           m == a \o Tail(p)
           Old(i) == IF i <= Len(a) THEN i ELSE i + 1
<1>1. /\ Len(a) \in Nat /\ Len(p) \in Nat /\ Tail(p) \in Seq(Line) /\ Len(Tail(p)) = Len(p) - 1
      /\ Len(p) > 0 /\ \A i \in 1 .. Len(Tail(p)) : Tail(p)[i] = p[i + 1]
  BY LenProperties, HeadTailProperties, EmptySeq
<1>2. /\ l \in Seq(Line) /\ Len(l) = Len(a) + Len(p)
      /\ \A i \in 1 .. Len(a) + Len(p) : l[i] = IF i <= Len(a) THEN a[i] ELSE p[i - Len(a)]
  BY ConcatProperties
<1>3. /\ m \in Seq(Line) /\ Len(m) = Len(a) + Len(p) - 1
      /\ \A i \in 1 .. Len(a) + Len(p) - 1 :
           m[i] = IF i <= Len(a) THEN a[i] ELSE Tail(p)[i - Len(a)]
  BY <1>1, ConcatProperties
<1>4. DOMAIN l = 1 .. Len(a) + Len(p) /\ DOMAIN m = 1 .. Len(a) + Len(p) - 1
  BY <1>1, <1>2, <1>3, LenProperties
<1>5. ASSUME NEW i \in DOMAIN m PROVE Old(i) \in DOMAIN l /\ m[i] = l[Old(i)]
  <2>1. CASE i <= Len(a)
    BY <1>1, <1>2, <1>3, <1>4, <2>1
  <2>2. CASE ~(i <= Len(a))
    <3>1. i - Len(a) \in 1 .. Len(Tail(p)) /\ i + 1 \in 1 .. Len(a) + Len(p)
      BY <1>1, <1>4, <2>2
    <3>2. m[i] = p[i - Len(a) + 1]
      BY <1>1, <1>3, <1>4, <2>2, <3>1
    <3>3. l[i + 1] = p[i + 1 - Len(a)]
      BY <1>1, <1>2, <1>4, <2>2, <3>1
    <3>4. i - Len(a) + 1 = i + 1 - Len(a)
      BY <1>1, <1>4
    <3> QED BY <1>4, <2>2, <3>1, <3>2, <3>3, <3>4
  <2> QED BY <2>1, <2>2
<1>6. \A i, j \in DOMAIN m : i < j => Old(i) < Old(j)
  BY <1>1, <1>4
<1> HIDE DEF l, m, Old
<1>7. InOrder(m) /\ UpTo(m, w)
  <2>1. InOrder(l) /\ UpTo(l, w)
    BY DEF l
  <2> QED BY <1>5, <1>6, <2>1 DEF InOrder, UpTo
<1> QED BY <1>7 DEF m

\* Nor does it matter that the beginning of that line is left in the file.
LEMMA TearingKeepsOrder ==
  ASSUME NEW a \in Seq(Line), NEW p \in Seq(Line), p # <<>>, NEW w \in Nat,
         InOrder(a \o p), UpTo(a \o p, w)
  PROVE  InOrder(Append(a, Torn) \o Tail(p)) /\ UpTo(Append(a, Torn) \o Tail(p), w)
<1> DEFINE l == a \o p
           b == Append(a, Torn)
           m == b \o Tail(p)
<1>1. /\ Len(a) \in Nat /\ Len(p) \in Nat /\ Tail(p) \in Seq(Line) /\ Len(Tail(p)) = Len(p) - 1
      /\ Len(p) > 0 /\ \A i \in 1 .. Len(Tail(p)) : Tail(p)[i] = p[i + 1]
  BY LenProperties, HeadTailProperties, EmptySeq
<1>2. /\ l \in Seq(Line) /\ Len(l) = Len(a) + Len(p)
      /\ \A i \in 1 .. Len(a) + Len(p) : l[i] = IF i <= Len(a) THEN a[i] ELSE p[i - Len(a)]
  BY ConcatProperties
<1>3. /\ b \in Seq(Line) /\ Len(b) = Len(a) + 1 /\ b[Len(a) + 1] = Torn
      /\ \A i \in 1 .. Len(a) : b[i] = a[i]
  <2>1. Torn \in Line
    BY DEF Line
  <2> QED BY <2>1, AppendProperties
<1> HIDE DEF b
<1>4. /\ m \in Seq(Line) /\ Len(m) = Len(a) + Len(p)
      /\ \A i \in 1 .. Len(a) + Len(p) :
           m[i] = IF i <= Len(a) + 1 THEN b[i] ELSE Tail(p)[i - (Len(a) + 1)]
  <2>1. /\ m \in Seq(Line) /\ Len(m) = Len(b) + Len(Tail(p))
        /\ \A i \in 1 .. Len(b) + Len(Tail(p)) :
             m[i] = IF i <= Len(b) THEN b[i] ELSE Tail(p)[i - Len(b)]
    BY <1>1, <1>3, ConcatProperties
  <2>2. Len(b) + Len(Tail(p)) = Len(a) + Len(p)
    BY <1>1, <1>3
  <2> QED BY <1>3, <2>1, <2>2
<1>5. DOMAIN l = 1 .. Len(a) + Len(p) /\ DOMAIN m = 1 .. Len(a) + Len(p)
  BY <1>1, <1>2, <1>4, LenProperties
<1>6. ASSUME NEW i \in DOMAIN m, m[i] # Torn PROVE m[i] = l[i]
  <2>1. CASE i <= Len(a)
    BY <1>1, <1>2, <1>3, <1>4, <1>5, <2>1
  <2>2. CASE i = Len(a) + 1
    BY <1>1, <1>3, <1>4, <1>5, <1>6, <2>2
  <2>3. CASE i > Len(a) + 1
    <3>1. i - (Len(a) + 1) \in 1 .. Len(Tail(p))
      BY <1>1, <1>5, <2>3
    <3>2. m[i] = p[i - (Len(a) + 1) + 1]
      BY <1>1, <1>4, <1>5, <2>3, <3>1
    <3>3. l[i] = p[i - Len(a)] /\ i - (Len(a) + 1) + 1 = i - Len(a)
      BY <1>1, <1>2, <1>5, <2>3
    <3> QED BY <3>2, <3>3
  <2> QED BY <1>1, <1>5, <2>1, <2>2, <2>3
<1> HIDE DEF l, m
<1>7. InOrder(m) /\ UpTo(m, w)
  <2>1. InOrder(l) /\ UpTo(l, w)
    BY DEF l
  <2> QED BY <1>5, <1>6, <2>1 DEF InOrder, UpTo
<1> QED BY <1>7 DEF m, b

\* What a crash leaves of the chain is its beginning: nothing.
LEMMA FileIsInOrder ==
  ASSUME NEW a \in Seq(Line), NEW p \in Seq(Line), NEW w \in Nat,
         InOrder(a \o p), UpTo(a \o p, w)
  PROVE  InOrder(a) /\ UpTo(a, w)
<1>1. Len(a) \in Nat /\ Len(p) \in Nat /\ DOMAIN a = 1 .. Len(a)
  BY LenProperties
<1>2. /\ a \o p \in Seq(Line) /\ Len(a \o p) = Len(a) + Len(p)
      /\ \A i \in 1 .. Len(a) + Len(p) : (a \o p)[i] = IF i <= Len(a) THEN a[i] ELSE p[i - Len(a)]
  BY ConcatProperties
<1>3. DOMAIN (a \o p) = 1 .. Len(a) + Len(p)
  BY <1>1, <1>2, LenProperties
<1>4. \A i \in DOMAIN a : i \in DOMAIN (a \o p) /\ (a \o p)[i] = a[i]
  BY <1>1, <1>2, <1>3
<1> QED BY <1>4 DEF InOrder, UpTo

LEMMA LogInvInit == Init => LogInv
<1> SUFFICES ASSUME Init PROVE LogInv
  OBVIOUS
<1>1. aof = <<>> /\ pending = <<>> /\ written = 0
  BY DEF Init
<1>2. aof \in Seq(Line) /\ pending \in Seq(Record) /\ pending \in Seq(Line)
  BY <1>1, EmptySeq
<1>3. aof \o pending = <<>>
  BY <1>1, <1>2, ConcatEmptySeq
<1>4. DOMAIN (aof \o pending) = {}
  BY <1>3
<1> QED BY <1>1, <1>2, <1>4, TypesInit DEF LogInv, LogInOrder, InOrder, UpTo

LEMMA LogInvStep == LogInv /\ [Next]_vars => LogInv'
<1> SUFFICES ASSUME LogInv, [Next]_vars PROVE LogInv'
  OBVIOUS
<1>0. /\ aof \in Seq(Line) /\ pending \in Seq(Record) /\ pending \in Seq(Line) /\ written \in Nat
      /\ UpTo(aof \o pending, written) /\ InOrder(aof \o pending)
  BY LogTypes DEF LogInv, LogInOrder
<1>T. TypeOK'
  BY TypesStep DEF LogInv
<1>1. ASSUME NEW op \in setting.op, NEW db \in setting.db, Write(op, db) PROVE LogInv'
  <2> DEFINE r == [op |-> op, db |-> db, n |-> written + 1]
  <2>1. aof' = aof /\ written' = written + 1 /\ pending' \in {pending, Append(pending, r)}
    BY <1>1 DEF Write
  <2>2. r \in Record /\ r \in Line /\ r.n = written + 1
    BY <1>0, NewRecord DEF LogInv, Line
  <2> HIDE DEF r
  <2>3. CASE pending' = pending
    <3>1. UpTo(aof \o pending, written + 1)
      <4>1. aof \o pending \in Seq(Line)
        BY <1>0, ConcatProperties
      <4>2. \A i \in DOMAIN (aof \o pending) : (aof \o pending)[i] \in Line
        BY <4>1, ElementOfSeq, LenProperties
      <4>3. \A i \in DOMAIN (aof \o pending) :
              (aof \o pending)[i] # Torn => (aof \o pending)[i].n \in Nat
        BY <4>2, RecordNumber
      <4> QED BY <1>0, <4>3 DEF UpTo
    <3> QED BY <1>T, <1>0, <2>1, <2>3, <3>1 DEF LogInv, LogInOrder
  <2>4. CASE pending' = Append(pending, r)
    <3>1. Append(pending, r) \in Seq(Record)
      BY <1>0, <2>2, AppendProperties
    <3>2. aof \o Append(pending, r) = Append(aof \o pending, r)
      <4>1. Append(pending, r) = pending \o <<r>> /\ <<r>> \in Seq(Line)
        BY <1>0, <2>2, AppendIsConcat
      <4>2. aof \o pending \in Seq(Line)
        BY <1>0, ConcatProperties
      <4>3. Append(aof \o pending, r) = (aof \o pending) \o <<r>>
        BY <2>2, <4>2, AppendIsConcat
      <4> QED BY <1>0, <4>1, <4>3, ConcatAssociative
    <3>3. aof \o pending \in Seq(Line)
      BY <1>0, ConcatProperties
    <3>4. InOrder(Append(aof \o pending, r)) /\ UpTo(Append(aof \o pending, r), written + 1)
      BY <1>0, <2>2, <3>3, NewRecordKeepsOrder
    <3> QED BY <1>T, <1>0, <2>1, <2>4, <3>1, <3>2, <3>4 DEF LogInv, LogInOrder
  <2> QED BY <2>1, <2>3, <2>4
<1>2. CASE AppendCommand
  <2>1. /\ pending # <<>> /\ aof' = Append(aof, Head(pending)) /\ pending' = Tail(pending)
        /\ written' = written
    BY <1>2 DEF AppendCommand
  <2>2. Head(pending) \in Record /\ Tail(pending) \in Seq(Record) /\ Head(pending) \in Line
    BY <1>0, <2>1, HeadTailProperties DEF Line
  <2>3. aof' \in Seq(Line)
    BY <1>0, <2>1, <2>2, AppendProperties
  <2>4. aof' \o pending' = aof \o pending
    BY <1>0, <2>1, AppendingHeadKeepsConcat
  <2> QED BY <1>T, <1>0, <2>1, <2>2, <2>3, <2>4 DEF LogInv, LogInOrder
<1>3. CASE AppendFails
  <2>1. /\ pending # <<>> /\ aof' \in {aof, Append(aof, Torn)} /\ pending' = Tail(pending)
        /\ written' = written
    BY <1>3 DEF AppendFails
  <2>2. Tail(pending) \in Seq(Record) /\ Tail(pending) \in Seq(Line) /\ Torn \in Line
    BY <1>0, <2>1, HeadTailProperties DEF Line
  <2>3. InOrder(aof \o Tail(pending)) /\ UpTo(aof \o Tail(pending), written)
    BY <1>0, <2>1, DroppingKeepsOrder
  <2>4. CASE aof' = aof
    BY <1>T, <1>0, <2>1, <2>2, <2>3, <2>4 DEF LogInv, LogInOrder
  <2>5. CASE aof' = Append(aof, Torn)
    <3>1. InOrder(aof' \o Tail(pending)) /\ UpTo(aof' \o Tail(pending), written)
      BY <1>0, <2>1, <2>5, TearingKeepsOrder
    <3> QED BY <1>T, <1>0, <2>1, <3>1 DEF LogInv, LogInOrder
  <2> QED BY <2>1, <2>4, <2>5
<1>4. CASE Crash
  <2>1. pending' = <<>> /\ written' = written /\ aof' \in {aof, Append(aof, Torn)}
    BY <1>4 DEF Crash
  <2>2. InOrder(aof) /\ UpTo(aof, written)
    BY <1>0, FileIsInOrder
  <2>3. InOrder(Append(aof, Torn)) /\ UpTo(Append(aof, Torn), written)
    BY <1>0, <2>2, TornKeepsOrder
  <2>4. aof' \in Seq(Line) /\ <<>> \in Seq(Record)
    <3>1. Torn \in Line
      BY DEF Line
    <3> QED BY <1>0, <2>1, <3>1, AppendProperties, EmptySeq
  <2>5. aof' \o <<>> = aof'
    BY <2>4, ConcatEmptySeq
  <2>6. InOrder(aof') /\ UpTo(aof', written)
    BY <2>1, <2>2, <2>3
  <2> QED BY <1>T, <1>0, <2>1, <2>4, <2>5, <2>6 DEF LogInv, LogInOrder
<1>5. ASSUME UNCHANGED <<aof, pending, written>> PROVE LogInv'
  BY <1>T, <1>0, <1>5 DEF LogInv, LogInOrder, InOrder, UpTo
<1>6. ASSUME NEW s \in Saver,
             Save(s) \/ BgSave(s) \/ BgSaveTimer(s) \/ OpenFile(s) \/ FinishSave(s) \/ SaveFails(s)
      PROVE  LogInv'
  BY <1>5, <1>6 DEF Save, BgSave, BgSaveTimer, OpenFile, FinishSave, SaveFails
<1>7. CASE Start
  BY <1>5, <1>7 DEF Start
<1>8. CASE UNCHANGED vars
  BY <1>5, <1>8 DEF vars
<1> QED BY <1>1, <1>2, <1>3, <1>4, <1>6, <1>7, <1>8 DEF Next

\* The records in the AOF and in the promise chain are in the order the writes were
\* applied in: for every number of writes and crashes, and whatever faults happen.
THEOREM LogKeepsOrder == Spec => []LogInOrder
<1>1. LogInv => LogInOrder
  BY DEF LogInv
<1> QED BY <1>1, LogInvInit, LogInvStep, PTL DEF Spec
------------------------------------------------------------------------------
(* The snapshot *)

Copying(s) == savers[s].state \in {"copied", "writing"}

SnapshotInv ==
  /\ TypeOK
  /\ \A s \in Saver : Copying(s) => IsPrefix(savers[s].store, store)
  /\ ~up => \A s \in Saver : ~Copying(s)
  /\ SnapshotIsOneMoment
  /\ "snapshot" \notin setting.features =>
       snapshot.kind # "json" /\ \A s \in Saver : savers[s].state = "idle"

LEMMA SnapshotInvInit == Init => SnapshotInv
BY TypesInit DEF Init, SnapshotInv, Copying, NotSaving, NoFile, SnapshotIsOneMoment

LEMMA SnapshotInvStep == SnapshotInv /\ [Next]_vars => SnapshotInv'
<1> SUFFICES ASSUME SnapshotInv, [Next]_vars PROVE SnapshotInv'
  OBVIOUS
<1> USE DEF SnapshotInv
<1>T. TypeOK'
  BY TypesStep
<1>H. /\ store \in Seq(Record) /\ \A s \in Saver : Copying(s) => savers[s].store \in Seq(Record)
      /\ snapshot.kind = "json" => snapshot.store \in Seq(Record)
      /\ DOMAIN savers = Saver
  BY DEF TypeOK, History, SaverType, NotSaving, FileType, NoFile, Unreadable, Copying
<1>0. UNCHANGED <<setting, store, snapshot, savers, up>> => SnapshotInv'
  BY <1>T DEF Copying, SnapshotIsOneMoment
<1>1. ASSUME NEW op \in setting.op, NEW db \in setting.db, Write(op, db) PROVE SnapshotInv'
  <2> DEFINE r == [op |-> op, db |-> db, n |-> written + 1]
  <2>1. store' = Append(store, r) /\ UNCHANGED <<setting, up, snapshot, savers>>
    BY <1>1 DEF Write, saveVars
  <2>2. r \in Record
    BY NewRecord
  <2> HIDE DEF r
  <2>3. \A q \in Seq(Record) : IsPrefix(q, store) => IsPrefix(q, store')
    BY <1>H, <2>1, <2>2, PrefixOfAppend
  <2> QED BY <1>T, <1>H, <2>1, <2>3 DEF Copying, SnapshotIsOneMoment
<1>2. CASE AppendCommand \/ AppendFails
  BY <1>0, <1>2 DEF AppendCommand, AppendFails, saveVars
<1>P. IsPrefix(store, store)
  BY <1>H, PrefixOfItself
<1>3. ASSUME NEW s \in Saver, Save(s) PROVE SnapshotInv'
  BY <1>T, <1>H, <1>P, <1>3 DEF Save, Copying, SnapshotIsOneMoment
<1>4. ASSUME NEW s \in Saver, BgSave(s) PROVE SnapshotInv'
  BY <1>T, <1>H, <1>4 DEF BgSave, Copying, SnapshotIsOneMoment
<1>5. ASSUME NEW s \in Saver, BgSaveTimer(s) PROVE SnapshotInv'
  BY <1>T, <1>H, <1>P, <1>5 DEF BgSaveTimer, Copying, SnapshotIsOneMoment, NotSaving
<1>6. ASSUME NEW s \in Saver, OpenFile(s), NEW x \in Saver, Copying(x)'
      PROVE  Copying(x) /\ savers'[x].store = savers[x].store
  <2>1. CASE x = s
    BY <1>6, <2>1 DEF OpenFile, Copying
  <2>2. CASE x # s /\ x \in Writing
    <3>1. savers'[x] = [savers[x] EXCEPT !.others = savers[x].others \cup {savers[s].store}]
      BY <1>6, <2>2 DEF OpenFile
    <3>2. savers[x] \in [state : {"writing"}, bg : BOOLEAN, store : History, others : SUBSET History]
      BY <2>2 DEF TypeOK, SaverType, NotSaving, Writing
    <3>3. savers'[x].store = savers[x].store
      BY <3>1, <3>2
    <3> QED BY <2>2, <3>3 DEF Copying, Writing
  <2>3. CASE x # s /\ x \notin Writing
    BY <1>6, <2>3 DEF OpenFile, Copying
  <2> QED BY <2>1, <2>2, <2>3
<1>7. ASSUME NEW s \in Saver, OpenFile(s) PROVE SnapshotInv'
  <2>1. /\ snapshot'.kind # "json" /\ UNCHANGED <<setting, up, store>> /\ up
        /\ "snapshot" \in setting.features
    BY <1>7 DEF OpenFile, Unreadable
  <2> QED BY <1>T, <1>6, <1>7, <2>1 DEF SnapshotIsOneMoment
<1>8. ASSUME NEW s \in Saver, FinishSave(s) \/ SaveFails(s) PROVE SnapshotInv'
  <2>1. /\ UNCHANGED <<setting, up, store>> /\ Copying(s) /\ up /\ "snapshot" \in setting.features
        /\ savers' = [savers EXCEPT ![s] = NotSaving]
    BY <1>8 DEF FinishSave, SaveFails, Copying
  <2>2. \A x \in Saver : Copying(x)' => Copying(x) /\ savers'[x].store = savers[x].store
    BY <1>H, <2>1 DEF Copying, NotSaving
  <2>3. SnapshotIsOneMoment'
    <3>1. CASE FinishSave(s)
      <4>1. savers[s] \in [state : {"writing"}, bg : BOOLEAN, store : History, others : SUBSET History]
        BY <3>1 DEF FinishSave, TypeOK, SaverType, NotSaving
      <4>2. snapshot'.kind = "json" /\ snapshot'.alone => snapshot'.store = savers[s].store
        BY <3>1, <4>1, FinishedFile
      <4> QED BY <2>1, <4>2 DEF SnapshotIsOneMoment
    <3>2. CASE SaveFails(s)
      BY <2>1, <3>2 DEF SaveFails, SnapshotIsOneMoment
    <3> QED BY <1>8, <3>1, <3>2
  <2> QED BY <1>T, <2>1, <2>2, <2>3
<1>9. CASE Crash
  BY <1>T, <1>9 DEF Crash, Copying, NotSaving, SnapshotIsOneMoment
<1>10. CASE Start
  <2> DEFINE loaded == IF snapshot.kind = "json" THEN snapshot.store ELSE <<>>
             old    == IF "snapshot" \in setting.features THEN loaded ELSE <<>>
             tail(n, g) == IF "aof" \in setting.features THEN InDb0(Readable(aof, n, g)) ELSE <<>>
  <2>1. ~up /\ UNCHANGED <<setting, snapshot, savers>>
    BY <1>10 DEF Start, saveVars
  <2>2. PICK n \in 0 .. Len(aof), g \in Forged : store' = old \o tail(n, g)
    BY <1>10 DEF Start
  <2>3. <<>> \in Seq(Record)
    BY EmptySeq
  <2>4. old \in Seq(Record)
    BY <1>H, <2>3
  <2>5. tail(n, g) \in Seq(Record)
    <3>1. aof \in Seq(Line) /\ n \in Nat /\ g \in History
      BY LogTypes, ForgedIsHistory, LenProperties
    <3> QED BY <2>3, <3>1, ReadableIsHistory, ReplayIsHistory DEF History
  <2> HIDE DEF tail
  <2>6. IsPrefix(old, store')
    BY <2>2, <2>4, <2>5, PrefixOfConcat
  <2>7. snapshot.kind = "json" => old = snapshot.store
    OBVIOUS
  <2> HIDE DEF old
  <2> QED BY <1>T, <2>1, <2>6, <2>7 DEF Copying, SnapshotIsOneMoment
<1>11. CASE UNCHANGED vars
  BY <1>0, <1>11 DEF vars
<1> QED BY <1>1, <1>2, <1>3, <1>4, <1>5, <1>7, <1>8, <1>9, <1>10, <1>11 DEF Next

\* However many writes and saves there are, and whatever crashes tear and disks refuse: a
\* snapshot that can be read, and that no other save overlapped, is one moment of the store.
THEOREM SnapshotKeepsOneMoment == Spec => []SnapshotIsOneMoment
<1>1. SnapshotInv => SnapshotIsOneMoment
  BY DEF SnapshotInv
<1> QED BY <1>1, SnapshotInvStep, SnapshotInvInit, PTL DEF Spec
------------------------------------------------------------------------------
(* The flag of BGSAVE *)

\* It is set while a background save is under way, and two never are.
FlagInv ==
  /\ TypeOK
  /\ bgsave => \E s \in Saver : IsBackground(s)
  /\ \A s \in Saver : IsBackground(s) => bgsave
  /\ \A s, x \in Saver : IsBackground(s) /\ IsBackground(x) => s = x

\* A saver whose entry becomes another is in the background as that entry says.
IsBackgroundAs(n) == n.state = "scheduled" \/ (n # NotSaving /\ n.bg = TRUE)

LEMMA FlagStep ==
  ASSUME FlagInv, TypeOK', NEW s \in Saver,
         \A x \in Saver : x # s => (IsBackground(x)' <=> IsBackground(x)),
         \/ bgsave' = bgsave /\ (IsBackground(s)' <=> IsBackground(s))
         \/ ~bgsave /\ bgsave' = TRUE /\ IsBackground(s)'
         \/ IsBackground(s) /\ bgsave' = FALSE /\ ~IsBackground(s)'
  PROVE  FlagInv'
<1>1. CASE bgsave' = bgsave /\ (IsBackground(s)' <=> IsBackground(s))
  <2>1. \A x \in Saver : IsBackground(x)' <=> IsBackground(x)
    BY <1>1
  <2> QED BY <1>1, <2>1 DEF FlagInv
<1>2. CASE ~bgsave /\ bgsave' = TRUE /\ IsBackground(s)'
  BY <1>2 DEF FlagInv
<1>3. CASE IsBackground(s) /\ bgsave' = FALSE /\ ~IsBackground(s)'
  BY <1>3 DEF FlagInv
<1> QED BY <1>1, <1>2, <1>3

LEMMA FlagInvInit == Init => FlagInv
BY TypesInit DEF Init, FlagInv, IsBackground, NotSaving

LEMMA FlagInvStep == FlagInv /\ [Next]_vars => FlagInv'
<1> SUFFICES ASSUME FlagInv, [Next]_vars PROVE FlagInv'
  OBVIOUS
<1>T. TypeOK'
  BY TypesStep DEF FlagInv
<1>0. savers \in [Saver -> SaverType] /\ bgsave \in BOOLEAN
  BY DEF FlagInv, TypeOK
<1>1. UNCHANGED <<savers, bgsave>> => FlagInv'
  BY <1>T DEF FlagInv, IsBackground
<1>2. ASSUME NEW s \in Saver, Save(s) PROVE FlagInv'
  <2>1. /\ savers' = [savers EXCEPT ![s] = [state |-> "copied", bg |-> FALSE, store |-> store]]
        /\ savers[s] = NotSaving /\ bgsave' = bgsave
    BY <1>2 DEF Save
  <2>2. ~IsBackground(s) /\ ~IsBackground(s)'
    BY <1>0, <2>1 DEF IsBackground, NotSaving
  <2>3. \A x \in Saver : x # s => (IsBackground(x)' <=> IsBackground(x))
    BY <1>0, <2>1 DEF IsBackground
  <2> QED BY <1>T, <2>1, <2>2, <2>3, FlagStep
<1>3. ASSUME NEW s \in Saver, BgSave(s) PROVE FlagInv'
  <2>1. /\ savers' = [savers EXCEPT ![s] = [state |-> "scheduled"]]
        /\ ~bgsave /\ bgsave' = TRUE
    BY <1>3 DEF BgSave
  <2>2. IsBackground(s)'
    BY <1>0, <2>1 DEF IsBackground
  <2>3. \A x \in Saver : x # s => (IsBackground(x)' <=> IsBackground(x))
    BY <1>0, <2>1 DEF IsBackground
  <2> QED BY <1>T, <2>1, <2>2, <2>3, FlagStep
<1>4. ASSUME NEW s \in Saver, BgSaveTimer(s) PROVE FlagInv'
  <2>1. IsBackground(s)
    BY <1>4 DEF BgSaveTimer, IsBackground
  <2>2. CASE CanSerialize(store)
    <3>1. /\ savers' = [savers EXCEPT ![s] = [state |-> "copied", bg |-> TRUE, store |-> store]]
          /\ bgsave' = bgsave
      BY <1>4, <2>2 DEF BgSaveTimer
    <3>2. IsBackground(s)'
      BY <1>0, <3>1 DEF IsBackground, NotSaving
    <3>3. \A x \in Saver : x # s => (IsBackground(x)' <=> IsBackground(x))
      BY <1>0, <3>1 DEF IsBackground
    <3> QED BY <1>T, <2>1, <3>1, <3>2, <3>3, FlagStep
  <2>3. CASE ~CanSerialize(store)
    <3>1. savers' = [savers EXCEPT ![s] = NotSaving] /\ bgsave' = FALSE
      BY <1>4, <2>3 DEF BgSaveTimer
    <3>2. ~IsBackground(s)'
      BY <1>0, <3>1 DEF IsBackground, NotSaving
    <3>3. \A x \in Saver : x # s => (IsBackground(x)' <=> IsBackground(x))
      BY <1>0, <3>1 DEF IsBackground
    <3> QED BY <1>T, <2>1, <3>1, <3>2, <3>3, FlagStep
  <2> QED BY <2>2, <2>3
<1>5. ASSUME NEW s \in Saver, OpenFile(s), NEW x \in Saver, x # s
      PROVE  IsBackground(x)' <=> IsBackground(x)
  <2>1. CASE x \in Writing
    <3>1. savers'[x] = [savers[x] EXCEPT !.others = savers[x].others \cup {savers[s].store}]
      BY <1>5, <2>1 DEF OpenFile
    <3>2. savers[x] \in [state : {"writing"}, bg : BOOLEAN, store : History, others : SUBSET History]
      BY <1>0, <2>1 DEF SaverType, NotSaving, Writing
    <3>3. savers'[x].state = "writing" /\ savers'[x].bg = savers[x].bg /\ savers[x].state = "writing"
      BY <3>1, <3>2
    <3> QED BY <3>3 DEF IsBackground, NotSaving
  <2>2. CASE x \notin Writing
    <3>1. savers'[x] = savers[x]
      BY <1>5, <2>2 DEF OpenFile
    <3> QED BY <3>1 DEF IsBackground
  <2> QED BY <2>1, <2>2
<1>7. ASSUME NEW s \in Saver, OpenFile(s) PROVE FlagInv'
  <2>1. /\ savers'[s].state = "writing" /\ savers'[s].bg = savers[s].bg
        /\ savers[s].state = "copied" /\ bgsave' = bgsave
    BY <1>7 DEF OpenFile
  <2>2. IsBackground(s)' <=> IsBackground(s)
    BY <2>1 DEF IsBackground, NotSaving
  <2> QED BY <1>T, <1>5, <1>7, <2>1, <2>2, FlagStep
<1>8. ASSUME NEW s \in Saver, FinishSave(s) \/ SaveFails(s) PROVE FlagInv'
  <2>1. /\ savers' = [savers EXCEPT ![s] = NotSaving] /\ savers[s].state \in {"copied", "writing"}
        /\ bgsave' = (bgsave /\ ~savers[s].bg)
    BY <1>8 DEF FinishSave, SaveFails
  <2>2. ~IsBackground(s)' /\ (IsBackground(s) <=> savers[s].bg)
    BY <1>0, <2>1 DEF IsBackground, NotSaving
  <2>3. savers[s].bg \in BOOLEAN
    BY <1>0, <2>1 DEF SaverType, NotSaving
  <2>6. \A x \in Saver : x # s => (IsBackground(x)' <=> IsBackground(x))
    BY <1>0, <2>1 DEF IsBackground
  <2>4. CASE IsBackground(s)
    <3>1. bgsave' = FALSE
      BY <2>1, <2>2, <2>4
    <3> QED BY <1>T, <2>2, <2>4, <2>6, <3>1, FlagStep
  <2>5. CASE ~IsBackground(s)
    <3>1. bgsave' = bgsave
      BY <1>0, <2>1, <2>2, <2>5
    <3> QED BY <1>T, <2>2, <2>5, <2>6, <3>1, FlagStep
  <2> QED BY <2>4, <2>5
<1>9. CASE Crash
  BY <1>T, <1>9 DEF Crash, FlagInv, IsBackground, NotSaving
<1>10. ASSUME NEW op \in setting.op, NEW db \in setting.db, Write(op, db) PROVE FlagInv'
  BY <1>1, <1>10 DEF Write, saveVars
<1>11. CASE AppendCommand \/ AppendFails \/ Start \/ UNCHANGED vars
  BY <1>1, <1>11 DEF AppendCommand, AppendFails, Start, saveVars, vars
<1> QED BY <1>2, <1>3, <1>4, <1>7, <1>8, <1>9, <1>10, <1>11 DEF Next

\* _bgsaveInProgress is set exactly while a background save is under way, one that fails and
\* one that a crash ends included, and so at most one is, however many clients ask.
THEOREM BgSaveFlagStaysExact == Spec => []BgSaveFlagIsExact
<1>1. FlagInv => BgSaveFlagIsExact
  <2> SUFFICES ASSUME FlagInv PROVE BgSaveFlagIsExact
    OBVIOUS
  <2> DEFINE B == {s \in Saver : IsBackground(s)}
  <2>1. bgsave <=> B # {}
    BY DEF FlagInv, TypeOK
  <2>2. B = {} \/ \E s : B = {s}
    BY DEF FlagInv
  <2>3. Cardinality(B) <= 1
    <3>1. Cardinality({}) = 0 /\ \A s : Cardinality({s}) = 1
      BY FS_EmptySet, FS_Singleton
    <3> HIDE DEF B
    <3>2. Cardinality(B) = 0 \/ Cardinality(B) = 1
      BY <2>2, <3>1
    <3> QED BY <3>2
  <2> QED BY <2>1, <2>3 DEF BgSaveFlagIsExact
<1> QED BY <1>1, FlagInvStep, FlagInvInit, PTL DEF Spec
------------------------------------------------------------------------------
(* The AOF alone *)

InDb0Only(h) == \A i \in DOMAIN h : h[i].db = 0

HistoryInv ==
  /\ TypeOK
  /\ LogAlone => aof \in History /\ InDb0Only(store) /\ InDb0Only(aof) /\ LogIsHistory

LEMMA HistoryInvInit == Init => HistoryInv
<1> SUFFICES ASSUME Init PROVE HistoryInv
  OBVIOUS
<1>1. <<>> \in History /\ <<>> \o <<>> = <<>> /\ InDb0Only(<<>>)
  BY EmptySeq, ConcatEmptySeq DEF History, InDb0Only
<1> QED BY <1>1, TypesInit DEF Init, HistoryInv, LogIsHistory

\* The file is a beginning of the history, at all times.
LEMMA FileIsABeginning ==
  ASSUME HistoryInv, LogAlone
  PROVE  aof \in History /\ store \in History /\ pending \in History /\ IsPrefix(aof, store)
<1>1. aof \in History /\ store \in History /\ pending \in History /\ LogIsHistory
  BY DEF HistoryInv, TypeOK
<1> QED BY <1>1, PrefixOfConcat DEF LogIsHistory, History

\* A process that starts finds the file.
LEMMA StartFindsTheFile ==
  ASSUME HistoryInv, LogAlone, Start PROVE store' = aof
<1>1. PICK n \in 0 .. Len(aof), g \in Forged : store' = <<>> \o InDb0(Readable(aof, n, g))
  BY DEF Start, LogAlone
<1>2. aof \in History /\ InDb0Only(aof) /\ n \in Nat /\ g \in History
  BY ForgedIsHistory, LenProperties DEF HistoryInv, History
<1>3. Readable(aof, n, g) = aof /\ InDb0(aof) = aof
  BY <1>2, WholeFileIsReadable, ReplayInDb0 DEF InDb0Only
<1> QED BY <1>1, <1>2, <1>3, ConcatEmptySeq DEF History

LEMMA HistoryInvStep == HistoryInv /\ [Next]_vars => HistoryInv'
<1> SUFFICES ASSUME HistoryInv, [Next]_vars PROVE HistoryInv'
  OBVIOUS
<1>T. TypeOK'
  BY TypesStep DEF HistoryInv
<1>S. setting' = setting
  BY DEF Next, Write, AppendCommand, AppendFails, Save, BgSave, BgSaveTimer, OpenFile,
         FinishSave, SaveFails, Crash, Start, vars
<1> SUFFICES ASSUME LogAlone
             PROVE  (aof \in History /\ InDb0Only(store) /\ InDb0Only(aof) /\ LogIsHistory)'
  BY <1>T, <1>S DEF HistoryInv, LogAlone
<1>H. /\ aof \in History /\ InDb0Only(store) /\ InDb0Only(aof) /\ LogIsHistory
      /\ store \in History /\ pending \in History /\ IsPrefix(aof, store)
  BY FileIsABeginning DEF HistoryInv
<1>0. UNCHANGED <<up, store, aof, pending>>
        => (aof \in History /\ InDb0Only(store) /\ InDb0Only(aof) /\ LogIsHistory)'
  BY <1>H DEF LogIsHistory, InDb0Only
<1>1. ASSUME NEW op \in setting.op, NEW db \in setting.db, Write(op, db)
      PROVE  (aof \in History /\ InDb0Only(store) /\ InDb0Only(aof) /\ LogIsHistory)'
  <2> DEFINE r == [op |-> op, db |-> db, n |-> written + 1]
  <2>1. /\ store' = Append(store, r) /\ pending' = Append(pending, r)
        /\ aof' = aof /\ up /\ up' = up
    BY <1>1 DEF Write, LogAlone
  <2>2. r \in Record /\ r.db = 0
    BY NewRecord DEF LogAlone, HistoryInv
  <2> HIDE DEF r
  <2>3. aof \o Append(pending, r) = Append(aof \o pending, r)
    <3>1. Append(pending, r) = pending \o <<r>> /\ <<r>> \in History
      BY <1>H, <2>2, AppendIsConcat DEF History
    <3>2. Append(aof \o pending, r) = (aof \o pending) \o <<r>>
      BY <1>H, <2>2, ConcatProperties, AppendIsConcat DEF History
    <3> QED BY <1>H, <3>1, <3>2, ConcatAssociative DEF History
  <2>4. InDb0Only(store')
    <3>1. /\ Len(store) \in Nat /\ DOMAIN store = 1 .. Len(store)
          /\ Len(store') = Len(store) + 1 /\ store'[Len(store) + 1] = r
          /\ \A i \in 1 .. Len(store) : store'[i] = store[i]
          /\ store' \in Seq(Record)
      BY <1>H, <2>1, <2>2, AppendProperties, LenProperties DEF History
    <3>2. DOMAIN store' = 1 .. Len(store) + 1
      BY <3>1, LenProperties
    <3>3. \A i \in DOMAIN store' : i = Len(store) + 1 \/ i \in DOMAIN store
      BY <3>1, <3>2
    <3> QED BY <1>H, <2>2, <3>1, <3>3 DEF InDb0Only
  <2> QED BY <1>H, <2>1, <2>3, <2>4 DEF LogIsHistory
<1>2. CASE AppendCommand
  <2>1. /\ pending # <<>> /\ aof' = Append(aof, Head(pending)) /\ pending' = Tail(pending)
        /\ up /\ UNCHANGED <<up, store>>
    BY <1>2 DEF AppendCommand
  <2>2. aof' \in History /\ pending' \in History
    BY <1>H, <2>1, HeadTailProperties, AppendProperties DEF History
  <2>3. aof' \o pending' = aof \o pending
    BY <1>H, <2>1, AppendingHeadKeepsConcat DEF History
  <2>4. aof' \o pending' = store
    BY <1>H, <2>1, <2>3 DEF LogIsHistory
  <2>5. InDb0Only(aof')
    <3>1. IsPrefix(aof', store)
      BY <2>2, <2>4, PrefixOfConcat DEF History
    <3>2. Len(aof') <= Len(store) /\ \A i \in 1 .. Len(aof') : aof'[i] = store[i]
      BY <1>H, <2>2, <3>1, PrefixIsPointwise DEF History
    <3>3. /\ DOMAIN aof' = 1 .. Len(aof') /\ DOMAIN store = 1 .. Len(store)
          /\ Len(aof') \in Nat /\ Len(store) \in Nat
      BY <1>H, <2>2, LenProperties DEF History
    <3> QED BY <1>H, <3>2, <3>3 DEF InDb0Only
  <2> QED BY <1>H, <2>1, <2>2, <2>4, <2>5 DEF LogIsHistory
<1>3. CASE Crash
  <2>1. /\ up' = FALSE /\ pending' = <<>> /\ aof' = aof /\ store' = store
    BY <1>3 DEF Crash, LogAlone
  <2> QED BY <1>H, <2>1 DEF LogIsHistory
<1>4. CASE Start
  <2>1. /\ ~up /\ up' = TRUE /\ pending = <<>> /\ UNCHANGED <<pending, aof>>
    BY <1>H, <1>4 DEF Start, LogIsHistory
  <2>2. store' = aof
    BY <1>4, StartFindsTheFile
  <2>3. aof \o <<>> = aof
    BY <1>H, ConcatEmptySeq DEF History
  <2> QED BY <1>H, <2>1, <2>2, <2>3 DEF LogIsHistory
<1>5. ASSUME NEW s \in Saver,
             Save(s) \/ BgSave(s) \/ BgSaveTimer(s) \/ OpenFile(s) \/ FinishSave(s) \/ SaveFails(s)
      PROVE  (aof \in History /\ InDb0Only(store) /\ InDb0Only(aof) /\ LogIsHistory)'
  BY <1>0, <1>5 DEF Save, BgSave, BgSaveTimer, OpenFile, FinishSave, SaveFails
<1>6. CASE UNCHANGED vars
  BY <1>0, <1>6 DEF vars
<1>7. ~AppendFails
  BY DEF AppendFails, LogAlone
<1> QED BY <1>1, <1>2, <1>3, <1>4, <1>5, <1>6, <1>7 DEF Next

\* With the AOF alone, database 0, commands that are logged and no faults, the file and
\* the chain are the store's history, through any number of restarts.
THEOREM LogIsTheHistory == Spec => []LogIsHistoryAlone
<1>1. HistoryInv => LogIsHistoryAlone
  BY DEF HistoryInv, LogIsHistoryAlone
<1> QED BY <1>1, HistoryInvStep, HistoryInvInit, PTL DEF Spec

\* In that setting a process that starts, after any number of crashes before, finds the
\* store as it was after some write, and every record that had reached the file.
THEOREM RecoveryIsExact == Spec => RecoveryIsExactAlone
<1>1. HistoryInv /\ [Next]_vars => [LogAlone => RecoversAPast /\ KeepsNumbers]_vars
  <2> SUFFICES ASSUME HistoryInv, LogAlone, Start
               PROVE  /\ \E n \in 0 .. Len(store) : Result(store') = Result(SubSeq(store, 1, n))
                      /\ Numbers(aof) \subseteq Numbers(store')
    BY DEF RecoversAPast, KeepsNumbers
  <2>1. store' = aof
    BY StartFindsTheFile
  <2>2. aof \in History /\ store \in History /\ IsPrefix(aof, store)
    BY FileIsABeginning
  <2>3. /\ Len(aof) \in Nat /\ Len(store) \in Nat /\ Len(aof) <= Len(store)
        /\ \A i \in 1 .. Len(aof) : aof[i] = store[i] /\ store[i] \in Record
    BY <2>2, PrefixIsPointwise, LenProperties, ElementOfSeq DEF History
  <2>4. /\ SubSeq(store, 1, Len(aof)) \in Seq(Record) /\ Len(SubSeq(store, 1, Len(aof))) = Len(aof)
        /\ \A i \in 1 .. Len(aof) : SubSeq(store, 1, Len(aof))[i] = store[i]
    BY <2>2, <2>3, SubSeqProperties DEF History
  <2>5. SubSeq(store, 1, Len(aof)) = aof
    BY <2>2, <2>3, <2>4, SeqEqual DEF History
  <2>6. Result(store') = Result(SubSeq(store, 1, Len(aof)))
    BY <2>1, <2>5, Zenon
  <2>8. Len(aof) \in 0 .. Len(store)
    BY <2>3
  <2>7. Numbers(aof) \subseteq Numbers(store')
    BY <2>1
  <2> QED BY <2>6, <2>7, <2>8
<1> QED BY <1>1, HistoryInvStep, HistoryInvInit, PTL DEF Spec, RecoveryIsExactAlone
==============================================================================
