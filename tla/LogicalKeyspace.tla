--------------------------- MODULE LogicalKeyspace ---------------------------
(***************************************************************************)
(* What the keyspace promises its clients: one map from a key to its value *)
(* and the time it lives until.  A key is gone at that very moment: there  *)
(* are no purges and no dead keys to meet.  `call' is the command last     *)
(* served, with its arguments, and `reply' its answer.  Keyspace is shown  *)
(* to implement this.                                                      *)
(***************************************************************************)
EXTENDS Entries, FiniteSets

CONSTANTS Key, Second, MaxTime, Seconds, Millis

VARIABLES db,      \* key -> [entry, at]: the keys that are alive
          now, call, reply

vars == <<db, now, call, reply>>

Forever == -1

Has(k)      == k \in DOMAIN db
IsA(k, t)   == Has(k) /\ db[k].entry.type = t
Data(k)     == db[k].entry.data
Life(k)     == IF Has(k) THEN db[k].at ELSE Forever
Old(k)      == IF IsA(k, "string") THEN Bulk(Data(k)) ELSE Nil
Refusal(k)  == IF Has(k) THEN WrongType ELSE Nil

With(m, k, e, at) ==
  [x \in DOMAIN m \cup {k} |-> IF x = k THEN [entry |-> e, at |-> at] ELSE m[x]]
Without(m, K) == [x \in DOMAIN m \ K |-> m[x]]

\* A life that is already over leaves nothing behind.
AliveAt(m, t) == Without(m, {k \in DOMAIN m : m[k].at # Forever /\ m[k].at <= t})

\* The time n units from now; a count that is not positive is over at once.
After(n) == now + (IF n > 0 THEN n ELSE 0)

Calls(op, args) == call' = <<op, args>> /\ now' = now
Become(m, r)    == db' = AliveAt(m, now) /\ reply' = r
Say(r)          == Become(db, r)
\* Only a key that is there gets a new life; otherwise the answer is r.
LiveUntil(k, at, r, otherwise) ==
  IF Has(k) THEN Become(With(db, k, db[k].entry, at), r) ELSE Say(otherwise)
------------------------------------------------------------------------------
Init == db = [x \in {} |-> Forever] /\ now = 0 /\ reply = Nil /\ call = <<"none", <<>>>>

Times == 0 .. MaxTime + 1
Lives == {Forever} \cup Times
Sides == {"left", "right"}

Reads ==
  \/ \E k \in Key : Calls("GET", <<k>>) /\
       Say(IF IsA(k, "string") THEN Old(k) ELSE Refusal(k))
  \/ \E j, k \in Key : Calls("MGET", <<j, k>>) /\ Say(Arr(<<Old(j), Old(k)>>))
  \/ \E k \in Key, t \in {"string", "list"} : Calls("LEN", <<k, t>>) /\
       Say(CASE IsA(k, t) -> Num(Len(Data(k))) [] ~Has(k) -> Num(0)
             [] OTHER -> WrongType)
  \/ \E K \in SUBSET Key : Calls("EXISTS", <<K>>) /\ Say(Num(Cardinality(K \cap DOMAIN db)))
  \/ \E k \in Key : Calls("TYPE", <<k>>) /\
       Say(Bulk(IF Has(k) THEN db[k].entry.type ELSE "none"))
  \/ Calls("KEYS", <<>>) /\ Say(Arr(DOMAIN db))
  \/ \E k \in Key, unit \in {1, Second} : Calls("TTL", <<k, unit>>) /\
       Say(Num(CASE ~Has(k) -> -2
                 [] Has(k) /\ Life(k) = Forever -> -1
                 [] OTHER -> -((now - Life(k)) \div unit)))
  \* These two answer an estimate: keys whose life is over may be counted.
  \/ Calls("DBSIZE", <<>>) /\ \E n \in Cardinality(DOMAIN db) .. Cardinality(Key) : Say(Num(n))
  \/ Calls("RANDOMKEY", <<>>) /\
       (\/ \E k \in Key : Say(Bulk(k))
        \/ DOMAIN db = {} /\ Say(Nil))

Overwrites ==
  \/ \E k \in Key, a \in Atom, cond \in {"always", "NX", "XX"},
        get, keep \in BOOLEAN, at \in Lives :
       /\ Calls("SET", <<k, a, cond, get, keep, at>>)
       /\ IF cond = "always" \/ (cond = "XX" <=> Has(k))
          THEN Become(With(db, k, Text(<<a>>),
                           IF keep /\ at = Forever THEN Life(k) ELSE at),
                      IF get THEN Old(k) ELSE Ok)
          ELSE Say(Nil)
  \/ \E k \in Key : Calls("SET refused", <<k>>) /\ Say(BadValue)
  \/ \E k \in Key, a \in Atom : Calls("SETNX", <<k, a>>) /\
       IF Has(k) THEN Say(Num(0)) ELSE Become(With(db, k, Text(<<a>>), Forever), Num(1))
  \/ \E k \in Key, a \in Atom, s \in Seconds : Calls("SETEX", <<k, a, s>>) /\
       IF s > 0 THEN Become(With(db, k, Text(<<a>>), now + s * Second), Ok) ELSE Say(BadValue)
  \/ \E k \in Key, a \in Atom : Calls("GETSET", <<k, a>>) /\
       IF Has(k) => IsA(k, "string")
       THEN Become(With(db, k, Text(<<a>>), Forever), Old(k)) ELSE Say(WrongType)
  \/ \E K \in SUBSET Key, a \in Atom : Calls("MSET", <<K, a>>) /\
       Become([x \in DOMAIN db \cup K |->
                 IF x \in K THEN [entry |-> Text(<<a>>), at |-> Forever] ELSE db[x]], Ok)
  \/ \E j, k \in Key, a \in Atom : Calls("MSETNX", <<j, k, a>>) /\
       IF {j, k} \cap DOMAIN db # {} THEN Say(Num(0))
       ELSE Become(With(With(db, j, Text(<<a>>), Forever), k, Text(<<a>>), Forever), Num(1))

Edits ==
  \/ \E k \in Key, a \in Atom : Calls("APPEND", <<k, a>>) /\
       LET e == Appended(IF Has(k) THEN db[k].entry ELSE Text(<<>>), a)
       IN  Become(With(db, k, e, Life(k)), Num(Len(e.data)))
  \/ \E k \in Key, a \in Atom, side \in Sides : Calls("PUSH", <<k, a, side>>) /\
       LET e == IF Has(k) THEN db[k].entry ELSE Items(<<>>)
       IN  IF CanPush(e)
           THEN Become(With(db, k, Pushed(e, a, side), Life(k)), Num(Len(e.data) + 1))
           ELSE Say(Crash)
  \/ \E k \in Key, side \in Sides : Calls("POP", <<k, side>>) /\
       CASE ~IsA(k, "list")                    -> Say(Refusal(k))
         [] IsA(k, "list") /\ Data(k) = <<>>   -> Say(Nil)
         [] OTHER -> IF CanPop(db[k].entry)
                     THEN Become(With(db, k, Popped(db[k].entry, side), Life(k)),
                                 Bulk(PopValue(db[k].entry, side)))
                     ELSE Say(Crash)
  \* An element that cannot be pushed has left its source all the same.
  \/ \E s, d \in Key : Calls("RPOPLPUSH", <<s, d>>) /\
       CASE ~IsA(s, "list")                    -> Say(Refusal(s))
         [] IsA(s, "list") /\ Data(s) = <<>>   -> Say(Nil)
         [] OTHER -> IF ~CanPop(db[s].entry) THEN Say(Crash)
                     ELSE LET v == PopValue(db[s].entry, "right")
                              m == With(db, s, Popped(db[s].entry, "right"), Life(s))
                              e == IF d \in DOMAIN m THEN m[d].entry ELSE Items(<<>>)
                          IN  IF CanPush(e)
                              THEN Become(With(m, d, Pushed(e, v, "left"), Life(d)), Bulk(v))
                              ELSE Become(m, Crash)

Removals ==
  \/ \E K \in SUBSET Key : Calls("DEL", <<K>>) /\
       Become(Without(db, K), Num(Cardinality(K \cap DOMAIN db)))
  \/ \E k \in Key : Calls("GETDEL", <<k>>) /\
       IF IsA(k, "string") THEN Become(Without(db, {k}), Old(k)) ELSE Say(Refusal(k))
  \/ Calls("FLUSHDB", <<>>) /\ Become(Without(db, Key), Ok)
  \* A key renamed to itself is gone.
  \/ \E s, d \in Key : Calls("RENAME", <<s, d>>) /\
       IF Has(s) THEN Become(Without(With(db, d, db[s].entry, Life(s)), {s}), Ok)
       ELSE Say(NoSuchKey)
  \/ \E s, d \in Key : Calls("RENAMENX", <<s, d>>) /\
       IF ~Has(s) THEN Say(NoSuchKey)
       ELSE IF Has(d) THEN Say(Num(0))
       ELSE Become(Without(With(db, d, db[s].entry, Life(s)), {s}), Num(1))

Lifetimes ==
  \/ \E k \in Key, s \in Seconds :
       Calls("EXPIRE", <<k, s>>) /\ LiveUntil(k, After(s * Second), Num(1), Num(0))
  \/ \E k \in Key, ms \in Millis :
       Calls("PEXPIRE", <<k, ms>>) /\ LiveUntil(k, After(ms), Num(1), Num(0))
  \/ \E k \in Key, t \in Times : Calls("EXPIREAT", <<k, t>>) /\ LiveUntil(k, t, Num(1), Num(0))
  \/ \E k \in Key : Calls("PERSIST", <<k>>) /\
       LiveUntil(k, Forever, Num(IF Life(k) = Forever THEN 0 ELSE 1), Num(0))
  \/ \E k \in Key : Calls("GETEX PERSIST", <<k>>) /\
       IF IsA(k, "string") THEN LiveUntil(k, Forever, Old(k), Nil) ELSE Say(Refusal(k))
  \/ \E k \in Key, ms \in {s * Second : s \in Seconds} \cup Millis :
       /\ Calls("GETEX", <<k, ms>>)
       /\ IF ~IsA(k, "string") THEN Say(Refusal(k))
          ELSE IF ms <= 0 THEN Say(BadValue)
          ELSE LiveUntil(k, now + ms, Old(k), Nil)

Tick == now' = now + 1 /\ db' = AliveAt(db, now') /\ UNCHANGED <<call, reply>>

Next == Reads \/ Overwrites \/ Edits \/ Removals \/ Lifetimes \/ Tick

Spec == Init /\ [][Next]_vars
==============================================================================
