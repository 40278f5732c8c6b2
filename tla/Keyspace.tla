------------------------------ MODULE Keyspace -------------------------------
(***************************************************************************)
(* DataStore.js: the map of entries, the separate map of deadlines, and    *)
(* the two ways a key past its deadline disappears: lazily, when a command *)
(* looks it up through _getEntry, and in the batch a timer runs once a     *)
(* second.  A handler runs to completion in Node's single thread, so a     *)
(* command is one step; the clock and the timer run between commands.      *)
(*                                                                         *)
(* A key without a deadline is not in the domain of `expires', as in the   *)
(* code; a key may sit in `kv' long after its deadline.                    *)
(***************************************************************************)
EXTENDS Entries, FiniteSets

CONSTANTS Key,
          Second,      \* clock units in a second (the clock counts milliseconds)
          MaxTime,     \* bound: the clock stops here
          MaxLen,      \* bound: length of a stored value
          Seconds,     \* the second counts clients pass to EX, EXPIRE, SETEX
          Millis       \* the millisecond counts clients pass to PX, PEXPIRE

ASSUME ConstantsAssumption ==
  /\ Second \in Nat \ {0} /\ MaxTime \in Nat /\ MaxLen \in Nat
  /\ Seconds \subseteq Int /\ Millis \subseteq Int
  /\ IsFiniteSet(Key)

VARIABLES kv,       \* this.kv: key -> entry
          expires,  \* this.expires: key -> time it is dead from
          now,      \* Date.now()
          events,   \* keys announced as 'expired' by the last step
          call,     \* the command last served, with its arguments
          reply     \* what it answered

vars == <<kv, expires, now, events, call, reply>>

Undefined == -1     \* JavaScript's undefined, where a time is expected

EmptyMap      == [x \in {} |-> Undefined]
Put(f, k, v)  == [x \in DOMAIN f \cup {k} |-> IF x = k THEN v ELSE f[x]]
Drop(f, K)    == [x \in DOMAIN f \ K |-> f[x]]

\* Bug: a key is still alive at its deadline.
ExpiredAfter(k) == k \in DOMAIN expires /\ now > expires[k]
Expired(k) == k \in DOMAIN expires /\ now >= expires[k]
Stale      == {k \in DOMAIN expires : Expired(k)}
Live(k)    == k \in DOMAIN kv /\ ~Expired(k)

\* The two maps once _getEntry has been called on every key of K.
Kv(K)      == Drop(kv, K \cap Stale)
Expires(K) == Drop(expires, K \cap Stale)

\* A time option that may be undefined.
Deadline(x, k, at) == IF at = Undefined THEN Drop(x, {k}) ELSE Put(x, k, at)

Finish(m, x, r) ==
  /\ kv' = m /\ expires' = x /\ reply' = r
  /\ events' = {} /\ now' = now

\* A command that looked at K and changed nothing else.
Answer(K, r) == Finish(Kv(K), Expires(K), r)

\* A string is stored under k; its deadline becomes `at', or goes.
Store(k, s, at, r) == Finish(Put(Kv({k}), k, Text(s)), Deadline(Expires({k}), k, at), r)

\* The entry under k is edited in place: its deadline stays.
Edit(k, e, r) ==
  /\ Len(e.data) <= MaxLen
  /\ Finish(Put(Kv({k}), k, e), Expires({k}), r)

\* Bug: the entry goes, its deadline stays.
RemoveEntryOnly(K, k, r) == Finish(Drop(Kv(K), {k}), Expires(K), r)
Remove(K, k, r) == Finish(Drop(Kv(K), {k}), Drop(Expires(K), {k}), r)
------------------------------------------------------------------------------
(* Strings *)

IsString(k) == Live(k) /\ kv[k].type = "string"
Refusal(k)  == IF Live(k) THEN WrongType ELSE Nil

Get(k) == Answer({k}, IF IsString(k) THEN Bulk(kv[k].data) ELSE Refusal(k))

OldText(k) == IF IsString(k) THEN Bulk(kv[k].data) ELSE Nil

\* SET key value [NX|XX] [GET] [KEEPTTL] [EX s|PX ms|EXAT ts|PXAT tsms]: `at' is
\* expireAtMs.
Set(k, a, cond, get, keepTTL, at) ==
  IF (cond = "NX" /\ Live(k)) \/ (cond = "XX" /\ ~Live(k))
  THEN Answer({k}, Nil)
  ELSE Finish(Put(Kv({k}), k, Text(<<a>>)),
              IF at = Undefined /\ keepTTL THEN Expires({k})
              ELSE Deadline(Expires({k}), k, at),
              IF get THEN OldText(k) ELSE Ok)

\* SET with an EX or a PX that is not positive, or with NX and XX: an error, before the key
\* is looked up.
SetRefused == Answer({}, BadValue)

SetNX(k, a) ==
  IF Live(k) THEN Answer({k}, Num(0)) ELSE Store(k, <<a>>, Undefined, Num(1))

\* A count that is not positive is refused before the key is looked up.
SetEX(k, a, s) ==
  IF s <= 0 THEN Answer({}, BadValue)
  ELSE Store(k, <<a>>, now + s * Second, Ok)

GetSet(k, a) ==
  IF Live(k) /\ ~IsString(k) THEN Answer({k}, WrongType)
  ELSE Store(k, <<a>>, Undefined, OldText(k))

GetDel(k) ==
  IF IsString(k) THEN Remove({k}, k, Bulk(kv[k].data)) ELSE Answer({k}, Refusal(k))

GetExPersist(k) ==
  IF IsString(k) THEN Finish(kv, Drop(expires, {k}), Bulk(kv[k].data))
  ELSE Answer({k}, Refusal(k))

\* GETEX key EX s | PX ms, in clock units.
GetExIn(k, ms) ==
  CASE ~IsString(k)            -> Answer({k}, Refusal(k))
    [] IsString(k) /\ ms <= 0  -> Answer({k}, BadValue)
    [] OTHER -> Finish(kv, Put(expires, k, now + ms), Bulk(kv[k].data))

EmptyText == Text(<<>>)

\* _getOrInitString hands back an entry of any type.
AppendTo(k, a) ==
  LET e == Appended(IF Live(k) THEN kv[k] ELSE EmptyText, a)
  IN  Edit(k, e, Num(Len(e.data)))

\* STRLEN and LLEN of a missing key are 0.
Length(k, t) ==
  CASE ~Live(k)                   -> Answer({k}, Num(0))
    [] Live(k) /\ kv[k].type # t  -> Answer({k}, WrongType)
    [] OTHER                      -> Answer({k}, Num(Len(kv[k].data)))

MGet(ks) == Answer({ks[i] : i \in DOMAIN ks}, Arr([i \in DOMAIN ks |-> OldText(ks[i])]))

\* MSET does not look the keys up: it overwrites what is there.
MSet(K, a) ==
  Finish([x \in DOMAIN kv \cup K |-> IF x \in K THEN Text(<<a>>) ELSE kv[x]],
         Drop(expires, K), Ok)

\* MSETNX stops at the first live key: those after it are not looked up.
MSetNX(k1, k2, a) ==
  CASE Live(k1) -> Answer({k1}, Num(0))
    [] ~Live(k1) /\ Live(k2) -> Answer({k1, k2}, Num(0))
    [] OTHER -> Finish(Put(Put(Kv({k1, k2}), k1, Text(<<a>>)), k2, Text(<<a>>)),
                       Drop(Expires({k1, k2}), {k1, k2}), Num(1))
------------------------------------------------------------------------------
(* Lists *)

NewList == Items(<<>>)

\* LPUSH, RPUSH: _getOrInitList hands back an entry of any type, and a value
\* that is not an array throws.
Push(k, a, side) ==
  LET e == IF Live(k) THEN kv[k] ELSE NewList
  IN  IF CanPush(e) THEN Edit(k, Pushed(e, a, side), Num(Len(e.data) + 1))
      ELSE Answer({k}, Crash)

ListReply(k) ==
  CASE ~Live(k) -> Nil
    [] Live(k) /\ kv[k].type # "list" -> WrongType
    [] Live(k) /\ kv[k].type = "list" /\ kv[k].data = <<>> -> Nil
    [] OTHER -> Crash

Poppable(k) ==
  Live(k) /\ kv[k].type = "list" /\ kv[k].data # <<>> /\ CanPop(kv[k])

\* LPOP, RPOP: the key stays when its list becomes empty.
Pop(k, side) ==
  IF Poppable(k) THEN Edit(k, Popped(kv[k], side), Bulk(PopValue(kv[k], side)))
  ELSE Answer({k}, ListReply(k))

\* RPOPLPUSH: the element has left the source when the destination is looked up.
RPopLPush(s, d) ==
  IF ~Poppable(s) THEN Answer({s}, ListReply(s))
  ELSE LET v    == PopValue(kv[s], "right")
           m    == Put(Kv({s, d}), s, Popped(kv[s], "right"))
           dest == IF d \in DOMAIN m THEN m[d] ELSE NewList
       IN  IF CanPush(dest)
           THEN /\ Len(dest.data) < MaxLen
                /\ Finish(Put(m, d, Pushed(dest, v, "left")), Expires({s, d}), Bulk(v))
           ELSE Finish(m, Expires({s, d}), Crash)
------------------------------------------------------------------------------
(* Keys and deadlines *)

Del(K) == Finish(Drop(kv, K), Drop(expires, K), Num(Cardinality({k \in K : Live(k)})))

Exists(K) == Answer(K, Num(Cardinality({k \in K : Live(k)})))

Type(k) == Answer({k}, IF Live(k) THEN Bulk(kv[k].type) ELSE Bulk("none"))

\* KEYS looks every key up; SCAN slices what it returns.
Keys == Answer(Key, Arr({k \in DOMAIN kv : Live(k)}))

\* The server's DBSIZE and RANDOMKEY read the map itself.
DbSize == Answer({}, Num(Cardinality(DOMAIN kv)))
RandomKey ==
  \/ DOMAIN kv = {} /\ Answer({}, Nil)
  \/ \E k \in DOMAIN kv : Answer({}, Bulk(k))

FlushDb == Finish(EmptyMap, EmptyMap, Ok)

\* EXPIRE: a count that is not positive deletes the key and announces it.
Expire(k, s) ==
  CASE ~Live(k) -> Answer({k}, Num(0))
    [] Live(k) /\ s <= 0 ->
         /\ kv' = Drop(kv, {k}) /\ expires' = Drop(expires, {k})
         /\ reply' = Num(1) /\ events' = {k} /\ now' = now
    [] OTHER -> Finish(kv, Put(expires, k, now + s * Second), Num(1))

PExpire(k, ms) ==
  CASE ~Live(k) -> Answer({k}, Num(0))
    [] Live(k) /\ ms <= 0 -> Remove({k}, k, Num(1))
    [] OTHER -> Finish(kv, Put(expires, k, now + ms), Num(1))

\* EXPIREAT and PEXPIREAT take any time, one already past included.
ExpireAt(k, t) ==
  IF Live(k) THEN Finish(kv, Put(expires, k, t), Num(1)) ELSE Answer({k}, Num(0))

\* TTL (unit = Second) and PTTL (unit = 1), rounded up.
Ttl(k, unit) ==
  CASE ~Live(k) -> Answer({k}, Num(-2))
    [] Live(k) /\ k \notin DOMAIN expires -> Answer({k}, Num(-1))
    [] OTHER -> Answer({k}, Num((expires[k] - now + unit - 1) \div unit))

Persist(k) ==
  IF Live(k) /\ k \in DOMAIN expires
  THEN Finish(kv, Drop(expires, {k}), Num(1))
  ELSE Answer({k}, Num(0))

\* RENAME and RENAMENX, in the code's order: the destination is written, then
\* the source is deleted.
Moved(s, d, m, x, r) ==
  Finish(Drop(Put(m, d, kv[s]), {s}),
         Drop(IF s \in DOMAIN x THEN Put(x, d, x[s]) ELSE Drop(x, {d}), {s}), r)

Rename(s, d) ==
  IF Live(s) THEN Moved(s, d, kv, expires, Ok) ELSE Answer({s}, NoSuchKey)

RenameNX(s, d) ==
  CASE ~Live(s) -> Answer({s}, NoSuchKey)
    [] Live(s) /\ Live(d) -> Answer({s, d}, Num(0))
    [] OTHER -> Moved(s, d, Kv({d}), Expires({d}), Num(1))

\* Bug: keys that merely have a deadline are announced.
AnnounceEveryDeadline ==
  /\ kv' = Drop(kv, Stale) /\ expires' = Drop(expires, Stale)
  /\ events' = DOMAIN expires
  /\ UNCHANGED <<now, call, reply>>

\* Bug: the batch forgets the deadlines.
PurgeEntriesOnly ==
  /\ kv' = Drop(kv, Stale) /\ events' = Stale
  /\ UNCHANGED <<expires, now, call, reply>>

\* The timer of the constructor: purge what has expired, announcing each key.
PurgeExpiredBatch ==
  /\ kv' = Drop(kv, Stale) /\ expires' = Drop(expires, Stale)
  /\ events' = Stale
  /\ UNCHANGED <<now, call, reply>>

Tick == now < MaxTime /\ now' = now + 1 /\ events' = {}
        /\ UNCHANGED <<kv, expires, call, reply>>
------------------------------------------------------------------------------
Init ==
  /\ kv = EmptyMap /\ expires = EmptyMap /\ now = 0
  /\ events = {} /\ call = <<"none", <<>>>> /\ reply = Nil

\* The times EXAT, PXAT, EXPIREAT and PEXPIREAT are called with.
Times == 0 .. MaxTime + 1
SetTimes == {Undefined} \cup Times
Sides == {"left", "right"}
NonEmpty == SUBSET Key \ {{}}

Calls(op, args) == call' = <<op, args>>

StringCommand ==
  \/ \E k \in Key : Get(k) /\ Calls("GET", <<k>>)
  \/ \E k \in Key, a \in Atom, cond \in {"always", "NX", "XX"},
        get, keep \in BOOLEAN, at \in SetTimes :
        Set(k, a, cond, get, keep, at) /\ Calls("SET", <<k, a, cond, get, keep, at>>)
  \/ \E k \in Key : SetRefused /\ Calls("SET refused", <<k>>)
  \/ \E k \in Key, a \in Atom : SetNX(k, a) /\ Calls("SETNX", <<k, a>>)
  \/ \E k \in Key, a \in Atom, s \in Seconds : SetEX(k, a, s) /\ Calls("SETEX", <<k, a, s>>)
  \/ \E k \in Key, a \in Atom : GetSet(k, a) /\ Calls("GETSET", <<k, a>>)
  \/ \E k \in Key : GetDel(k) /\ Calls("GETDEL", <<k>>)
  \/ \E k \in Key : GetExPersist(k) /\ Calls("GETEX PERSIST", <<k>>)
  \/ \E k \in Key, ms \in {s * Second : s \in Seconds} \cup Millis :
        GetExIn(k, ms) /\ Calls("GETEX", <<k, ms>>)
  \/ \E k \in Key, a \in Atom : AppendTo(k, a) /\ Calls("APPEND", <<k, a>>)
  \/ \E j, k \in Key : MGet(<<j, k>>) /\ Calls("MGET", <<j, k>>)
  \/ \E K \in NonEmpty, a \in Atom : MSet(K, a) /\ Calls("MSET", <<K, a>>)
  \/ \E j, k \in Key, a \in Atom : MSetNX(j, k, a) /\ Calls("MSETNX", <<j, k, a>>)

ListCommand ==
  \/ \E k \in Key, a \in Atom, side \in Sides : Push(k, a, side) /\ Calls("PUSH", <<k, a, side>>)
  \/ \E k \in Key, side \in Sides : Pop(k, side) /\ Calls("POP", <<k, side>>)
  \/ \E s, d \in Key : RPopLPush(s, d) /\ Calls("RPOPLPUSH", <<s, d>>)
  \/ \E k \in Key, t \in {"string", "list"} : Length(k, t) /\ Calls("LEN", <<k, t>>)

KeyCommand ==
  \/ \E K \in NonEmpty : Del(K) /\ Calls("DEL", <<K>>)
  \/ \E K \in NonEmpty : Exists(K) /\ Calls("EXISTS", <<K>>)
  \/ \E k \in Key : Type(k) /\ Calls("TYPE", <<k>>)
  \/ Keys /\ Calls("KEYS", <<>>)
  \/ DbSize /\ Calls("DBSIZE", <<>>)
  \/ RandomKey /\ Calls("RANDOMKEY", <<>>)
  \/ FlushDb /\ Calls("FLUSHDB", <<>>)
  \/ \E k \in Key, s \in Seconds : Expire(k, s) /\ Calls("EXPIRE", <<k, s>>)
  \/ \E k \in Key, ms \in Millis : PExpire(k, ms) /\ Calls("PEXPIRE", <<k, ms>>)
  \/ \E k \in Key, t \in Times : ExpireAt(k, t) /\ Calls("EXPIREAT", <<k, t>>)
  \/ \E k \in Key, unit \in {1, Second} : Ttl(k, unit) /\ Calls("TTL", <<k, unit>>)
  \/ \E k \in Key : Persist(k) /\ Calls("PERSIST", <<k>>)
  \/ \E s, d \in Key : Rename(s, d) /\ Calls("RENAME", <<s, d>>)
  \/ \E s, d \in Key : RenameNX(s, d) /\ Calls("RENAMENX", <<s, d>>)

Command == StringCommand \/ ListCommand \/ KeyCommand

Next == Command \/ PurgeExpiredBatch \/ Tick

Spec == Init /\ [][Next]_vars

\* setInterval fires once a second for as long as the process lives.
FairSpec == Spec /\ WF_vars(PurgeExpiredBatch)
------------------------------------------------------------------------------
(* Properties *)

\* The types of the variables.
IsMap(f, T) == f \in [DOMAIN f -> T] /\ DOMAIN f \subseteq Key
TypeOK ==
  /\ IsMap(kv, Entry)
  /\ IsMap(expires, Nat)
  /\ now \in Nat
  /\ events \subseteq Key

\* No deadline outlives its key.  An orphan in `expires' would be picked up by
\* the next value stored under that key (LPUSH and APPEND leave `expires' alone)
\* and kill it at a time nobody set.
ExpiresOnlyHeldKeys == DOMAIN expires \subseteq DOMAIN kv

\* What clients can tell: every command answers and changes the keyspace as if
\* dead keys were not there, although purging is lazy, partial (a command looks
\* up its own keys only) and skipped by the commands that overwrite.
LogicalDb ==
  [k \in {x \in DOMAIN kv : Live(x)} |->
     [entry |-> kv[k], at |-> IF k \in DOMAIN expires THEN expires[k] ELSE -1]]

Logical == INSTANCE LogicalKeyspace WITH db <- LogicalDb
ImplementsLogicalKeyspace == Logical!Spec

\* An 'expired' event names a key that was held and is held no more: it is never
\* raised twice for one life of a key, nor for a key that lives on.
ExpiredEventMeansGone ==
  [][\A k \in events' : k \in DOMAIN kv /\ k \notin DOMAIN kv']_vars

\* The timer gives back the memory of every key that nobody looks up again.
StaleKeysAreReclaimed == \A k \in Key : Expired(k) ~> ~Expired(k)
==============================================================================
