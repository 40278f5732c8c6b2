------------------------------ MODULE Containers ------------------------------
(***************************************************************************)
(* DataStore.js: hashes, sets and sorted sets, the commands that change    *)
(* them, the *SCAN iterations over them, and what a snapshot makes of them *)
(* (snapshot.js).                                                          *)
(*                                                                         *)
(* An entry has a type and a JavaScript value, and nothing but the         *)
(* handlers keeps the two in step: a Map for a hash, a Set for a set, a    *)
(* Map and an array for a sorted set.  Maps and Sets iterate in the order  *)
(* of insertion.  Members are numbered in the order of their names.        *)
(***************************************************************************)
EXTENDS Lists

CONSTANTS Key,          \* keys
          Member,       \* members and fields
          Number,       \* the values of fields, and the scores of members
          MaxArgs,      \* bound: members a command names
          Surroundings  \* the sets of circumstances to consider

Circumstances == {"overwrite",   \* SUNIONSTORE and its like to a key of another type
                  "misplaced",   \* SMOVE to a key of another type
                  "bad source",  \* SUNIONSTORE from a key of another type
                  "bad score"}   \* ZADD with a score that is no number

VARIABLES
  around,  \* the circumstances of this behaviour
  kv,      \* this.kv: a map from keys to entries
  reply,   \* the last answer
  scan     \* a client's iteration over one key

vars == <<around, kv, reply, scan>>

\* items: the Map or Set, as its entries in order; sorted: the array of a sorted set.
Entry(type, shape, items, sorted) ==
  [type |-> type, shape |-> shape, items |-> items, sorted |-> sorted]
Empty(type) == Entry(type, type, <<>>, <<>>)
NoValue == 0
BadScore == -1
Pair(m, v) == [member |-> m, value |-> v]

\* An answer that begins with -ERR; a handler that throws is answered so too.
Failed == "error"
Done   == "done"

NoScan == [key |-> "none", cursor |-> 0, returned |-> {}, stayed |-> {}, done |-> FALSE]
------------------------------------------------------------------------------
(* Maps in order of insertion *)

Named(items)   == {items[i].member : i \in DOMAIN items}
ValueOf(items, m) == items[CHOOSE i \in DOMAIN items : items[i].member = m].value

\* Map.set: in place, or at the end.
Set(items, m, v) ==
  IF m \in Named(items)
  THEN [i \in DOMAIN items |-> IF items[i].member = m THEN Pair(m, v) ELSE items[i]]
  ELSE Append(items, Pair(m, v))

Delete(items, m) ==
  LET Other(it) == it.member # m
  IN  SelectSeq(items, Other)

Adding(items, m) == Set(items, m, NoValue)   \* Set.add

------------------------------------------------------------------------------
(* The array of a sorted set *)

\* Bug: members of equal score are not put in order.
BeforeByScore(a, b) == a.value <= b.value

\* _zsetCompare(a, b) <= 0
Before(a, b) == a.value < b.value \/ (a.value = b.value /\ a.member <= b.member)

\* _zsetInsert: a binary search for the place.
Insert(sorted, item) ==
  LET Search[lo, hi \in 0 .. Len(sorted)] ==
        IF lo >= hi THEN lo
        ELSE LET mid == (lo + hi) \div 2
             IN  IF Before(item, sorted[mid + 1]) THEN Search[lo, mid] ELSE Search[mid + 1, hi]
  IN  InsertAt(sorted, Search[0, Len(sorted)] + 1, item)
------------------------------------------------------------------------------
\* ZRANGE, ZREVRANGE (of the reverse), LRANGE.
Slice(list, start, stop) ==
  LET len   == Len(list)
      first == IF start < 0 THEN (IF len + start < 0 THEN 0 ELSE len + start) ELSE start
      last  == IF stop < 0 THEN (IF len + stop < 0 THEN -1 ELSE len + stop) ELSE stop
  IN  SubSeq(list, first + 1, IF last > len - 1 THEN len ELSE last + 1)

\* ZRANGEBYSCORE: the loop ends at the first score above the maximum.
ScoredBetween(sorted, min, max) ==
  LET above == {i \in DOMAIN sorted : sorted[i].value > max}
      end   == IF above = {} THEN Len(sorted) ELSE CHOOSE i \in above : \A j \in above : i <= j
  IN  {sorted[i].member : i \in {j \in 1 .. end : sorted[j].value >= min /\ sorted[j].value <= max}}
------------------------------------------------------------------------------
(* Answering *)

Has(k) == k \in DOMAIN kv
WrongType(k, type) == Has(k) /\ kv[k].type # type
MembersInOrder(k) == IF Has(k) THEN [i \in DOMAIN kv[k].items |-> kv[k].items[i].member] ELSE <<>>
Members(k) == Range(MembersInOrder(k))

\* _getOrInit: an entry of any type when there is one.
GetOrInit(k, type) == IF Has(k) THEN kv[k] ELSE Empty(type)

Put(m, k, e) == [x \in DOMAIN m \cup {k} |-> IF x = k THEN e ELSE m[x]]

\* A value of another shape has not the methods the handler calls: it throws.
Usable(k, type) == GetOrInit(k, type).shape = type

\* What was there when the iteration began and still is.  An iteration is given up when
\* what it has passed may have moved.
Watch(new) ==
  LET s == scan.key
      now == IF s \in DOMAIN new THEN Named(new[s].items) ELSE {}
      Moved == \/ s \notin DOMAIN kv
               \/ s \notin DOMAIN new
               \/ (kv[s].type = "zset" /\ new[s].sorted # kv[s].sorted)
               \/ ~IsPrefix(MembersInOrder(s), [i \in DOMAIN new[s].items |-> new[s].items[i].member])
  IN  IF s = "none" \/ scan.done \/ Moved THEN NoScan ELSE [scan EXCEPT !.stayed = @ \cap now]

Does(new, answer) == kv' = new /\ reply' = answer /\ scan' = Watch(new) /\ UNCHANGED around
Writes(new) == Does(new, Done)
Skip   == Does(kv, Done)
Refuse == Does(kv, Failed)
------------------------------------------------------------------------------
(* Hashes *)

HSet(k, pairs) ==
  LET entry == GetOrInit(k, "hash")
      Add(items, p) == Set(items, p.member, p.value)
      items == FoldLeft(Add, entry.items, pairs)
  IN  IF Usable(k, "hash")
      THEN Writes(Put(kv, k, [entry EXCEPT !.items = items]))
      ELSE Refuse

\* The entry without some members, in both halves of a sorted set.
Without(e, ms) == [e EXCEPT !.items = FoldLeft(Delete, @, ms), !.sorted = FoldLeft(Delete, @, ms)]

\* HDEL, SREM, ZREM: what is emptied stays.  A Set under a hash has `delete' too.
RemoveMembers(k, type, ms) ==
  IF WrongType(k, type) THEN Refuse
  ELSE IF ~Has(k) THEN Skip
  ELSE IF Usable(k, type) \/ (type = "hash" /\ kv[k].shape = "set")
  THEN Writes(Put(kv, k, Without(kv[k], ms)))
  ELSE Refuse
------------------------------------------------------------------------------
(* Sets: an entry of this type holds a Set *)

\* A Map has `has' but no `add': it throws at the first member that is not a field.
SAdd(k, ms) ==
  LET entry == GetOrInit(k, "set")
  IN  IF Usable(k, "set")
      THEN Writes(Put(kv, k, [entry EXCEPT !.items = FoldLeft(Adding, @, ms)]))
      ELSE IF entry.shape = "hash" /\ Range(ms) \subseteq Named(entry.items) THEN Skip
      ELSE Refuse

SPop(k, n) ==
  IF WrongType(k, "set") THEN Refuse
  ELSE IF ~Has(k) THEN Skip
  ELSE \E ms \in SUBSET Members(k) :
         /\ Cardinality(ms) = IF n < Len(kv[k].items) THEN n ELSE Len(kv[k].items)
         /\ Writes(Put(kv, k, Without(kv[k], SetToSeq(ms))))

\* The member leaves the source before the destination's `add' is called, which it has
\* only if it is a Set.
SMove(s, d, m) ==
  LET taken == Put(kv, s, Without(kv[s], <<m>>))
      dest  == IF d \in DOMAIN taken THEN taken[d] ELSE Empty("set")
  IN  IF WrongType(s, "set") THEN Refuse
      ELSE IF m \notin Members(s) THEN Skip
      ELSE IF dest.shape = "set"
      THEN Writes(Put(taken, d, [dest EXCEPT !.items = Adding(@, m)]))
      ELSE "misplaced" \in around /\ Does(taken, Failed)

Union(sources) ==
  LET AddAll(items, s) == FoldLeft(Adding, items, MembersInOrder(s)) IN FoldLeft(AddAll, <<>>, sources)

\* In the order of the first of the smallest.
Common(sources) ==
  LET size(i)  == Cardinality(Members(sources[i]))
      smallest == CHOOSE i \in DOMAIN sources :
                    \A j \in DOMAIN sources : size(i) < size(j) \/ (size(i) = size(j) /\ i <= j)
      In(m)    == \A s \in Range(sources) : m \in Members(s)
  IN  FoldLeft(Adding, <<>>, SelectSeq(MembersInOrder(sources[smallest]), In))

Difference(sources) ==
  LET Left(m) == \A i \in 2 .. Len(sources) : m \notin Members(sources[i])
  IN  FoldLeft(Adding, <<>>, SelectSeq(MembersInOrder(sources[1]), Left))

\* The destination's value becomes a Set, its type stays what it was.
StoreSet(d, items) ==
  /\ (Usable(d, "set") /\ ~WrongType(d, "set")) \/ "overwrite" \in around
  /\ Writes(Put(kv, d, [GetOrInit(d, "set") EXCEPT !.shape = "set", !.items = items, !.sorted = <<>>]))

NoSets(sources) == \E s \in Range(sources) : WrongType(s, "set")

\* Bug: the destination is cleared before the sources are looked at.
UnionStoreCleared(d, sources) ==
  IF NoSets(sources) THEN Does(Put(kv, d, Empty("set")), Failed) ELSE StoreSet(d, Union(sources))

\* The destination is there before the sources are looked at.
SUnionStore(d, sources) ==
  IF NoSets(sources)
  THEN /\ Has(d) \/ "bad source" \in around
       /\ Does(Put(kv, d, GetOrInit(d, "set")), Failed)
  ELSE StoreSet(d, Union(sources))

SInterStore(d, sources) == IF NoSets(sources) THEN Refuse ELSE StoreSet(d, Common(sources))

SDiffStore(d, sources) == IF NoSets(sources) THEN Refuse ELSE StoreSet(d, Difference(sources))
------------------------------------------------------------------------------
(* Sorted sets *)

Scored(entry, m, score) ==
  [entry EXCEPT !.items = Set(@, m, score),
                !.sorted = Insert(Delete(@, m), Pair(m, score))]

AddScored(e, p) ==
  IF p.member \in Named(e.items) /\ ValueOf(e.items, p.member) = p.value THEN e
  ELSE Scored(e, p.member, p.value)

\* The pairs before one that is no number have been added.
ZAdd(k, pairs) ==
  LET bad  == {i \in DOMAIN pairs : pairs[i].value = BadScore}
      good == IF bad = {} THEN pairs ELSE SubSeq(pairs, 1, (CHOOSE i \in bad : \A j \in bad : i <= j) - 1)
  IN  /\ bad # {} => "bad score" \in around
      /\ IF Usable(k, "zset")
         THEN Does(Put(kv, k, FoldLeft(AddScored, GetOrInit(k, "zset"), good)), IF bad = {} THEN Done ELSE Failed)
         ELSE Refuse

ZIncrBy(k, inc, m) ==
  LET entry == GetOrInit(k, "zset")
      old   == IF m \in Named(entry.items) THEN ValueOf(entry.items, m) ELSE 0
  IN  /\ old + inc \in Number
      /\ IF Usable(k, "zset") THEN Writes(Put(kv, k, Scored(entry, m, old + inc)))
         ELSE Refuse

\* ZPOPMIN, ZPOPMAX: a count of none is one.
ZPop(k, n, minFirst) ==
  LET size == Len(kv[k].sorted)
      some == IF n > size THEN size ELSE IF n = 0 THEN 1 ELSE n
      out  == IF minFirst THEN SubSeq(kv[k].sorted, 1, some)
              ELSE SubSeq(kv[k].sorted, size - some + 1, size)
  IN  IF WrongType(k, "zset") THEN Refuse
      ELSE IF ~Has(k) THEN Skip
      ELSE IF ~Usable(k, "zset") THEN Refuse
      ELSE IF size = 0 THEN Skip
      ELSE Writes(Put(kv, k, Without(kv[k], [i \in DOMAIN out |-> out[i].member])))
------------------------------------------------------------------------------
(* Other keys; snapshots; iterations *)

SetString(k) == Writes(Put(kv, k, Empty("string")))
Del(k)       == Writes([x \in DOMAIN kv \ {k} |-> kv[x]])

\* serializeEntry and deserializeEntry: what a value of its type's shape becomes.
Reload(e) ==
  [e EXCEPT !.sorted = IF e.type = "zset" THEN SortSeq(e.items, Before) ELSE <<>>]

\* SCAN's answer is a slice of what there is now, from the cursor on.
Order(e) == LET list == IF e.type = "zset" THEN e.sorted ELSE e.items
            IN  [i \in DOMAIN list |-> list[i].member]

ScanStart(k) ==
  /\ scan.key = "none"
  /\ Has(k) /\ kv[k].type # "string" /\ Usable(k, kv[k].type)
  /\ scan' = [NoScan EXCEPT !.key = k, !.stayed = Members(k)]
  /\ UNCHANGED <<around, kv, reply>>

ScanStep(count) ==
  /\ scan.key # "none" /\ ~scan.done
  /\ LET all  == IF Has(scan.key) THEN Order(kv[scan.key]) ELSE <<>>
         stop == IF scan.cursor + count < Len(all) THEN scan.cursor + count ELSE Len(all)
     IN  scan' = [scan EXCEPT !.returned = @ \cup {all[i] : i \in scan.cursor + 1 .. stop},
                              !.cursor = stop, !.done = stop >= Len(all)]
  /\ UNCHANGED <<around, kv, reply>>
------------------------------------------------------------------------------
Init ==
  /\ around \in Surroundings
  /\ kv = <<>> /\ reply = Done /\ scan = NoScan

Lists(S) == UNION {[1 .. n -> S] : n \in 1 .. MaxArgs}
Pairs(Values) == Lists([member : Member, value : Values])

\* HSET, HDEL, SADD, SREM and ZREM of several members are those of each in turn, so one is
\* enough; ZADD may stop half way.
Next ==
  \E k \in Key :
    \/ \E m \in Member, n \in Number : HSet(k, <<Pair(m, n)>>)
    \/ \E m \in Member, type \in {"hash", "set", "zset"} : RemoveMembers(k, type, <<m>>)
    \/ \E m \in Member : SAdd(k, <<m>>)
    \/ \E n \in 0 .. MaxArgs : SPop(k, n) \/ ZPop(k, n, TRUE) \/ ZPop(k, n, FALSE)
    \/ \E d \in Key, m \in Member : SMove(k, d, m)
    \/ \E sources \in Lists(Key) :
         SUnionStore(k, sources) \/ SInterStore(k, sources) \/ SDiffStore(k, sources)
    \/ \E pairs \in Pairs(Number \cup {BadScore}) : ZAdd(k, pairs)
    \/ \E inc \in Number, m \in Member : ZIncrBy(k, inc, m)
    \/ SetString(k) \/ Del(k)
    \/ ScanStart(k) \/ \E count \in 1 .. MaxArgs : ScanStep(count)

Spec == Init /\ [][Next]_vars
------------------------------------------------------------------------------
(* Properties *)

Types == {"hash", "set", "zset", "string"}
Items == Seq([member : Member, value : Number \cup {NoValue}])

\* The types of the variables.
TypeOK ==
  /\ around \in SUBSET Circumstances
  /\ DOMAIN kv \subseteq Key
  /\ \A k \in DOMAIN kv : kv[k] \in [type : Types, shape : Types, items : Items, sorted : Items]
  /\ reply \in {Done, Failed}
  /\ scan \in [key : Key \cup {"none"}, cursor : Nat, returned : SUBSET Member,
               stayed : SUBSET Member, done : BOOLEAN]

\* The array of a sorted set, which ranks and ranges are read from, holds exactly the
\* members and scores of its Map, in order: through updates, increments, removals and
\* pops, which each change both.
SortedSetsAreIndexed ==
  \A k \in DOMAIN kv : kv[k].shape = "zset" =>
    LET e == kv[k]
    IN  /\ Range(e.sorted) = Range(e.items) /\ Len(e.sorted) = Len(e.items)
        /\ \A i, j \in DOMAIN e.sorted : i < j =>
             \/ e.sorted[i].value < e.sorted[j].value
             \/ (e.sorted[i].value = e.sorted[j].value /\ e.sorted[i].member < e.sorted[j].member)

\* ZRANGE, ZREVRANGE and ZRANGEBYSCORE leave out no member of the range asked for and add
\* none: indexes from the end and beyond both ends, and the loop that stops early.
RangesAreComplete ==
  \A k \in DOMAIN kv : kv[k].shape = "zset" =>
    LET sorted == kv[k].sorted
        Asked(i, start, stop) == /\ i > (IF start < 0 THEN Len(sorted) + start ELSE start)
                                 /\ i <= (IF stop < 0 THEN Len(sorted) + stop ELSE stop) + 1
    IN  /\ \A start, stop \in -3 .. 2 :
             Range(Slice(sorted, start, stop)) = {sorted[i] : i \in {j \in DOMAIN sorted : Asked(j, start, stop)}}
        /\ \A min, max \in Number :
             ScoredBetween(sorted, min, max) =
               {m \in Members(k) : ValueOf(kv[k].items, m) \in min .. max}

\* The value of an entry is of the shape its type says, and a Map holds a member once.
\* SUNIONSTORE and its like put a Set under any type there is.
ShapesMatchTypes ==
  "overwrite" \notin around =>
    \A k \in DOMAIN kv : /\ kv[k].shape = kv[k].type
                         /\ Cardinality(Members(k)) = Len(kv[k].items)

\* A command that answers an error, and is therefore neither logged nor streamed, has
\* changed nothing; or SUNIONSTORE has made its destination, SMOVE has taken its member off
\* the source, or ZADD has done what the pairs before the bad one ask for; and no other key
\* is touched.
FailureTouchesOneKey ==
  reply' = Failed =>
    \/ kv' = kv
    \/ \E k \in Key :
         \/ ~Has(k) /\ kv' = Put(kv, k, Empty("set"))
         \/ \E m \in Members(k) : kv' = Put(kv, k, Without(kv[k], <<m>>))
         \/ \E pairs \in {<<>>} \cup Pairs(Number) :
              kv' = Put(kv, k, FoldLeft(AddScored, GetOrInit(k, "zset"), pairs))
FailuresTouchOneKey == [][FailureTouchesOneKey]_vars

\* A snapshot of an entry is the entry.
SnapshotKeepsEntries ==
  \A k \in DOMAIN kv : kv[k].shape = kv[k].type => Reload(kv[k]) = kv[k]

\* An iteration returns every member that was there all the time, while members are
\* added to a hash or a set.  A removal moves what the cursor has passed, and so does any
\* change of a sorted set.
ScanReturnsWhatStays == scan.done => scan.stayed \subseteq scan.returned
==============================================================================
