-------------------------------- MODULE Cuckoo --------------------------------
(***************************************************************************)
(* DataStore.js: the cuckoo filter of CF.ADD, CF.ADDNX, CF.EXISTS, CF.DEL    *)
(* and CF.RESERVE.  An item is kept as a fingerprint in one of two buckets;  *)
(* an addition to two full buckets moves others to their other bucket, and   *)
(* gives up after maxIterations moves.                                      *)
(*                                                                         *)
(* A number is the set of its bits, and so are hashes and the indexes of    *)
(* buckets.                                                                 *)
(*                                                                         *)
(* `present' is a history: how often each item was added with the answer 1   *)
(* and not deleted since.                                                   *)
(***************************************************************************)
EXTENDS Lists

CONSTANTS Item,           \* items
          Fingerprint(_), \* _fingerprint: of an item
          Hash(_),        \* _hash: of an item
          HashOf(_),      \* _hash: of a fingerprint
          IndexBits,      \* the bits of numBuckets - 1, a power of two less one
          BucketSize, MaxIterations,
          MaxCopies,      \* bound: copies of an item added
          Careless        \* the choices of: items are deleted that are not there

VARIABLES
  careless,  \* the choice of this behaviour
  buckets,   \* the fingerprints of each bucket, in order
  present,   \* how many copies of each item there should be
  refused    \* how many additions failed

vars == <<careless, buckets, present, refused>>
------------------------------------------------------------------------------
Buckets == SUBSET IndexBits

\* h & (numBuckets - 1)
Index(h) == h \cap IndexBits

\* ^ is the difference of two sets, either way.
AltIndex(i, fp) == Index((i \ HashOf(fp)) \cup (HashOf(fp) \ i))

First(it)  == Index(Hash(it))
Second(it) == AltIndex(First(it), Fingerprint(it))

HasRoom(bs, i) == Len(bs[i]) < BucketSize

Exists(bs, it) ==
  LET fp == Fingerprint(it) IN fp \in Range(bs[First(it)]) \/ fp \in Range(bs[Second(it)])
------------------------------------------------------------------------------
(* Adding.  An outcome is the buckets, the fingerprint in hand and the bucket it is for *)

\* Bug: the fingerprint kicked out goes to the bucket of the one that came.
KickAstray(o) ==
  IF o.placed THEN {o}
  ELSE {LET f  == o.buckets[o.at][n]
            bs == [o.buckets EXCEPT ![o.at][n] = o.hand]
            i  == AltIndex(o.at, o.hand)
        IN  IF HasRoom(bs, i) THEN [o EXCEPT !.buckets = [bs EXCEPT ![i] = Append(@, f)], !.placed = TRUE]
            ELSE [buckets |-> bs, at |-> i, hand |-> f, placed |-> FALSE]
        : n \in DOMAIN o.buckets[o.at]}

\* One move: any fingerprint of the bucket is taken out for the one in hand, and goes to
\* its other bucket if there is room.
Kick(o) ==
  IF o.placed THEN {o}
  ELSE {LET f  == o.buckets[o.at][n]
            bs == [o.buckets EXCEPT ![o.at][n] = o.hand]
            i  == AltIndex(o.at, f)
        IN  IF HasRoom(bs, i) THEN [o EXCEPT !.buckets = [bs EXCEPT ![i] = Append(@, f)], !.placed = TRUE]
            ELSE [buckets |-> bs, at |-> i, hand |-> f, placed |-> FALSE]
        : n \in DOMAIN o.buckets[o.at]}

Into(bs, i, fp) == {[buckets |-> [bs EXCEPT ![i] = Append(@, fp)], placed |-> TRUE]}

KickAll(os, n) == UNION {Kick(o) : o \in os}

\* The loop, from either bucket.
MovedAround(bs, it) ==
  LET starts == {[buckets |-> bs, at |-> i, hand |-> Fingerprint(it), placed |-> FALSE] : i \in {First(it), Second(it)}}
  IN  FoldLeft(KickAll, starts, [n \in 1 .. MaxIterations |-> n])

\* add
Added(bs, it) ==
  IF HasRoom(bs, First(it)) THEN Into(bs, First(it), Fingerprint(it))
  ELSE IF HasRoom(bs, Second(it)) THEN Into(bs, Second(it), Fingerprint(it))
  ELSE MovedAround(bs, it)

\* CF.ADD, and with nxOnly CF.ADDNX; CF.MADD and CF.INSERT add one after the other.
Add(it, nxOnly) ==
  /\ ~(nxOnly /\ Exists(buckets, it)) /\ present[it] < MaxCopies
  /\ \E o \in Added(buckets, it) :
       /\ buckets' = o.buckets
       /\ IF o.placed THEN present' = [present EXCEPT ![it] = @ + 1] /\ UNCHANGED refused
          ELSE refused' = refused + 1 /\ UNCHANGED present
  /\ refused < MaxCopies /\ UNCHANGED careless

\* CF.DEL: what is not in the first bucket is taken from the second.
Delete(it) ==
  LET fp == Fingerprint(it)
      i  == IF fp \in Range(buckets[First(it)]) THEN First(it) ELSE Second(it)
  IN  /\ Exists(buckets, it) /\ (present[it] > 0 \/ careless)
      /\ buckets' = [buckets EXCEPT ![i] = RemoveFirst(@, fp)]
      /\ present' = [present EXCEPT ![it] = IF @ > 0 THEN @ - 1 ELSE 0]
      /\ UNCHANGED <<careless, refused>>

\* CF.RESERVE: another filter.
Reserve ==
  /\ buckets' = [i \in Buckets |-> <<>>]
  /\ present' = [it \in Item |-> 0] /\ refused' = 0
  /\ UNCHANGED careless

Init ==
  /\ careless \in Careless
  /\ buckets = [i \in Buckets |-> <<>>]
  /\ present = [it \in Item |-> 0] /\ refused = 0

Next ==
  \/ \E it \in Item : Delete(it) \/ \E nxOnly \in BOOLEAN : Add(it, nxOnly)
  \/ Reserve

Spec == Init /\ [][Next]_vars
------------------------------------------------------------------------------
(* Properties *)

Fingerprints == {Fingerprint(it) : it \in Item}
Copies(s, x) == Cardinality({n \in DOMAIN s : s[n] = x})
Total(f, S)  == Cardinality(UNION {{x} \X (1 .. f[x]) : x \in S})   \* the sum of the f[x]

\* The types of the variables; no bucket holds more than its size.
TypeOK ==
  /\ careless \in BOOLEAN /\ refused \in 0 .. MaxCopies /\ present \in [Item -> 0 .. MaxCopies]
  /\ DOMAIN buckets = Buckets
  /\ \A i \in DOMAIN buckets : Len(buckets[i]) <= BucketSize /\ Range(buckets[i]) \subseteq Fingerprints

\* What was added is found: a move never takes a fingerprint out of the two buckets its
\* items look into.  An addition that is refused loses somebody's fingerprint, and so does
\* a deletion of an item that only looks like one that is there.
WhatIsAddedIsFound ==
  (refused = 0 /\ ~careless) => \A it \in Item : present[it] > 0 => Exists(buckets, it)

\* There are as many copies of a fingerprint in the two buckets it can be in as items were
\* added that have it there, so a deletion takes its own copy or one as good.
DeletionsTakeTheirOwn ==
  (refused = 0 /\ ~careless) =>
    \A it \in Item :
      LET pair  == {First(it), Second(it)}
          alike == {x \in Item : Fingerprint(x) = Fingerprint(it) /\ First(x) \in pair}
      IN  Total([i \in pair |-> Copies(buckets[i], Fingerprint(it))], pair) = Total(present, alike)

\* An addition that is refused loses exactly one fingerprint, its own or another's: the
\* filter holds as many as were added.
RefusalsLoseOne ==
  ~careless => Total([i \in DOMAIN buckets |-> Len(buckets[i])], DOMAIN buckets) = Total(present, Item)
==============================================================================
