------------------------------- MODULE Streams -------------------------------
(***************************************************************************)
(* DataStore.js, streams and consumer groups: XADD, XDEL, XTRIM, XGROUP    *)
(* CREATE, XREADGROUP, XACK, XCLAIM, and DEL of a stream's key.            *)
(*                                                                         *)
(* An identifier `ms-seq' is the number 10 * ms + seq: the code compares   *)
(* identifiers as strings, which is the order of these numbers as long as  *)
(* the times have the same number of digits (they do until the year 2286)  *)
(* and the sequences one.                                                  *)
(***************************************************************************)
EXTENDS Lists

CONSTANTS Key, Group, Consumer,
          Explicit,   \* identifiers clients choose themselves
          Counts,     \* the COUNTs they read with
          MaxTime,    \* bound: the clock stops here
          MaxAdded    \* bound: see Room

VARIABLES now,       \* Date.now()
          streams,   \* stored key -> stream
          added      \* key -> the identifiers of the entries ever added, in order

vars == <<now, streams, added>>

\* An entry is its identifier and its number in `added'.  A stream remembers the
\* identifier it generated last in lastMs and lastSeq, undefined (0) at first.
NewStream == [entries |-> <<>>, groups |-> [g \in {} |-> 0], lastMs |-> 0, lastSeq |-> 0]

\* `got' are the entries the group handed out; `start' and `since' are what it began
\* with: an identifier, and the number of entries ever added.
NewGroup(id, n) == [lastId |-> id, pending |-> <<>>, held |-> [c \in {} |-> {}],
                    got |-> <<>>, start |-> id, since |-> n]

Exists(k)       == k \in DOMAIN streams
HasGroup(k, g)  == Exists(k) /\ g \in DOMAIN streams[k].groups
GetOrInit(k)    == IF Exists(k) THEN streams[k] ELSE NewStream
With(f, x, v)   == [y \in DOMAIN f \cup {x} |-> IF y = x THEN v ELSE f[y]]
Put(k, s)       == streams' = With(streams, k, s)
PutGroup(k, g, r) == Put(k, [streams[k] EXCEPT !.groups[g] = r])
LastId(s)       == IF s.entries = <<>> THEN 0 ELSE Last(s.entries).id

\* findIndex: where the identifier comes first in a list, 0 if it does not.
PlaceOf(id, list) == LET Is(e) == e.id = id IN SelectInSeq(list, Is)
------------------------------------------------------------------------------
(* Entries *)

\* Bound: entries added to the streams there are.
Room == FoldFunction(LAMBDA q, n : Len(q) + n, 0, added) < MaxAdded

\* The fields are pushed with an identifier that nothing compares to the others'.
Add(k, s, id) ==
  /\ Room
  /\ Put(k, [s EXCEPT !.entries = Append(@, [id |-> id, n |-> Len(added[k]) + 1])])
  /\ added' = [added EXCEPT ![k] = Append(@, id)]
  /\ UNCHANGED now

XAdd(k, id) == Add(k, GetOrInit(k), id)

\* XADD key *: a lastSeq of 0 counts as none.
NextSeq(s) == IF s.lastSeq # 0 /\ s.lastMs = now THEN s.lastSeq + 1 ELSE 0
XAddAuto(k) ==
  LET s == GetOrInit(k)
  IN  Add(k, [s EXCEPT !.lastMs = now, !.lastSeq = NextSeq(s)], 10 * now + NextSeq(s))

XDel(k, id) ==
  /\ Exists(k)
  /\ LET i == PlaceOf(id, streams[k].entries)
     IN  i # 0 /\ Put(k, [streams[k] EXCEPT !.entries = RemoveAt(@, i)])
  /\ UNCHANGED <<now, added>>

XTrim(k, n) ==
  /\ Exists(k) /\ Len(streams[k].entries) > n
  /\ Put(k, [streams[k] EXCEPT !.entries = SubSeq(@, Len(@) - n + 1, Len(@))])
  /\ UNCHANGED <<now, added>>

\* DEL, or the key's deadline: the groups go with the stream.
Del(k) ==
  /\ Exists(k)
  /\ streams' = [x \in DOMAIN streams \ {k} |-> streams[x]]
  /\ added' = [added EXCEPT ![k] = <<>>]
  /\ UNCHANGED now
------------------------------------------------------------------------------
(* Groups *)

\* XGROUP CREATE key group id; $ stands for the last entry there is.
XGroupCreate(k, g, id) ==
  /\ ~HasGroup(k, g)
  /\ LET s == GetOrInit(k)
     IN  Put(k, [s EXCEPT !.groups = With(@, g, NewGroup(id, Len(added[k])))])
  /\ UNCHANGED <<now, added>>

XGroupCreateAtEnd(k, g) == XGroupCreate(k, g, LastId(GetOrInit(k)))

\* The consumer is created by its first read or claim.
Ensure(r, c) == IF c \in DOMAIN r.held THEN r ELSE [r EXCEPT !.held = With(@, c, {})]

\* One entry goes to consumer c.
HandOver(r, e, c) ==
  [r EXCEPT !.pending = Append(@, [id |-> e.id, by |-> c]), !.held[c] = @ \cup {e.id},
            !.got = Append(@, e), !.lastId = e.id]

\* Bug: an entry that exceeds the count is passed over.
OfferPastCount(t, e) ==
  IF e.id > t.group.lastId
  THEN [t EXCEPT !.group = IF Len(@.got) < t.limit THEN HandOver(@, e, t.by)
                           ELSE [@ EXCEPT !.lastId = e.id]]
  ELSE t

\* One turn of the loop over a stream's entries, for a reader and what it may have read then.
Offer(t, e) ==
  IF e.id > t.group.lastId /\ Len(t.group.got) < t.limit
  THEN [t EXCEPT !.group = HandOver(@, e, t.by)] ELSE t

\* The group after consumer c read at most count entries past lastId.
ReadGroup(r, c, s, count) ==
  FoldLeft(Offer, [group |-> Ensure(r, c), by |-> c, limit |-> Len(r.got) + count],
           s.entries).group

\* XREADGROUP from the streams ks in order.  The first without the group ends the
\* command with an error; what was read before it stays read.
XReadGroup(g, c, ks, count) ==
  LET read == {i \in DOMAIN ks : \A j \in 1 .. i : HasGroup(ks[j], g)}
  IN  /\ read # {}
      /\ streams' = [k \in DOMAIN streams |->
           IF k \in {ks[i] : i \in read}
           THEN [streams[k] EXCEPT !.groups[g] = ReadGroup(@, c, streams[k], count)]
           ELSE streams[k]]
      /\ UNCHANGED <<now, added>>

\* Bug: the consumer's own record of the entry stays.
AckedInListOnly(r, id) ==
  LET i == PlaceOf(id, r.pending)
  IN  [r EXCEPT !.pending = IF i = 0 THEN @ ELSE RemoveAt(@, i)]

\* XACK takes the identifier off the group's list and from every consumer.
Acked(r, id) ==
  LET i == PlaceOf(id, r.pending)
  IN  [r EXCEPT !.pending = IF i = 0 THEN @ ELSE RemoveAt(@, i),
                !.held = [c \in DOMAIN @ |-> @[c] \ {id}]]

XAck(k, g, id) ==
  /\ HasGroup(k, g)
  /\ PutGroup(k, g, Acked(streams[k].groups[g], id))
  /\ UNCHANGED <<now, added>>

\* XCLAIM: the new consumer gets the entry, the former one keeps its record of it.
Claimed(r, c, id) ==
  LET i == PlaceOf(id, r.pending)
  IN  IF i = 0 THEN Ensure(r, c)
      ELSE [Ensure(r, c) EXCEPT !.pending[i].by = c, !.held[c] = @ \cup {id}]

XClaim(k, g, c, id) ==
  /\ HasGroup(k, g)
  /\ PutGroup(k, g, Claimed(streams[k].groups[g], c, id))
  /\ UNCHANGED <<now, added>>

Tick == now < MaxTime /\ now' = now + 1 /\ UNCHANGED <<streams, added>>
------------------------------------------------------------------------------
Init ==
  /\ now = 1
  /\ streams = [k \in {} |-> NewStream] /\ added = [k \in Key |-> <<>>]

\* The identifiers clients name in XDEL, XACK and XCLAIM: those of the stream.
Ids(k) == Range(added[k])

Next ==
  \/ \E k \in Key : XAddAuto(k) \/ Del(k)
  \/ \E k \in Key, id \in Explicit : XAdd(k, id)
  \/ \E k \in Key : \E id \in Ids(k) : XDel(k, id)
  \/ \E k \in Key, n \in Counts : XTrim(k, n)
  \/ \E k \in Key, g \in Group : XGroupCreateAtEnd(k, g) \/ XGroupCreate(k, g, 0)
  \/ \E g \in Group, c \in Consumer, n \in Counts :
       \/ \E k \in Key : XReadGroup(g, c, <<k>>, n)
       \/ \E j, k \in Key : j # k /\ XReadGroup(g, c, <<j, k>>, n)
  \/ \E k \in Key, g \in Group : \E id \in Ids(k) :
       \/ XAck(k, g, id)
       \/ \E c \in Consumer : XClaim(k, g, c, id)
  \/ Tick

Spec == Init /\ [][Next]_vars
------------------------------------------------------------------------------
(* Properties *)

Entry == [id : Nat, n : Nat]

GroupOk(r) ==
  /\ DOMAIN r.held \subseteq Consumer
  /\ r \in [lastId : Nat, pending : Seq([id : Nat, by : Consumer]),
             held : [DOMAIN r.held -> SUBSET Nat], got : Seq(Entry), start : Nat, since : Nat]

StreamOk(s) ==
  /\ s \in [entries : Seq(Entry), groups : [DOMAIN s.groups -> Range(s.groups)],
             lastMs : Nat, lastSeq : Nat]
  /\ DOMAIN s.groups \subseteq Group /\ \A g \in DOMAIN s.groups : GroupOk(s.groups[g])

\* The types of the variables.
TypeOK ==
  /\ now \in Nat /\ added \in [Key -> Seq(Nat)]
  /\ DOMAIN streams \subseteq Key /\ \A k \in DOMAIN streams : StreamOk(streams[k])

\* P(k, r) for every group r of every stream k.
EveryGroup(P(_, _)) ==
  \A k \in DOMAIN streams : \A g \in DOMAIN streams[k].groups : P(k, streams[k].groups[g])

\* The list of a group and the maps of its consumers tell the same story, through any
\* sequence of reads, claims and acknowledgements: who an entry waits for has it, and
\* nobody has an entry that waits for no one.
PendingMatchesConsumers ==
  LET Match(k, r) ==
        /\ \A i \in DOMAIN r.pending : r.pending[i].id \in r.held[r.pending[i].by]
        /\ \A c \in DOMAIN r.held : r.held[c] \subseteq {r.pending[i].id : i \in DOMAIN r.pending}
  IN  EveryGroup(Match)

\* A group hands each entry out once and in the order of the identifiers, whoever
\* reads and however many at a time.
HandedOutOnce ==
  LET Once(k, r) == \A i, j \in DOMAIN r.got : i < j => r.got[i].id < r.got[j].id
  IN  EveryGroup(Once)

\* A group passes an entry over only if the entry came late: it was there before the
\* group, or is not above where the group began, or was added with an identifier that
\* is not above those before it.
OnlyLateEntriesArePassedOver ==
  LET Fair(k, r) ==
        \A e \in Range(streams[k].entries) :
          e.id <= r.lastId /\ e \notin Range(r.got) =>
            \/ e.n <= r.since \/ e.id <= r.start
            \/ \E j \in 1 .. e.n - 1 : added[k][j] >= e.id
  IN  EveryGroup(Fair)

\* Both: a group reads every entry once, in order, but for those that came late.
GroupsReadEachEntryOnce == HandedOutOnce /\ OnlyLateEntriesArePassedOver
==============================================================================
