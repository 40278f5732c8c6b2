------------------------ MODULE SubscriptionsProofs --------------------------
(***************************************************************************)
(* For any number of connections, channels, databases and commands: what   *)
(* the server keeps by channel and by key agrees with what it keeps by     *)
(* socket and with what it told the clients; a tracked cache is stale only *)
(* of keys last changed by what sends no invalidation; and what events say *)
(* of a key is true unless it was last changed by what sends none.         *)
(***************************************************************************)
EXTENDS Subscriptions, TLAPS

Sock == [state : {"open", "ended", "closed"}, db : Db, tracking : BOOLEAN,
         bcast : BOOLEAN, prefixes : SUBSET Db, tracked : SUBSET Stored,
         subscriptions : SUBSET Channel]

Said == Message \cup Key \cup Events \cup {Nothing}

Known == [channels : SUBSET Channel, heard : [Channel -> Said],
          cache : [Stored -> Value \cup {Absent, NotCached}]]

(* What is not open has no subscriptions: its cleanup took them.  Without this a client *)
(* that connects again could find itself among the subscribers of a channel.            *)
ClosedHaveNone == \A c \in Conn : conn[c].state # "open" => conn[c].subscriptions = {}

IInv == TypeOK /\ SubscriptionsAgree /\ TrackedWhileOn /\ ClosedHaveNone

(* What is said and invalidated changes nobody's channels *)

SameChannels(t, u) == \A c \in Conn : t[c].channels = u[c].channels

LEMMA SayKeepsChannels ==
  ASSUME NEW t \in [Conn -> Known], NEW ch, NEW m \in Said
  PROVE  Say(t, ch, m) \in [Conn -> Known] /\ SameChannels(Say(t, ch, m), t)
<1> DEFINE New(c) == [t[c] EXCEPT !.heard[ch] = m]
<1>1. \A c \in Conn : New(c) \in Known /\ New(c).channels = t[c].channels
  BY DEF Known
<1>2. \A c \in Conn : Say(t, ch, m)[c] = New(c) \/ Say(t, ch, m)[c] = t[c]
  BY DEF Say
<1>3. Say(t, ch, m) = [c \in Conn |-> Say(t, ch, m)[c]]
  BY DEF Say
<1> QED BY <1>1, <1>2, <1>3 DEF SameChannels

LEMMA MaybePublishKeepsChannels ==
  ASSUME NEW t \in [Conn -> Known], NEW event \in Events, NEW class, NEW s \in Stored
  PROVE  /\ MaybePublish(t, event, class, s) \in [Conn -> Known]
         /\ SameChannels(MaybePublish(t, event, class, s), t)
<1>1. s[2] \in Said /\ event \in Said
  BY DEF Said, Stored
<1> DEFINE enabled(kind) == class \in notify.classes /\ kind
           first == IF enabled(notify.keyevent) THEN Say(t, KeyEvent(s[1], event), s[2]) ELSE t
           then  == IF enabled(notify.keyspace) THEN Say(first, KeySpace(s[1], s[2]), event) ELSE first
<1>2. MaybePublish(t, event, class, s) = then
  BY DEF MaybePublish
<1>3. first \in [Conn -> Known] /\ SameChannels(first, t)
  BY <1>1, SayKeepsChannels DEF SameChannels
<1> HIDE DEF first
<1>4. then \in [Conn -> Known] /\ SameChannels(then, first)
  BY <1>1, <1>3, SayKeepsChannels DEF SameChannels
<1> QED BY <1>2, <1>3, <1>4 DEF SameChannels

LEMMA InvalidateKeepsChannels ==
  ASSUME NEW t \in [Conn -> Known], NEW S
  PROVE  Invalidate(t, S) \in [Conn -> Known] /\ SameChannels(Invalidate(t, S), t)
<1> DEFINE Cache(c) == [s \in Stored |-> IF s \in S /\ c \in Invalidated(s) THEN NotCached ELSE t[c].cache[s]]
           New(c) == [t[c] EXCEPT !.cache = Cache(c)]
<1>1. Invalidate(t, S) = [c \in Conn |-> New(c)]
  BY DEF Invalidate, Known
<1>2. \A c \in Conn : Cache(c) \in [Stored -> Value \cup {Absent, NotCached}]
  BY DEF Known
<1> HIDE DEF Cache
<1>3. \A c \in Conn : New(c) \in Known /\ New(c).channels = t[c].channels
  BY <1>2 DEF Known
<1> QED BY <1>1, <1>3 DEF SameChannels

LEMMA CachesKeepsChannels ==
  ASSUME TypeOK, NEW c \in Conn, NEW S
  PROVE  Caches(told, c, S) \in [Conn -> Known] /\ SameChannels(Caches(told, c, S), told)
<1> DEFINE watched(s) == /\ s \in S /\ conn[c].tracking
                         /\ conn[c].bcast => conn[c].prefixes = {} \/ s[1] \in conn[c].prefixes
           cache == [s \in Stored |-> IF watched(s) THEN store[s] ELSE told[c].cache[s]]
<1>1. told \in [Conn -> Known] /\ store \in [Stored -> Value \cup {Absent}]
  BY DEF TypeOK, Known, Said, Stores
<1>2. cache \in [Stored -> Value \cup {Absent, NotCached}]
  BY <1>1 DEF Known
<1>3. Caches(told, c, S) = [told EXCEPT ![c].cache = cache]
  BY <1>1 DEF Caches
<1> HIDE DEF cache
<1>4. [told[c] EXCEPT !.cache = cache] \in Known
  BY <1>1, <1>2 DEF Known
<1> QED BY <1>1, <1>2, <1>3, <1>4 DEF SameChannels, Known

(* What most commands leave alone *)

LEMMA SubscriptionsKept ==
  ASSUME IInv, channels' = channels, SameChannels(told', told),
         \A c \in Conn : /\ conn'[c].subscriptions = conn[c].subscriptions
                         /\ conn'[c].state = conn[c].state
  PROVE  SubscriptionsAgree' /\ ClosedHaveNone'
BY DEF IInv, SubscriptionsAgree, ClosedHaveNone, SameChannels

LEMMA TrackingKept ==
  ASSUME IInv, bcast' = bcast,
         \A c \in Conn : /\ conn'[c].state = conn[c].state
                         /\ conn'[c].tracking = conn[c].tracking
                         /\ conn'[c].bcast = conn[c].bcast
                         /\ conn'[c].tracked = conn[c].tracked,
         \A s \in DOMAIN keyClients' : s \in DOMAIN keyClients /\ keyClients'[s] \subseteq keyClients[s]
  PROVE  TrackedWhileOn'
<1>1. \A s \in DOMAIN keyClients' : \A c \in keyClients'[s] :
        c \in Conn /\ s \in DOMAIN keyClients /\ c \in keyClients[s]
  BY DEF IInv, TypeOK
<1>2. \A s \in DOMAIN keyClients' : \A c \in keyClients'[s] :
        conn'[c].state = "open" /\ conn'[c].tracking /\ s \in conn'[c].tracked
  BY <1>1 DEF IInv, TrackedWhileOn
<1>3. \A c \in Conn : c \in bcast' <=> conn'[c].state = "open" /\ conn'[c].bcast
  BY DEF IInv, TrackedWhileOn
<1> QED BY <1>2, <1>3 DEF TrackedWhileOn

LEMMA FreshIsTyped == Fresh \in Sock /\ Ignorant \in Known
<1>1. (CHOOSE d \in Db : TRUE) \in Db
  BY ConstantsAssumption
<1>2. Fresh \in Sock
  BY <1>1 DEF Fresh, Sock
<1>3. Ignorant \in Known
  BY DEF Ignorant, Known, Said
<1> QED BY <1>2, <1>3

(* Each action keeps the invariant *)

LEMMA SubscribeKeeps ==
  ASSUME IInv, NEW c \in Conn, NEW ch \in Channel, Subscribe(c, ch) PROVE IInv'
<1>0. /\ conn \in [Conn -> Sock] /\ told \in [Conn -> Known] /\ commands' \in Nat
      /\ DOMAIN channels \subseteq Channel /\ \A x \in DOMAIN channels : channels[x] \subseteq Conn
  BY DEF IInv, TypeOK, Subscribe, Open, Sock, Known, Said
<1>1. /\ DOMAIN channels' = DOMAIN channels \cup {ch}
      /\ channels'[ch] = At(channels, ch) \cup {c}
      /\ \A x \in DOMAIN channels \ {ch} : channels'[x] = channels[x]
  <2> DEFINE more == Including(channels, ch, c)
  <2>1. /\ DOMAIN more = DOMAIN channels \cup {ch}
        /\ more[ch] = At(channels, ch) \cup {c}
        /\ \A x \in DOMAIN channels \ {ch} : more[x] = channels[x]
    BY DEF Including
  <2>2. channels' = more
    BY DEF Subscribe
  <2> HIDE DEF more
  <2> QED BY <2>1, <2>2
<1>2. /\ conn' \in [Conn -> Sock]
      /\ \A d \in Conn :
           /\ conn'[d].subscriptions = IF d = c THEN conn[d].subscriptions \cup {ch} ELSE conn[d].subscriptions
           /\ conn'[d].state = conn[d].state /\ conn'[d].tracking = conn[d].tracking
           /\ conn'[d].bcast = conn[d].bcast /\ conn'[d].tracked = conn[d].tracked
  <2>1. conn' = [conn EXCEPT ![c] = [conn[c] EXCEPT !.subscriptions = conn[c].subscriptions \cup {ch}]]
    BY <1>0 DEF Subscribe
  <2> QED BY <1>0, <2>1 DEF Sock
<1>3. /\ told' \in [Conn -> Known]
      /\ \A d \in Conn : told'[d].channels = IF d = c THEN told[d].channels \cup {ch} ELSE told[d].channels
  <2>1. told' = [told EXCEPT ![c] = [told[c] EXCEPT !.channels = told[c].channels \cup {ch}]]
    BY <1>0 DEF Subscribe
  <2> QED BY <1>0, <2>1 DEF Known
<1>4. conn[c].state = "open"
  BY DEF Subscribe, Open
<1>5. TypeOK'
  <2>1. DOMAIN channels' \subseteq Channel /\ \A x \in DOMAIN channels' : channels'[x] \subseteq Conn
    BY <1>0, <1>1 DEF At
  <2> QED BY <1>0, <1>2, <1>3, <2>1 DEF IInv, TypeOK, Subscribe, Sock, Known, Said, history
<1>6. SubscriptionsAgree'
  <2>1. \A d \in Conn, x \in Channel :
          x \in DOMAIN channels' /\ d \in channels'[x]
            <=> (x \in DOMAIN channels /\ d \in channels[x]) \/ (x = ch /\ d = c)
    BY <1>1 DEF At
  <2>2. \A x \in DOMAIN channels' : channels'[x] # {}
    BY <1>1 DEF IInv, SubscriptionsAgree
  <2>3. \A d \in Conn : conn'[d].subscriptions = {x \in DOMAIN channels' : d \in channels'[x]}
    BY <1>0, <1>1, <1>2, <2>1 DEF IInv, SubscriptionsAgree, Sock
  <2>4. \A d \in Conn : told'[d].channels = conn'[d].subscriptions
    BY <1>2, <1>3 DEF IInv, SubscriptionsAgree
  <2> QED BY <2>2, <2>3, <2>4 DEF SubscriptionsAgree
<1>7. TrackedWhileOn'
  BY <1>2, TrackingKept DEF Subscribe
<1>8. ClosedHaveNone'
  BY <1>2, <1>4 DEF IInv, ClosedHaveNone
<1> QED BY <1>5, <1>6, <1>7, <1>8 DEF IInv

(* A client leaves channels: by channel, by socket, and as far as it knows *)

LEMMA LeavingAgrees ==
  ASSUME IInv, NEW c \in Conn, NEW chs \in SUBSET Channel,
         channels' = Excluding(channels, chs, c),
         \A d \in Conn : /\ conn'[d].subscriptions =
                              IF d = c THEN conn[d].subscriptions \ chs ELSE conn[d].subscriptions
                         /\ told'[d].channels = IF d = c THEN told[d].channels \ chs ELSE told[d].channels
  PROVE  /\ DOMAIN channels' \subseteq Channel
         /\ \A x \in DOMAIN channels' : channels'[x] \subseteq Conn
         /\ SubscriptionsAgree'
<1> DEFINE left == Excluding(channels, chs, c)
<1>1. /\ DOMAIN left = {x \in DOMAIN channels : x \notin chs \/ channels[x] \ {c} # {}}
      /\ \A x \in DOMAIN left : left[x] = IF x \in chs THEN channels[x] \ {c} ELSE channels[x]
  BY DEF Excluding, Without
<1> HIDE DEF left
<1>2. channels' = left
  BY DEF left
<1>3. DOMAIN channels \subseteq Channel /\ \A x \in DOMAIN channels : channels[x] \subseteq Conn
  BY DEF IInv, TypeOK
<1>4. DOMAIN channels' \subseteq Channel /\ \A x \in DOMAIN channels' : channels'[x] \subseteq Conn
  BY <1>1, <1>2, <1>3
<1>5. \A x \in DOMAIN channels' : channels'[x] # {}
  BY <1>1, <1>2 DEF IInv, SubscriptionsAgree
<1>6. ASSUME NEW d \in Conn
      PROVE  conn'[d].subscriptions = {x \in DOMAIN channels' : d \in channels'[x]}
  <2>1. conn[d].subscriptions = {x \in DOMAIN channels : d \in channels[x]}
    BY DEF IInv, SubscriptionsAgree
  <2>2. \A x : x \in DOMAIN left /\ d \in left[x]
                <=> x \in DOMAIN channels /\ d \in channels[x] /\ ~(d = c /\ x \in chs)
    BY <1>1
  <2>3. \A x : x \in conn'[d].subscriptions <=> x \in DOMAIN left /\ d \in left[x]
    BY <2>1, <2>2
  <2> QED BY <1>2, <2>3
<1>7. \A d \in Conn : told'[d].channels = conn'[d].subscriptions
  BY DEF IInv, SubscriptionsAgree
<1> QED BY <1>4, <1>5, <1>6, <1>7 DEF SubscriptionsAgree

LEMMA UnsubscribeKeeps ==
  ASSUME IInv, NEW c \in Conn, NEW chs \in SUBSET Channel, Unsubscribe(c, chs) PROVE IInv'
<1>0. /\ conn \in [Conn -> Sock] /\ told \in [Conn -> Known] /\ commands' \in Nat
      /\ DOMAIN channels \subseteq Channel /\ \A x \in DOMAIN channels : channels[x] \subseteq Conn
  BY DEF IInv, TypeOK, Unsubscribe, Open, Sock, Known, Said
<1>2. /\ conn' \in [Conn -> Sock]
      /\ \A d \in Conn :
           /\ conn'[d].subscriptions = IF d = c THEN conn[d].subscriptions \ chs ELSE conn[d].subscriptions
           /\ conn'[d].state = conn[d].state /\ conn'[d].tracking = conn[d].tracking
           /\ conn'[d].bcast = conn[d].bcast /\ conn'[d].tracked = conn[d].tracked
  <2>1. conn' = [conn EXCEPT ![c] = [conn[c] EXCEPT !.subscriptions = conn[c].subscriptions \ chs]]
    BY <1>0 DEF Unsubscribe
  <2> QED BY <1>0, <2>1 DEF Sock
<1>3. /\ told' \in [Conn -> Known]
      /\ \A d \in Conn : told'[d].channels = IF d = c THEN told[d].channels \ chs ELSE told[d].channels
  <2> DEFINE heard == [ch \in Channel |-> IF ch \in chs THEN Nothing ELSE told[c].heard[ch]]
  <2>1. told' = [told EXCEPT ![c] = [told[c] EXCEPT !.channels = told[c].channels \ chs, !.heard = heard]]
    BY <1>0 DEF Unsubscribe
  <2>2. heard \in [Channel -> Said]
    BY <1>0 DEF Known, Said
  <2> HIDE DEF heard
  <2> QED BY <1>0, <2>1, <2>2 DEF Known
<1>4. /\ DOMAIN channels' \subseteq Channel /\ \A x \in DOMAIN channels' : channels'[x] \subseteq Conn
      /\ SubscriptionsAgree'
  <2>1. channels' = Excluding(channels, chs, c)
    BY DEF Unsubscribe
  <2> QED BY <1>2, <1>3, <2>1, LeavingAgrees
<1>5. TypeOK'
  BY <1>0, <1>2, <1>3, <1>4 DEF IInv, TypeOK, Unsubscribe, Sock, Known, Said, history
<1>6. TrackedWhileOn'
  BY <1>2, TrackingKept DEF Unsubscribe
<1>7. ClosedHaveNone'
  BY <1>2 DEF IInv, ClosedHaveNone
<1> QED BY <1>4, <1>5, <1>6, <1>7 DEF IInv
(* Commands that register nobody anywhere *)

LEMMA RegisteringNobodyKeeps ==
  ASSUME IInv, around' = around, channels' = channels, bcast' = bcast,
         conn' \in [Conn -> Sock],
         \A c \in Conn : /\ conn'[c].subscriptions = conn[c].subscriptions
                         /\ conn'[c].state = conn[c].state
                         /\ conn'[c].tracking = conn[c].tracking
                         /\ conn'[c].bcast = conn[c].bcast
                         /\ conn'[c].tracked = conn[c].tracked,
         \A s \in DOMAIN keyClients' : s \in DOMAIN keyClients /\ keyClients'[s] \subseteq keyClients[s],
         notify' \in Flags, store' \in Stores, commands' \in Nat,
         uninvalidated' \subseteq Stored, unannounced' \subseteq Stored,
         told' \in [Conn -> Known], SameChannels(told', told)
  PROVE  IInv'
<1>1. SubscriptionsAgree' /\ ClosedHaveNone'
  BY SubscriptionsKept
<1>2. TrackedWhileOn'
  BY TrackingKept
<1>3. /\ DOMAIN keyClients' \subseteq Stored
      /\ \A s \in DOMAIN keyClients' : keyClients'[s] \subseteq Conn
  BY DEF IInv, TypeOK
<1>4. TypeOK'
  BY <1>3 DEF IInv, TypeOK, Sock, Known, Said
<1> QED BY <1>1, <1>2, <1>4 DEF IInv

LEMMA Typed ==
  ASSUME IInv
  PROVE  /\ conn \in [Conn -> Sock] /\ told \in [Conn -> Known]
         /\ store \in Stores /\ uninvalidated \subseteq Stored /\ unannounced \subseteq Stored
         /\ notify \in Flags /\ commands \in Nat
         /\ DOMAIN keyClients \subseteq Stored
         /\ \A s \in DOMAIN keyClients : keyClients[s] \subseteq Conn
         /\ SameChannels(told, told)
BY DEF IInv, TypeOK, Sock, Known, Said, SameChannels

LEMMA PublishKeeps ==
  ASSUME IInv, NEW c \in Conn, NEW ch, NEW m \in Message, Publish(c, ch, m) PROVE IInv'
<1>1. told' = Say(told, ch, m) /\ commands' \in Nat
  BY Typed DEF Publish, Open
<1>2. Say(told, ch, m) \in [Conn -> Known] /\ SameChannels(Say(told, ch, m), told)
  <2>1. m \in Said
    BY DEF Said
  <2> QED BY <2>1, Typed, SayKeepsChannels
<1>3. /\ around' = around /\ channels' = channels /\ bcast' = bcast /\ conn' = conn
      /\ keyClients' = keyClients /\ notify' = notify /\ store' = store
      /\ uninvalidated' = uninvalidated /\ unannounced' = unannounced
  BY DEF Publish, history
<1> QED BY <1>1, <1>2, <1>3, Typed, RegisteringNobodyKeeps

LEMMA ConfigSetKeeps ==
  ASSUME IInv, NEW c \in Conn, NEW flags \in Flags, ConfigSet(c, flags) PROVE IInv'
<1>1. /\ around' = around /\ channels' = channels /\ bcast' = bcast /\ conn' = conn
      /\ keyClients' = keyClients /\ notify' \in Flags /\ store' = store /\ told' = told
      /\ commands' \in Nat /\ uninvalidated' = uninvalidated /\ unannounced' = unannounced
  BY Typed DEF ConfigSet, Open, history
<1> QED BY <1>1, Typed, RegisteringNobodyKeeps

(* A command's keys are places of the store, and it changes no other *)

LEMMA PlacesAreStored ==
  ASSUME NEW cmd \in Commands, NEW d \in Db, NEW keys \in KeyLists(cmd)
  PROVE  /\ Range(Places(cmd, d, keys)) \subseteq Stored
         /\ Named(cmd, Places(cmd, d, keys)) \subseteq Range(Places(cmd, d, keys))
         /\ Places(cmd, d, keys)[1] \in Range(Places(cmd, d, keys))
         /\ cmd \in {"LMOVE", "SMOVE"} => Places(cmd, d, keys)[2] \in Range(Places(cmd, d, keys))
<1>1. /\ 1 \in DOMAIN keys /\ \A i \in DOMAIN keys : keys[i] \in Key
      /\ cmd \in {"LMOVE", "SMOVE"} => 2 \in DOMAIN keys
  BY DEF KeyLists
<1> DEFINE there == Places(cmd, d, keys)
<1>2. DOMAIN there = DOMAIN keys /\ \A i \in DOMAIN keys : there[i] \in Stored
  BY <1>1 DEF Places, Stored
<1> HIDE DEF there
<1>3. /\ Range(there) \subseteq Stored /\ there[1] \in Range(there)
      /\ cmd \in {"LMOVE", "SMOVE"} => there[2] \in Range(there)
  BY <1>1, <1>2 DEF Range
<1>4. Named(cmd, there) \in {{there[1]}, {}, Range(there)}
  BY DEF Named
<1> QED BY <1>3, <1>4 DEF there

LEMMA OutcomesAreStores ==
  ASSUME IInv, NEW cmd \in Commands, NEW places, Range(places) \subseteq Stored,
         places[1] \in Range(places),
         cmd \in {"LMOVE", "SMOVE"} => places[2] \in Range(places),
         NEW new \in Outcomes(cmd, places)
  PROVE  new \in Stores /\ \A s \in Stored : s \notin Range(places) => new[s] = store[s]
<1>1. store \in Stores
  BY Typed
<1>2. CASE new = store
  BY <1>1, <1>2
<1>3. CASE cmd \in {"SET", "BITOP", "GETDEL", "EXPIRE", "PEXPIRE"} /\ new # store
  <2>1. PICK v \in Value \cup {Absent} : new = [store EXCEPT ![places[1]] = v]
    BY <1>3 DEF Outcomes
  <2> QED BY <1>1, <2>1 DEF Stores
<1>4. CASE cmd \in {"MSET", "DEL"}
  <2>1. PICK v \in Value \cup {Absent} :
          new = [s \in Stored |-> IF s \in Range(places) THEN v ELSE store[s]]
    BY <1>4 DEF Outcomes
  <2> QED BY <1>1, <2>1 DEF Stores
<1>5. CASE cmd \in {"LMOVE", "SMOVE"} /\ new # store
  <2>1. PICK left \in Value \cup {Absent}, v \in Value :
          new = [store EXCEPT ![places[1]] = left, ![places[2]] = v]
    BY <1>5 DEF Outcomes
  <2> QED BY <1>1, <1>5, <2>1 DEF Stores
<1>6. CASE cmd \in Reads
  BY <1>1, <1>6 DEF Outcomes, Reads
<1> QED BY <1>2, <1>3, <1>4, <1>5, <1>6 DEF Commands, Reads

(* The same sockets and caches, whatever is published *)

SameCaches(t, u) == \A c \in Conn : t[c].cache = u[c].cache

LEMMA SayKeepsCaches ==
  ASSUME NEW t \in [Conn -> Known], NEW ch, NEW m
  PROVE  SameCaches(Say(t, ch, m), t)
<1> DEFINE New(c) == [t[c] EXCEPT !.heard[ch] = m]
<1>1. \A c \in Conn : New(c).cache = t[c].cache
  BY DEF Known
<1>2. \A c \in Conn : Say(t, ch, m)[c] = New(c) \/ Say(t, ch, m)[c] = t[c]
  BY DEF Say
<1> QED BY <1>1, <1>2 DEF SameCaches

LEMMA MaybePublishKeepsCaches ==
  ASSUME NEW t \in [Conn -> Known], NEW event \in Events, NEW class, NEW s \in Stored
  PROVE  SameCaches(MaybePublish(t, event, class, s), t)
<1>1. s[2] \in Said
  BY DEF Said, Stored
<1> DEFINE enabled(kind) == class \in notify.classes /\ kind
           first == IF enabled(notify.keyevent) THEN Say(t, KeyEvent(s[1], event), s[2]) ELSE t
           then  == IF enabled(notify.keyspace) THEN Say(first, KeySpace(s[1], s[2]), event) ELSE first
<1>2. MaybePublish(t, event, class, s) = then
  BY DEF MaybePublish
<1>3. first \in [Conn -> Known] /\ SameCaches(first, t)
  BY <1>1, SayKeepsChannels, SayKeepsCaches DEF SameCaches
<1> HIDE DEF first
<1>4. SameCaches(then, first)
  BY <1>3, SayKeepsCaches DEF SameCaches
<1> QED BY <1>2, <1>3, <1>4 DEF SameCaches

(* A table of what clients know that differs from another in what was heard only *)

OnlyHeard(t, u) == t \in [Conn -> Known] /\ SameChannels(t, u) /\ SameCaches(t, u)

LEMMA MaybePublishIsHeard ==
  ASSUME NEW t, OnlyHeard(t, told), NEW event \in Events, NEW class, NEW s \in Stored
  PROVE  OnlyHeard(MaybePublish(t, event, class, s), told)
<1>1. /\ MaybePublish(t, event, class, s) \in [Conn -> Known]
      /\ SameChannels(MaybePublish(t, event, class, s), t)
      /\ SameCaches(MaybePublish(t, event, class, s), t)
  BY MaybePublishKeepsChannels, MaybePublishKeepsCaches DEF OnlyHeard
<1> QED BY <1>1 DEF OnlyHeard, SameChannels, SameCaches

LEMMA NotifiedIsHeard ==
  ASSUME IInv, NEW cmd \in Commands, NEW places, Range(places) \subseteq Stored,
         places[1] \in Range(places),
         cmd \in {"LMOVE", "SMOVE"} => places[2] \in Range(places), NEW new
  PROVE  OnlyHeard(Notified(cmd, places, new), told)
<1> DEFINE say(t, event, class, i) == MaybePublish(t, event, class, places[i])
<1>1. OnlyHeard(told, told)
  BY Typed DEF OnlyHeard, SameChannels, SameCaches
<1>2. places[1] \in Stored /\ (cmd = "SMOVE" => places[2] \in Stored)
  OBVIOUS
<1>3. \A t, event, class :
        event \in Events /\ OnlyHeard(t, told) => OnlyHeard(say(t, event, class, 1), told)
  BY <1>2, MaybePublishIsHeard
<1>4. \A t, event, class :
        cmd = "SMOVE" /\ event \in Events /\ OnlyHeard(t, told) => OnlyHeard(say(t, event, class, 2), told)
  BY <1>2, MaybePublishIsHeard
<1>5. Notified(cmd, places, new) =
        CASE cmd = "SET"     -> say(told, "set", "$", 1)
          [] cmd = "DEL"     -> say(told, "del", "g", 1)
          [] cmd = "PEXPIRE" -> say(told, "pexpire", "g", 1)
          [] cmd = "EXPIRE"  ->
               say(IF new = store THEN told ELSE say(told, "expired", "x", 1), "expire", "g", 1)
          [] cmd = "SMOVE"   -> say(say(told, "smove", "s", 1), "smove", "s", 2)
          [] OTHER           -> told
  BY DEF Notified
<1>6. {"set", "del", "expired", "expire", "pexpire", "smove"} \subseteq Events
  BY DEF Events
<1> HIDE DEF say
<1>7. CASE cmd \in {"SET", "DEL", "PEXPIRE"}
  BY <1>1, <1>3, <1>5, <1>6, <1>7
<1>8. CASE cmd = "EXPIRE"
  <2>1. OnlyHeard(IF new = store THEN told ELSE say(told, "expired", "x", 1), told)
    BY <1>1, <1>3, <1>6
  <2> QED BY <1>3, <1>5, <1>6, <1>8, <2>1
<1>9. CASE cmd = "SMOVE"
  BY <1>1, <1>3, <1>4, <1>5, <1>6, <1>9
<1>10. CASE cmd \notin {"SET", "DEL", "PEXPIRE", "EXPIRE", "SMOVE"}
  BY <1>1, <1>5, <1>10
<1> QED BY <1>7, <1>8, <1>9, <1>10

(* A change that neither invalidates nor announces *)

LEMMA SilentlyKeeps ==
  ASSUME IInv, NEW S \in SUBSET Stored, NEW v \in Value \cup {Absent}, Silently(S, v), commands' \in Nat
  PROVE  IInv'
<1>1. /\ around' = around /\ channels' = channels /\ bcast' = bcast /\ conn' = conn
      /\ keyClients' = keyClients /\ notify' = notify /\ told' = told
  BY DEF Silently
<1>2. store' \in Stores /\ uninvalidated' \subseteq Stored /\ unannounced' \subseteq Stored
  BY Typed DEF Silently, Stores
<1> QED BY <1>1, <1>2, Typed, RegisteringNobodyKeeps

LEMMA SilentCommands ==
  ASSUME IInv,
         \/ \E c \in Conn, k \in Key, v \in Value : ExecSet(c, k, v)
         \/ \E c \in Conn : FlushDb(c)
         \/ \E c \in Conn, s \in Stored : Lookup(c, s)
  PROVE  commands' \in Nat /\ \E S \in SUBSET Stored, v \in Value \cup {Absent} : Silently(S, v)
<1>1. ASSUME NEW c \in Conn, NEW k \in Key, NEW v \in Value, ExecSet(c, k, v)
      PROVE  \E S \in SUBSET Stored : Silently(S, v)
  <2>1. {<<conn[c].db, k>>} \in SUBSET Stored
    BY Typed DEF Sock, Stored
  <2> QED BY <1>1, <2>1 DEF ExecSet
<1>2. ASSUME NEW c \in Conn, FlushDb(c)
      PROVE  \E S \in SUBSET Stored : Silently(S, Absent)
  BY <1>2 DEF FlushDb
<1>3. ASSUME NEW c \in Conn, NEW s \in Stored, Lookup(c, s)
      PROVE  \E S \in SUBSET Stored : Silently(S, Absent)
  BY <1>3 DEF Lookup
<1>4. \A c \in Conn : Open(c) => commands' \in Nat
  BY Typed DEF Open
<1>5. \A c \in Conn : (\E k \in Key, v \in Value : ExecSet(c, k, v)) => Open(c)
  BY DEF ExecSet
<1>6. \A c \in Conn : FlushDb(c) \/ (\E s \in Stored : Lookup(c, s)) => Open(c)
  BY DEF FlushDb, Lookup
<1> QED BY <1>1, <1>2, <1>3, <1>4, <1>5, <1>6

LEMMA ExecGetKeeps ==
  ASSUME IInv, NEW c \in Conn, NEW k \in Key, ExecGet(c, k) PROVE IInv'
<1> DEFINE S == {<<conn[c].db, k>>}
<1>1. /\ around' = around /\ channels' = channels /\ bcast' = bcast /\ conn' = conn
      /\ keyClients' = keyClients /\ notify' = notify /\ store' = store /\ commands' \in Nat
      /\ told' = Caches(told, c, S)
      /\ uninvalidated' = uninvalidated /\ unannounced' = unannounced
  BY Typed DEF ExecGet, Open, history
<1> HIDE DEF S
<1>2. Caches(told, c, S) \in [Conn -> Known] /\ SameChannels(Caches(told, c, S), told)
  BY CachesKeepsChannels DEF IInv
<1> QED BY <1>1, <1>2, Typed, RegisteringNobodyKeeps

LEMMA ExpireKeeps ==
  ASSUME IInv, NEW s \in Stored, Expire(s) PROVE IInv'
<1>1. /\ around' = around /\ channels' = channels /\ bcast' = bcast /\ conn' = conn
      /\ keyClients' = keyClients /\ notify' = notify /\ commands' = commands
      /\ told' = MaybePublish(told, "expired", "x", s)
  BY DEF Expire
<1>2. store' \in Stores /\ uninvalidated' \subseteq Stored /\ unannounced' \subseteq Stored
  BY Typed DEF Expire, Stores
<1>3. /\ MaybePublish(told, "expired", "x", s) \in [Conn -> Known]
      /\ SameChannels(MaybePublish(told, "expired", "x", s), told)
  <2>1. "expired" \in Events
    BY DEF Events
  <2> QED BY <2>1, Typed, MaybePublishKeepsChannels
<1> QED BY <1>1, <1>2, <1>3, Typed, RegisteringNobodyKeeps

LEMMA SelectKeeps ==
  ASSUME IInv, NEW c \in Conn, NEW d \in Db, Select(c, d) PROVE IInv'
<1>1. /\ around' = around /\ channels' = channels /\ bcast' = bcast
      /\ keyClients' = keyClients /\ notify' = notify /\ store' = store /\ told' = told
      /\ commands' \in Nat /\ uninvalidated' = uninvalidated /\ unannounced' = unannounced
  BY Typed DEF Select, Open, history
<1>2. conn' = [conn EXCEPT ![c] = [conn[c] EXCEPT !.db = d]]
  BY Typed DEF Select
<1>3. /\ conn' \in [Conn -> Sock]
      /\ \A e \in Conn : /\ conn'[e].subscriptions = conn[e].subscriptions
                         /\ conn'[e].state = conn[e].state
                         /\ conn'[e].tracking = conn[e].tracking
                         /\ conn'[e].bcast = conn[e].bcast
                         /\ conn'[e].tracked = conn[e].tracked
  BY <1>2, Typed DEF Sock
<1> QED BY <1>1, <1>3, Typed, RegisteringNobodyKeeps
(* Tracking *)

LEMMA TrackingOffKeeps ==
  ASSUME IInv, NEW c \in Conn, TrackingOff(c) PROVE IInv'
<1>1. /\ around' = around /\ channels' = channels /\ notify' = notify /\ store' = store
      /\ bcast' = bcast \ {c} /\ commands' \in Nat /\ conn[c].state = "open"
      /\ keyClients' = Excluding(keyClients, conn[c].tracked, c)
      /\ uninvalidated' = uninvalidated /\ unannounced' = unannounced
  BY Typed DEF TrackingOff, Open, history
<1>2. /\ conn' \in [Conn -> Sock]
      /\ \A d \in Conn : /\ conn'[d].subscriptions = conn[d].subscriptions
                         /\ conn'[d].state = conn[d].state
                         /\ d # c => conn'[d] = conn[d]
      /\ conn'[c].bcast = FALSE
  <2>1. conn' = [conn EXCEPT ![c] = [conn[c] EXCEPT !.tracking = FALSE, !.bcast = FALSE,
                                                    !.tracked = {}, !.prefixes = {}]]
    BY Typed DEF TrackingOff
  <2> QED BY <2>1, Typed DEF Sock
<1>3. told' \in [Conn -> Known] /\ SameChannels(told', told)
  <2>1. told' = [told EXCEPT ![c] = [told[c] EXCEPT !.cache = Ignorant.cache]]
    BY Typed DEF TrackingOff
  <2>2. Ignorant.cache \in [Stored -> Value \cup {Absent, NotCached}]
    BY FreshIsTyped DEF Known
  <2> QED BY <2>1, <2>2, Typed DEF Known, SameChannels
<1>4. /\ DOMAIN keyClients' \subseteq DOMAIN keyClients
      /\ \A s \in DOMAIN keyClients' : /\ keyClients'[s] \subseteq keyClients[s]
                                       /\ s \in conn[c].tracked => c \notin keyClients'[s]
  BY <1>1 DEF Excluding, Without
<1>5. TrackedWhileOn'
  <2>1. ASSUME NEW s \in DOMAIN keyClients', NEW d \in keyClients'[s]
        PROVE  conn'[d].state = "open" /\ conn'[d].tracking /\ s \in conn'[d].tracked
    <3>1. s \in DOMAIN keyClients /\ d \in keyClients[s] /\ d \in Conn
      BY <1>4, <2>1, Typed
    <3>2. conn[d].state = "open" /\ conn[d].tracking /\ s \in conn[d].tracked
      BY <3>1 DEF IInv, TrackedWhileOn
    <3>3. d # c
      BY <1>4, <2>1, <3>2
    <3> QED BY <1>2, <3>1, <3>2, <3>3
  <2>2. \A d \in Conn : d \in bcast' <=> conn'[d].state = "open" /\ conn'[d].bcast
    BY <1>1, <1>2 DEF IInv, TrackedWhileOn
  <2> QED BY <2>1, <2>2 DEF TrackedWhileOn
<1>6. SubscriptionsAgree' /\ ClosedHaveNone'
  BY <1>1, <1>2, <1>3, SubscriptionsKept
<1>7. TypeOK'
  <2>1. bcast' \subseteq Conn
    BY <1>1 DEF IInv, TypeOK
  <2>2. DOMAIN keyClients' \subseteq Stored /\ \A s \in DOMAIN keyClients' : keyClients'[s] \subseteq Conn
    BY <1>4, Typed
  <2> QED BY <1>1, <1>2, <1>3, <2>1, <2>2 DEF IInv, TypeOK, Sock, Known, Said
<1> QED BY <1>5, <1>6, <1>7 DEF IInv

LEMMA TrackingOnKeeps ==
  ASSUME IInv, NEW c \in Conn, NEW isBcast \in BOOLEAN, NEW prefixes \in SUBSET Db,
         TrackingOn(c, isBcast, prefixes)
  PROVE  IInv'
<1>1. /\ around' = around /\ channels' = channels /\ notify' = notify /\ store' = store
      /\ told' = told /\ keyClients' = keyClients /\ commands' \in Nat /\ conn[c].state = "open"
      /\ bcast' = IF isBcast THEN bcast \cup {c} ELSE bcast \ {c}
      /\ uninvalidated' = uninvalidated /\ unannounced' = unannounced
  BY Typed DEF TrackingOn, Open, history
<1>2. /\ conn' \in [Conn -> Sock]
      /\ \A d \in Conn : /\ conn'[d].subscriptions = conn[d].subscriptions
                         /\ conn'[d].state = conn[d].state
                         /\ conn'[d].tracked = conn[d].tracked
                         /\ d # c => conn'[d] = conn[d]
      /\ conn'[c].bcast = isBcast /\ conn'[c].tracking
  <2>1. conn' = [conn EXCEPT ![c] = [conn[c] EXCEPT !.tracking = TRUE, !.bcast = isBcast,
                                                    !.prefixes = prefixes]]
    BY Typed DEF TrackingOn
  <2> QED BY <2>1, Typed DEF Sock
<1>3. TrackedWhileOn'
  <2>1. \A s \in DOMAIN keyClients' : \A d \in keyClients'[s] :
          conn'[d].state = "open" /\ conn'[d].tracking /\ s \in conn'[d].tracked
    <3>1. \A s \in DOMAIN keyClients : \A d \in keyClients[s] :
            d \in Conn /\ conn[d].state = "open" /\ conn[d].tracking /\ s \in conn[d].tracked
      BY Typed DEF IInv, TrackedWhileOn
    <3> QED BY <1>1, <1>2, <3>1
  <2>2. \A d \in Conn : d \in bcast' <=> conn'[d].state = "open" /\ conn'[d].bcast
    BY <1>1, <1>2 DEF IInv, TrackedWhileOn
  <2> QED BY <2>1, <2>2 DEF TrackedWhileOn
<1>4. SubscriptionsAgree' /\ ClosedHaveNone'
  BY <1>1, <1>2, Typed, SubscriptionsKept
<1>5. TypeOK'
  <2>1. bcast' \subseteq Conn
    BY <1>1 DEF IInv, TypeOK
  <2> QED BY <1>1, <1>2, <2>1 DEF IInv, TypeOK, Sock
<1> QED BY <1>3, <1>4, <1>5 DEF IInv

(* A command: what it names are places of the store; a read registers them, a write tells *)
(* their readers and forgets them.                                                        *)

Effects(c, cmd, keys, places, written, tracked, new) ==
  /\ places = Places(cmd, conn[c].db, keys) /\ new \in Outcomes(cmd, places)
  /\ written = (IF IsWriteCommand(cmd) THEN Named(cmd, places) ELSE {})
  /\ tracked = (IF ~IsWriteCommand(cmd) /\ conn[c].tracking /\ ~conn[c].bcast
                THEN Named(cmd, places) ELSE {})
  /\ store' = new
  /\ told' = (IF cmd \in Reads THEN Caches(told, c, Range(places))
              ELSE Invalidate(Notified(cmd, places, new), written))
  /\ keyClients' = [s \in (DOMAIN keyClients \ written) \cup tracked |->
                      At(keyClients, s) \cup (IF s \in tracked THEN {c} ELSE {})]
  /\ conn' = [conn EXCEPT ![c] = [conn[c] EXCEPT !.tracked = conn[c].tracked \cup tracked]]
  /\ uninvalidated' = Uninvalidated(cmd, places, new)
  /\ unannounced' = Unannounced(cmd, places, new)
  /\ UNCHANGED <<around, channels, bcast, notify>>

LEMMA CommandEffects ==
  ASSUME IInv, NEW c \in Conn, NEW cmd \in Commands, NEW keys \in KeyLists(cmd), Command(c, cmd, keys)
  PROVE  \E places, written, tracked, new : Effects(c, cmd, keys, places, written, tracked, new)
<1> DEFINE places  == Places(cmd, conn[c].db, keys)
           written == IF IsWriteCommand(cmd) THEN Named(cmd, places) ELSE {}
           tracked == IF ~IsWriteCommand(cmd) /\ conn[c].tracking /\ ~conn[c].bcast
                      THEN Named(cmd, places) ELSE {}
<1>1. PICK new \in Outcomes(cmd, places) :
        /\ store' = new
        /\ told' = (IF cmd \in Reads THEN Caches(told, c, Range(places))
                    ELSE Invalidate(Notified(cmd, places, new), written))
        /\ keyClients' = [s \in (DOMAIN keyClients \ written) \cup tracked |->
                            At(keyClients, s) \cup (IF s \in tracked THEN {c} ELSE {})]
        /\ conn' = [conn EXCEPT ![c].tracked = @ \cup tracked]
        /\ uninvalidated' = Uninvalidated(cmd, places, new)
        /\ unannounced' = Unannounced(cmd, places, new)
  BY DEF Command
<1>2. UNCHANGED <<around, channels, bcast, notify>>
  BY DEF Command
<1>3. conn' = [conn EXCEPT ![c] = [conn[c] EXCEPT !.tracked = conn[c].tracked \cup tracked]]
  BY <1>1, Typed
<1>4. Effects(c, cmd, keys, places, written, tracked, new)
  BY <1>1, <1>2, <1>3 DEF Effects
<1> HIDE DEF places, written, tracked
<1> QED BY <1>4

LEMMA EffectsTyped ==
  ASSUME IInv, NEW c \in Conn, NEW cmd \in Commands, NEW keys \in KeyLists(cmd),
         NEW places, NEW written, NEW tracked, NEW new,
         Effects(c, cmd, keys, places, written, tracked, new)
  PROVE  /\ Range(places) \subseteq Stored /\ places[1] \in Range(places)
         /\ cmd \in {"LMOVE", "SMOVE"} => places[2] \in Range(places)
         /\ written \subseteq Stored /\ tracked \subseteq Stored
         /\ new \in Stores /\ \A s \in Stored : s \notin Range(places) => new[s] = store[s]
         /\ conn' \in [Conn -> Sock]
         /\ \A d \in Conn : /\ conn'[d].subscriptions = conn[d].subscriptions
                            /\ conn'[d].state = conn[d].state
                            /\ conn'[d].tracking = conn[d].tracking
                            /\ conn'[d].bcast = conn[d].bcast
                            /\ conn'[d].prefixes = conn[d].prefixes
                            /\ conn'[d].tracked = IF d = c THEN conn[d].tracked \cup tracked
                                                           ELSE conn[d].tracked
<1>1. conn[c].db \in Db
  BY Typed DEF Sock
<1>2. /\ Range(places) \subseteq Stored /\ places[1] \in Range(places)
      /\ cmd \in {"LMOVE", "SMOVE"} => places[2] \in Range(places)
      /\ Named(cmd, places) \subseteq Stored
  BY <1>1, PlacesAreStored DEF Effects
<1>3. written \subseteq Stored /\ tracked \subseteq Stored
  BY <1>2 DEF Effects
<1>4. new \in Outcomes(cmd, places)
  BY DEF Effects
<1>5. new \in Stores /\ \A s \in Stored : s \notin Range(places) => new[s] = store[s]
  BY <1>2, <1>4, OutcomesAreStores
<1>6. conn' = [conn EXCEPT ![c] = [conn[c] EXCEPT !.tracked = conn[c].tracked \cup tracked]]
  BY DEF Effects
<1>7. [conn[c] EXCEPT !.tracked = conn[c].tracked \cup tracked] \in Sock
  BY <1>3, Typed DEF Sock
<1>8. conn' \in [Conn -> Sock]
  BY <1>6, <1>7, Typed
<1>9. \A d \in Conn : /\ conn'[d].subscriptions = conn[d].subscriptions
                      /\ conn'[d].state = conn[d].state
                      /\ conn'[d].tracking = conn[d].tracking
                      /\ conn'[d].bcast = conn[d].bcast
                      /\ conn'[d].prefixes = conn[d].prefixes
                      /\ conn'[d].tracked = IF d = c THEN conn[d].tracked \cup tracked
                                                     ELSE conn[d].tracked
  BY <1>6, Typed DEF Sock
<1> QED BY <1>2, <1>3, <1>5, <1>8, <1>9

LEMMA CommandKeeps ==
  ASSUME IInv, NEW c \in Conn, NEW cmd \in Commands, NEW keys \in KeyLists(cmd), Command(c, cmd, keys)
  PROVE  IInv'
<1>1. PICK places, written, tracked, new : Effects(c, cmd, keys, places, written, tracked, new)
  BY CommandEffects
<1>2. /\ Range(places) \subseteq Stored /\ places[1] \in Range(places)
      /\ cmd \in {"LMOVE", "SMOVE"} => places[2] \in Range(places)
      /\ written \subseteq Stored /\ tracked \subseteq Stored /\ new \in Stores
  BY <1>1, EffectsTyped
<1>3. /\ conn' \in [Conn -> Sock]
      /\ \A d \in Conn : /\ conn'[d].subscriptions = conn[d].subscriptions
                         /\ conn'[d].state = conn[d].state
                         /\ conn'[d].tracking = conn[d].tracking
                         /\ conn'[d].bcast = conn[d].bcast
                         /\ conn'[d].tracked = IF d = c THEN conn[d].tracked \cup tracked
                                                        ELSE conn[d].tracked
  BY <1>1, EffectsTyped
<1>4. /\ conn[c].state = "open" /\ commands' \in Nat
      /\ tracked # {} => conn[c].tracking
  BY <1>1, Typed DEF Command, Open, Effects
<1>5. told' \in [Conn -> Known] /\ SameChannels(told', told)
  <2> DEFINE S == Range(places)
             first == Notified(cmd, places, new)
  <2>1. Caches(told, c, S) \in [Conn -> Known] /\ SameChannels(Caches(told, c, S), told)
    BY CachesKeepsChannels DEF IInv
  <2>2. OnlyHeard(first, told)
    BY <1>2, NotifiedIsHeard
  <2>4. told' = IF cmd \in Reads THEN Caches(told, c, S) ELSE Invalidate(first, written)
    BY <1>1 DEF Effects
  <2> HIDE DEF first, S
  <2>3. Invalidate(first, written) \in [Conn -> Known] /\ SameChannels(Invalidate(first, written), first)
    BY <2>2, InvalidateKeepsChannels DEF OnlyHeard
  <2> QED BY <2>1, <2>2, <2>3, <2>4 DEF OnlyHeard, SameChannels
<1>6. /\ DOMAIN keyClients' \subseteq Stored
      /\ \A s \in DOMAIN keyClients' : \A d \in keyClients'[s] :
           \/ s \in DOMAIN keyClients /\ d \in keyClients[s] /\ d \in Conn
           \/ s \in tracked /\ d = c
  <2>1. keyClients' = [s \in (DOMAIN keyClients \ written) \cup tracked |->
                         At(keyClients, s) \cup (IF s \in tracked THEN {c} ELSE {})]
    BY <1>1 DEF Effects
  <2> QED BY <1>2, <2>1, Typed DEF At
<1>7. TrackedWhileOn'
  <2>1. ASSUME NEW s \in DOMAIN keyClients', NEW d \in keyClients'[s]
        PROVE  conn'[d].state = "open" /\ conn'[d].tracking /\ s \in conn'[d].tracked
    <3>1. CASE s \in DOMAIN keyClients /\ d \in keyClients[s] /\ d \in Conn
      BY <1>3, <3>1 DEF IInv, TrackedWhileOn
    <3>2. CASE s \in tracked /\ d = c
      BY <1>3, <1>4, <3>2
    <3> QED BY <1>6, <2>1, <3>1, <3>2
  <2>2. bcast' = bcast
    BY <1>1 DEF Effects
  <2>3. \A d \in Conn : d \in bcast' <=> conn'[d].state = "open" /\ conn'[d].bcast
    BY <1>3, <2>2 DEF IInv, TrackedWhileOn
  <2> QED BY <2>1, <2>3 DEF TrackedWhileOn
<1>8. /\ around' = around /\ channels' = channels /\ bcast' = bcast /\ notify' = notify
      /\ store' \in Stores
      /\ uninvalidated' = Uninvalidated(cmd, places, new)
      /\ unannounced' = Unannounced(cmd, places, new)
  BY <1>1, <1>2 DEF Effects
<1>9. SubscriptionsAgree' /\ ClosedHaveNone'
  BY <1>3, <1>5, <1>8, SubscriptionsKept
<1>10. uninvalidated' \subseteq Stored /\ unannounced' \subseteq Stored
  BY <1>2, <1>8, Typed DEF Uninvalidated, Unannounced
<1>11. TypeOK'
  <2>1. \A s \in DOMAIN keyClients' : keyClients'[s] \subseteq Conn
    BY <1>6
  <2> QED BY <1>3, <1>4, <1>5, <1>6, <1>8, <1>10, <2>1 DEF IInv, TypeOK, Sock, Known, Said
<1> QED BY <1>7, <1>9, <1>11 DEF IInv

(* Connections end and begin *)

Leaves(c, state) == conn' = [conn EXCEPT ![c].state = state, ![c].subscriptions = {}]

LEMMA LeavingKeeps ==
  ASSUME IInv, NEW c \in Conn, NEW state \in {"ended", "closed"}, Cleanup(c), Leaves(c, state),
         commands' = commands
  PROVE  IInv'
<1> DEFINE chs == conn[c].subscriptions
<1>1. /\ around' = around /\ notify' = notify /\ store' = store /\ bcast' = bcast \ {c}
      /\ channels' = Excluding(channels, chs, c)
      /\ keyClients' = [s \in DOMAIN keyClients |-> keyClients[s] \ {c}]
      /\ told' = [told EXCEPT ![c] = Ignorant]
      /\ uninvalidated' = uninvalidated /\ unannounced' = unannounced
  BY DEF Cleanup, history
<1>2. chs \in SUBSET Channel /\ told[c].channels = chs
  BY Typed DEF Sock, IInv, SubscriptionsAgree
<1>3. /\ conn' \in [Conn -> Sock]
      /\ \A d \in Conn : d # c => conn'[d] = conn[d]
      /\ conn'[c].state # "open" /\ conn'[c].subscriptions = {}
  <2> DEFINE left == [conn[c] EXCEPT !.state = state, !.subscriptions = {}]
  <2>1. conn' = [conn EXCEPT ![c] = left]
    BY Typed DEF Leaves
  <2>2. left \in Sock /\ left.state # "open" /\ left.subscriptions = {}
    BY Typed DEF Sock
  <2> HIDE DEF left
  <2> QED BY <2>1, <2>2, Typed
<1>4. /\ told' \in [Conn -> Known]
      /\ \A d \in Conn : told'[d].channels = IF d = c THEN told[d].channels \ chs ELSE told[d].channels
  <2>1. Ignorant.channels = {}
    BY DEF Ignorant
  <2> QED BY <1>1, <1>2, <2>1, Typed, FreshIsTyped
<1>5. \A d \in Conn : conn'[d].subscriptions =
                        IF d = c THEN conn[d].subscriptions \ chs ELSE conn[d].subscriptions
  BY <1>3
<1>6. /\ DOMAIN channels' \subseteq Channel /\ \A x \in DOMAIN channels' : channels'[x] \subseteq Conn
      /\ SubscriptionsAgree'
  <2>1. channels' = Excluding(channels, chs, c) /\ chs \in SUBSET Channel
    BY <1>1, <1>2
  <2>2. \A d \in Conn : told'[d].channels = IF d = c THEN told[d].channels \ chs ELSE told[d].channels
    BY <1>4
  <2> HIDE DEF chs
  <2> QED BY <1>5, <2>1, <2>2, LeavingAgrees
<1>7. TrackedWhileOn'
  <2>1. ASSUME NEW s \in DOMAIN keyClients', NEW d \in keyClients'[s]
        PROVE  conn'[d].state = "open" /\ conn'[d].tracking /\ s \in conn'[d].tracked
    <3>1. s \in DOMAIN keyClients /\ d \in keyClients[s] /\ d # c
      BY <1>1, <2>1
    <3> QED BY <1>3, <3>1, Typed DEF IInv, TrackedWhileOn
  <2>2. \A d \in Conn : d \in bcast' <=> conn'[d].state = "open" /\ conn'[d].bcast
    BY <1>1, <1>3 DEF IInv, TrackedWhileOn
  <2> QED BY <2>1, <2>2 DEF TrackedWhileOn
<1>8. ClosedHaveNone'
  BY <1>3 DEF IInv, ClosedHaveNone
<1>9. TypeOK'
  <2>1. bcast' \subseteq Conn
    BY <1>1 DEF IInv, TypeOK
  <2>2. DOMAIN keyClients' \subseteq Stored /\ \A s \in DOMAIN keyClients' : keyClients'[s] \subseteq Conn
    BY <1>1, Typed
  <2> QED BY <1>1, <1>3, <1>4, <1>6, <2>1, <2>2 DEF IInv, TypeOK, Sock, Known, Said
<1> QED BY <1>6, <1>7, <1>8, <1>9 DEF IInv

LEMMA ConnectsKeeps ==
  ASSUME IInv, NEW c \in Conn, Connects(c) PROVE IInv'
<1>1. /\ around' = around /\ channels' = channels /\ notify' = notify /\ store' = store
      /\ bcast' = bcast /\ keyClients' = keyClients /\ told' = told /\ commands' = commands
      /\ conn[c].state # "open" /\ conn' = [conn EXCEPT ![c] = Fresh]
      /\ uninvalidated' = uninvalidated /\ unannounced' = unannounced
  BY DEF Connects, history
<1>2. /\ Fresh.state = "open" /\ Fresh.subscriptions = {} /\ Fresh.bcast = FALSE
  BY DEF Fresh
<1>3. /\ conn' \in [Conn -> Sock] /\ conn'[c] = Fresh
      /\ \A d \in Conn : d # c => conn'[d] = conn[d]
  BY <1>1, Typed, FreshIsTyped
<1>4. \A d \in Conn : conn'[d].subscriptions = conn[d].subscriptions
  BY <1>1, <1>2, <1>3 DEF IInv, ClosedHaveNone
<1>5. SubscriptionsAgree' /\ ClosedHaveNone'
  BY <1>1, <1>2, <1>3, <1>4 DEF IInv, SubscriptionsAgree, ClosedHaveNone
<1>6. TrackedWhileOn'
  <2>1. ASSUME NEW s \in DOMAIN keyClients, NEW d \in keyClients[s]
        PROVE  conn'[d].state = "open" /\ conn'[d].tracking /\ s \in conn'[d].tracked
    <3>1. d \in Conn /\ conn[d].state = "open" /\ conn[d].tracking /\ s \in conn[d].tracked
      BY <2>1, Typed DEF IInv, TrackedWhileOn
    <3> QED BY <1>1, <1>3, <3>1
  <2>2. \A d \in Conn : d \in bcast' <=> conn'[d].state = "open" /\ conn'[d].bcast
    BY <1>1, <1>2, <1>3 DEF IInv, TrackedWhileOn
  <2> QED BY <1>1, <2>1, <2>2 DEF TrackedWhileOn
<1>7. TypeOK'
  BY <1>1, <1>3 DEF IInv, TypeOK, Sock
<1> QED BY <1>5, <1>6, <1>7 DEF IInv

(* The theorem *)

LEMMA InitHolds == Init => IInv
<1> SUFFICES ASSUME Init PROVE IInv
  OBVIOUS
<1>1. /\ \A c \in Conn : conn[c] = Fresh /\ told[c] = Ignorant
      /\ channels = <<>> /\ keyClients = <<>> /\ bcast = {}
  BY DEF Init
<1>2. /\ Fresh.state = "open" /\ Fresh.subscriptions = {} /\ Fresh.bcast = FALSE
      /\ Ignorant.channels = {}
  BY DEF Fresh, Ignorant
<1>3. DOMAIN channels = {} /\ DOMAIN keyClients = {}
  BY <1>1
<1>4. SubscriptionsAgree /\ TrackedWhileOn /\ ClosedHaveNone
  BY <1>1, <1>2, <1>3 DEF SubscriptionsAgree, TrackedWhileOn, ClosedHaveNone
<1>5. conn \in [Conn -> Sock] /\ told \in [Conn -> Known]
  BY FreshIsTyped DEF Init
<1>6. /\ around \in SUBSET Circumstances /\ store \in Stores /\ notify \in Flags
      /\ uninvalidated = {} /\ unannounced = {}
  BY ConstantsAssumption DEF Init, Stores
<1>7. TypeOK
  BY <1>3, <1>5, <1>6 DEF Init, TypeOK, Sock, Known, Said
<1> QED BY <1>4, <1>7 DEF IInv

LEMMA StepKeeps == IInv /\ [Next]_vars => IInv'
<1> SUFFICES ASSUME IInv, [Next]_vars PROVE IInv'
  OBVIOUS
<1>1. CASE UNCHANGED vars
  BY <1>1 DEF vars, IInv, TypeOK, SubscriptionsAgree, TrackedWhileOn, ClosedHaveNone
<1>2. ASSUME NEW c \in Conn,
             \/ \E ch \in Channel : Subscribe(c, ch) \/ Unsubscribe(c, {ch})
             \/ Unsubscribe(c, conn[c].subscriptions)
             \/ \E n \in Plain, m \in Message :
                  <<"plain", n>> \in Channel /\ Publish(c, <<"plain", n>>, m)
             \/ \E flags \in Flags : flags # notify /\ ConfigSet(c, flags)
      PROVE  IInv'
  <2>1. conn[c].subscriptions \in SUBSET Channel
    BY Typed DEF Sock
  <2> QED BY <1>2, <2>1, SubscribeKeeps, UnsubscribeKeeps, PublishKeeps, ConfigSetKeeps
<1>3. ASSUME NEW c \in Conn,
             \/ TrackingOff(c) \/ TrackingOn(c, FALSE, {})
             \/ \E prefixes \in {{}} \cup {{d} : d \in Db} : TrackingOn(c, TRUE, prefixes)
             \/ \E d \in Db : Select(c, d)
      PROVE  IInv'
  <2>1. \A prefixes \in {{}} \cup {{d} : d \in Db} : prefixes \in SUBSET Db
    OBVIOUS
  <2> QED BY <1>3, <2>1, TrackingOffKeeps, TrackingOnKeeps, SelectKeeps
<1>4. ASSUME NEW c \in Conn,
             \/ \E cmd \in Commands : Given(cmd) /\ \E keys \in KeyLists(cmd) : Command(c, cmd, keys)
             \/ \E k \in Key : ExecGet(c, k) \/ \E v \in Value : ExecSet(c, k, v)
             \/ \E s \in Db \X Key : Lookup(c, s)
             \/ FlushDb(c)
      PROVE  IInv'
  <2>1. Db \X Key \subseteq Stored
    BY DEF Stored
  <2> QED BY <1>4, <2>1, CommandKeeps, ExecGetKeeps, SilentCommands, SilentlyKeeps
<1>5. ASSUME NEW c \in Conn, Ends(c) \/ Closes(c) \/ Connects(c) PROVE IInv'
  <2>1. CASE Ends(c)
    BY <2>1, LeavingKeeps DEF Ends, Leaves
  <2>2. CASE Closes(c)
    BY <2>2, LeavingKeeps DEF Closes, Leaves
  <2> QED BY <1>5, <2>1, <2>2, ConnectsKeeps
<1>6. ASSUME NEW s \in Db \X Key, Expire(s) PROVE IInv'
  <2>1. s \in Stored
    BY DEF Stored
  <2> QED BY <1>6, <2>1, ExpireKeeps
<1>7. CASE Next
  BY <1>2, <1>3, <1>4, <1>5, <1>6, <1>7 DEF Next
<1> QED BY <1>1, <1>7

(* For any number of connections, channels, keys, databases and commands, and whichever *)
(* of them end when: what SUBSCRIBE, UNSUBSCRIBE, CLIENT TRACKING, the reads and writes *)
(* and the cleanup of ended connections keep by channel and by key is what they keep on *)
(* the sockets, and what the clients were told of their subscriptions.                  *)
THEOREM RegistrationsAlwaysAgree == Spec => []RegistrationsAgree
<1>1. Init => IInv
  BY InitHolds
<1>2. IInv /\ [Next]_vars => IInv'
  BY StepKeeps
<1>3. IInv => RegistrationsAgree
  BY DEF IInv, RegistrationsAgree
<1> QED BY <1>1, <1>2, <1>3, PTL DEF Spec
------------------------------------------------------------------------------
(* Caches.  What a client has cached is being watched for it, by the readers of its key or *)
(* by a broadcast of its database; and it is what the store holds, or the key was changed  *)
(* by what sends no invalidation.                                                          *)

Judged == around \cap {"execread", "switch", "foreign"} = {}

Watching(c, s) ==
  /\ conn[c].state = "open" /\ conn[c].tracking /\ s[1] \in Db
  /\ IF conn[c].bcast THEN s[1] \in conn[c].prefixes ELSE c \in At(keyClients, s)

(* Who broadcasts compares some prefix. *)
Compares(c) == conn[c].bcast => conn[c].prefixes # {}

CacheOk ==
  Judged =>
    \A c \in Conn :
      /\ Compares(c)
      /\ \A s \in Stored :
           told[c].cache[s] # NotCached =>
             (told[c].cache[s] = store[s] \/ s \in uninvalidated) /\ Watching(c, s)

(* Every step: what is cached afterwards was cached before, is watched still, and true if it *)
(* was unless the step is one that is known to be silent; or it has been read in this step.  *)

CacheStep(c, s) ==
  \/ told'[c].cache[s] = NotCached
  \/ /\ told'[c].cache[s] = told[c].cache[s]
     /\ Watching(c, s) => Watching(c, s)'
     /\ s[1] \in Db => \/ store'[s] = store[s] /\ (s \in uninvalidated => s \in uninvalidated')
                       \/ s \in uninvalidated'
  \/ told'[c].cache[s] = store'[s] /\ Watching(c, s)'

LEMMA CacheSteps ==
  ASSUME CacheOk, around' = around,
         Judged => \A c \in Conn : (Compares(c) => Compares(c)') /\ \A s \in Stored : CacheStep(c, s)
  PROVE  CacheOk'
<1> SUFFICES ASSUME Judged, NEW c \in Conn
             PROVE  /\ Compares(c)'
                    /\ \A s \in Stored :
                         told'[c].cache[s] # NotCached =>
                           (told'[c].cache[s] = store'[s] \/ s \in uninvalidated') /\ Watching(c, s)'
  BY DEF CacheOk, Judged
<1>1. Compares(c)'
  BY DEF CacheOk
<1>2. ASSUME NEW s \in Stored, told'[c].cache[s] # NotCached
      PROVE  (told'[c].cache[s] = store'[s] \/ s \in uninvalidated') /\ Watching(c, s)'
  <2>1. CacheStep(c, s)
    OBVIOUS
  <2>2. CASE told'[c].cache[s] = store'[s] /\ Watching(c, s)'
    BY <2>2
  <2>3. CASE /\ told'[c].cache[s] = told[c].cache[s]
             /\ Watching(c, s) => Watching(c, s)'
             /\ s[1] \in Db => \/ store'[s] = store[s] /\ (s \in uninvalidated => s \in uninvalidated')
                               \/ s \in uninvalidated'
    <3>1. (told[c].cache[s] = store[s] \/ s \in uninvalidated) /\ Watching(c, s)
      BY <1>2, <2>3 DEF CacheOk
    <3>2. s[1] \in Db
      BY <3>1 DEF Watching
    <3> QED BY <2>3, <3>1, <3>2
  <2> QED BY <1>2, <2>1, <2>2, <2>3 DEF CacheStep
<1> QED BY <1>1, <1>2

(* What touches neither sockets nor registrations nor caches, and changes silently if it *)
(* changes anything *)

LEMMA CachesUntouched ==
  ASSUME CacheOk, around' = around, keyClients' = keyClients, SameCaches(told', told),
         \A c \in Conn : /\ conn'[c].state = conn[c].state /\ conn'[c].tracking = conn[c].tracking
                         /\ conn'[c].bcast = conn[c].bcast /\ conn'[c].prefixes = conn[c].prefixes,
         uninvalidated \subseteq uninvalidated',
         \A s \in Stored : store'[s] = store[s] \/ s \in uninvalidated'
  PROVE  CacheOk'
<1>1. \A c \in Conn : Compares(c) => Compares(c)'
  BY DEF Compares
<1>2. \A c \in Conn, s \in Stored : Watching(c, s) => Watching(c, s)'
  BY DEF Watching
<1>3. \A c \in Conn, s \in Stored : CacheStep(c, s)
  BY <1>2 DEF CacheStep, SameCaches
<1> QED BY <1>1, <1>3, CacheSteps

LEMMA QuietKeepsCaches ==
  ASSUME IInv, CacheOk, NEW c \in Conn,
         \/ \E ch \in Channel : Subscribe(c, ch)
         \/ \E chs \in SUBSET Channel : Unsubscribe(c, chs)
         \/ \E ch, m : Publish(c, ch, m)
         \/ \E flags \in Flags : ConfigSet(c, flags)
         \/ \E d \in Db : Select(c, d)
  PROVE  CacheOk'
<1>1. ASSUME NEW ch \in Channel, Subscribe(c, ch) PROVE CacheOk'
  <2>1. /\ conn' = [conn EXCEPT ![c] = [conn[c] EXCEPT !.subscriptions = conn[c].subscriptions \cup {ch}]]
        /\ told' = [told EXCEPT ![c] = [told[c] EXCEPT !.channels = told[c].channels \cup {ch}]]
        /\ UNCHANGED <<around, keyClients, store, uninvalidated>>
    BY <1>1, Typed DEF Subscribe, history
  <2>2. \A d \in Conn : /\ conn'[d].state = conn[d].state /\ conn'[d].tracking = conn[d].tracking
                        /\ conn'[d].bcast = conn[d].bcast /\ conn'[d].prefixes = conn[d].prefixes
    BY <2>1, Typed DEF Sock
  <2>3. SameCaches(told', told)
    BY <2>1, Typed DEF Known, SameCaches
  <2> QED BY <2>1, <2>2, <2>3, CachesUntouched
<1>2. ASSUME NEW chs \in SUBSET Channel, Unsubscribe(c, chs) PROVE CacheOk'
  <2> DEFINE heard == [ch \in Channel |-> IF ch \in chs THEN Nothing ELSE told[c].heard[ch]]
  <2>1. /\ conn' = [conn EXCEPT ![c] = [conn[c] EXCEPT !.subscriptions = conn[c].subscriptions \ chs]]
        /\ told' = [told EXCEPT ![c] = [told[c] EXCEPT !.channels = told[c].channels \ chs, !.heard = heard]]
        /\ UNCHANGED <<around, keyClients, store, uninvalidated>>
    BY <1>2, Typed DEF Unsubscribe, history
  <2> HIDE DEF heard
  <2>2. \A d \in Conn : /\ conn'[d].state = conn[d].state /\ conn'[d].tracking = conn[d].tracking
                        /\ conn'[d].bcast = conn[d].bcast /\ conn'[d].prefixes = conn[d].prefixes
    BY <2>1, Typed DEF Sock
  <2>3. SameCaches(told', told)
    BY <2>1, Typed DEF Known, SameCaches
  <2> QED BY <2>1, <2>2, <2>3, CachesUntouched
<1>3. ASSUME NEW ch, NEW m, Publish(c, ch, m) PROVE CacheOk'
  <2>1. told' = Say(told, ch, m) /\ UNCHANGED <<around, conn, keyClients, store, uninvalidated>>
    BY <1>3 DEF Publish, history
  <2> QED BY <2>1, Typed, SayKeepsCaches, CachesUntouched
<1>4. ASSUME NEW flags \in Flags, ConfigSet(c, flags) PROVE CacheOk'
  <2>1. UNCHANGED <<around, conn, keyClients, store, told, uninvalidated>>
    BY <1>4 DEF ConfigSet, history
  <2> QED BY <2>1, CachesUntouched DEF SameCaches
<1>5. ASSUME NEW d \in Db, Select(c, d) PROVE CacheOk'
  <2>1. /\ conn' = [conn EXCEPT ![c] = [conn[c] EXCEPT !.db = d]]
        /\ UNCHANGED <<around, keyClients, store, told, uninvalidated>>
    BY <1>5, Typed DEF Select, history
  <2>2. \A e \in Conn : /\ conn'[e].state = conn[e].state /\ conn'[e].tracking = conn[e].tracking
                        /\ conn'[e].bcast = conn[e].bcast /\ conn'[e].prefixes = conn[e].prefixes
    BY <2>1, Typed DEF Sock
  <2> QED BY <2>1, <2>2, CachesUntouched DEF SameCaches
<1> QED BY <1>1, <1>2, <1>3, <1>4, <1>5

(* What changes keys silently, and what is excluded by the circumstances *)

LEMMA SilentlyKeepsCaches ==
  ASSUME IInv, CacheOk, NEW S \in SUBSET Stored, NEW v \in Value \cup {Absent}, Silently(S, v)
  PROVE  CacheOk'
<1>1. UNCHANGED <<around, conn, keyClients, told>>
  BY DEF Silently
<1>2. /\ uninvalidated \subseteq uninvalidated'
      /\ \A s \in Stored : store'[s] = store[s] \/ s \in uninvalidated'
  BY DEF Silently
<1> QED BY <1>1, <1>2, CachesUntouched DEF SameCaches

LEMMA ExpireKeepsCaches ==
  ASSUME IInv, CacheOk, NEW s \in Stored, Expire(s) PROVE CacheOk'
<1>1. /\ UNCHANGED <<around, conn, keyClients>>
      /\ told' = MaybePublish(told, "expired", "x", s)
      /\ uninvalidated' = uninvalidated \cup {s}
      /\ store' = [store EXCEPT ![s] = Absent]
  BY DEF Expire
<1>2. SameCaches(told', told)
  BY <1>1, Typed, MaybePublishKeepsCaches DEF Events
<1>3. \A x \in Stored : store'[x] = store[x] \/ x \in uninvalidated'
  BY <1>1, Typed DEF Stores
<1> QED BY <1>1, <1>2, <1>3, CachesUntouched

LEMMA ExecGetKeepsCaches ==
  ASSUME CacheOk, NEW c \in Conn, NEW k \in Key, ExecGet(c, k) PROVE CacheOk'
<1>1. around' = around /\ ~Judged
  BY DEF ExecGet, Judged
<1> QED BY <1>1 DEF CacheOk, Judged

LEMMA TrackingOffKeepsCaches ==
  ASSUME IInv, CacheOk, NEW c \in Conn, TrackingOff(c) PROVE CacheOk'
<1>1. /\ around' = around /\ store' = store /\ uninvalidated' = uninvalidated
      /\ keyClients' = Excluding(keyClients, conn[c].tracked, c)
      /\ told' = [told EXCEPT ![c] = [told[c] EXCEPT !.cache = Ignorant.cache]]
      /\ \A d \in Conn : d # c => conn'[d] = conn[d]
      /\ ~conn'[c].bcast
  BY Typed DEF TrackingOff, Sock, history
<1>2. \A s \in Stored : told'[c].cache[s] = NotCached
  BY <1>1, Typed DEF Known, Ignorant
<1>3. \A d \in Conn, s \in Stored : d # c /\ d \in At(keyClients, s) => d \in At(keyClients', s)
  BY <1>1 DEF Excluding, Without, At
<1>4. ASSUME NEW d \in Conn, NEW s \in Stored, d # c
      PROVE  told'[d].cache[s] = told[d].cache[s] /\ (Watching(d, s) => Watching(d, s)')
  BY <1>1, <1>3, <1>4, Typed DEF Watching
<1>5. \A d \in Conn, s \in Stored : CacheStep(d, s)
  BY <1>1, <1>2, <1>4 DEF CacheStep
<1>6. \A d \in Conn : Compares(d) => Compares(d)'
  BY <1>1 DEF Compares
<1> QED BY <1>1, <1>5, <1>6, CacheSteps

LEMMA TrackingOnKeepsCaches ==
  ASSUME IInv, CacheOk, NEW c \in Conn, NEW isBcast \in BOOLEAN, NEW prefixes \in SUBSET Db,
         TrackingOn(c, isBcast, prefixes)
  PROVE  CacheOk'
<1>1. /\ UNCHANGED <<around, store, keyClients, told, uninvalidated>>
      /\ conn[c].tracking => "switch" \in around
      /\ isBcast /\ prefixes = {} => "foreign" \in around
      /\ \A d \in Conn : d # c => conn'[d] = conn[d]
      /\ conn'[c].bcast = isBcast /\ conn'[c].prefixes = prefixes
  BY Typed DEF TrackingOn, Sock, history
<1>2. ASSUME Judged, NEW s \in Stored PROVE told[c].cache[s] = NotCached
  BY <1>1, <1>2 DEF CacheOk, Watching, Judged
<1>3. ASSUME NEW d \in Conn, NEW s \in Stored, d # c
      PROVE  Watching(d, s) => Watching(d, s)'
  BY <1>1, <1>3 DEF Watching
<1>4. Judged => \A d \in Conn, s \in Stored : CacheStep(d, s)
  BY <1>1, <1>2, <1>3 DEF CacheStep
<1>5. Judged => \A d \in Conn : Compares(d) => Compares(d)'
  BY <1>1 DEF Compares, Judged
<1> QED BY <1>1, <1>4, <1>5, CacheSteps

(* Commands.  Who watches a key goes on doing so, but for the readers a write forgets. *)

LEMMA CommandsKeepWatching ==
  ASSUME IInv, NEW c \in Conn, NEW cmd \in Commands, NEW keys \in KeyLists(cmd),
         NEW places, NEW written, NEW tracked, NEW new,
         Effects(c, cmd, keys, places, written, tracked, new)
  PROVE  /\ \A d \in Conn : Compares(d) => Compares(d)'
         /\ \A d \in Conn, s \in Stored : s \notin written /\ Watching(d, s) => Watching(d, s)'
         /\ \A s \in tracked : c \in At(keyClients', s)
<1>1. \A d \in Conn : /\ conn'[d].state = conn[d].state /\ conn'[d].tracking = conn[d].tracking
                      /\ conn'[d].bcast = conn[d].bcast /\ conn'[d].prefixes = conn[d].prefixes
  BY EffectsTyped
<1>2. keyClients' = [s \in (DOMAIN keyClients \ written) \cup tracked |->
                       At(keyClients, s) \cup (IF s \in tracked THEN {c} ELSE {})]
  BY DEF Effects
<1>3. /\ \A d \in Conn, s \in Stored : s \notin written /\ d \in At(keyClients, s) => d \in At(keyClients', s)
      /\ \A s \in tracked : c \in At(keyClients', s)
  BY <1>2 DEF At
<1>4. \A d \in Conn : Compares(d) => Compares(d)'
  BY <1>1 DEF Compares
<1>5. \A d \in Conn, s \in Stored : s \notin written /\ Watching(d, s) => Watching(d, s)'
  BY <1>1, <1>3 DEF Watching
<1> QED BY <1>3, <1>4, <1>5

(* What a read is answered is watched from then on: the keys it is answered with are those *)
(* it registers.                                                                           *)

LEMMA ReadPlaces ==
  ASSUME NEW cmd \in Reads, NEW d \in Db, NEW keys \in KeyLists(cmd)
  PROVE  /\ Named(cmd, Places(cmd, d, keys)) = Range(Places(cmd, d, keys))
         /\ \A s \in Range(Places(cmd, d, keys)) : s[1] = d
<1> DEFINE there == Places(cmd, d, keys)
<1>1. \A i \in DOMAIN there : there[i][1] = d
  BY DEF Places, Reads
<1>2. Named(cmd, there) = Range(there)
  BY DEF Named, Reads
<1> HIDE DEF there
<1>3. \A s \in Range(there) : s[1] = d
  BY <1>1 DEF Range
<1> QED BY <1>2, <1>3 DEF there

LEMMA ReadKeepsCaches ==
  ASSUME IInv, CacheOk, NEW c \in Conn, NEW cmd \in Reads, NEW keys \in KeyLists(cmd),
         NEW places, NEW written, NEW tracked, NEW new, conn[c].state = "open",
         Effects(c, cmd, keys, places, written, tracked, new)
  PROVE  CacheOk'
<1> DEFINE S == Range(places)
           watched(s) == /\ s \in S /\ conn[c].tracking
                         /\ conn[c].bcast => conn[c].prefixes = {} \/ s[1] \in conn[c].prefixes
           cache == [s \in Stored |-> IF watched(s) THEN store[s] ELSE told[c].cache[s]]
<1>0. cmd \in Commands /\ ~IsWriteCommand(cmd)
  BY DEF Reads, Commands, IsWriteCommand
<1>1. /\ around' = around /\ uninvalidated' = uninvalidated
      /\ told' = Caches(told, c, S)
      /\ written = {} /\ store' = store
  BY <1>0 DEF Effects, Uninvalidated, Outcomes, Reads
<1>2. S \subseteq Stored /\ \A s \in S : s[1] \in Db
  <2>1. conn[c].db \in Db
    BY Typed DEF Sock
  <2>2. places = Places(cmd, conn[c].db, keys)
    BY DEF Effects
  <2>3. \A s \in S : s[1] = conn[c].db
    BY <2>1, <2>2, ReadPlaces
  <2> QED BY <1>0, <2>1, <2>3, EffectsTyped
<1>3. conn[c].tracking /\ ~conn[c].bcast => tracked = S
  <2>1. conn[c].db \in Db
    BY Typed DEF Sock
  <2>2. places = Places(cmd, conn[c].db, keys)
    BY DEF Effects
  <2>3. Named(cmd, places) = S
    BY <2>1, <2>2, ReadPlaces
  <2> QED BY <1>0, <2>3 DEF Effects
<1> HIDE DEF S
<1>4. /\ told' = [told EXCEPT ![c] = [told[c] EXCEPT !.cache = cache]]
      /\ told \in [Conn -> Known]
  BY <1>1, Typed DEF Caches
<1>5. /\ \A d \in Conn : d # c => told'[d] = told[d]
      /\ told'[c].cache = cache
  BY <1>4 DEF Known
<1>6. /\ \A d \in Conn : Compares(d) => Compares(d)'
      /\ \A d \in Conn, s \in Stored : Watching(d, s) => Watching(d, s)'
      /\ \A s \in tracked : c \in At(keyClients', s)
  BY <1>0, <1>1, CommandsKeepWatching
<1>7. /\ conn'[c].state = "open" /\ conn'[c].tracking = conn[c].tracking
      /\ conn'[c].bcast = conn[c].bcast /\ conn'[c].prefixes = conn[c].prefixes
  BY <1>0, EffectsTyped
<1>8. ASSUME Judged, NEW s \in Stored, watched(s) PROVE told'[c].cache[s] = store'[s] /\ Watching(c, s)'
  <2>1. told'[c].cache[s] = store'[s]
    BY <1>1, <1>5, <1>8
  <2>2. ~conn[c].bcast => s \in tracked
    BY <1>3, <1>8
  <2>3. conn[c].bcast => s[1] \in conn[c].prefixes
    BY <1>8 DEF CacheOk, Compares
  <2> QED BY <1>2, <1>6, <1>7, <1>8, <2>1, <2>2, <2>3 DEF Watching
<1>9. ASSUME NEW s \in Stored, ~watched(s) PROVE told'[c].cache[s] = told[c].cache[s]
  BY <1>5, <1>9
<1> HIDE DEF watched, cache
<1>10. Judged => \A d \in Conn, s \in Stored : CacheStep(d, s)
  BY <1>1, <1>5, <1>6, <1>8, <1>9 DEF CacheStep
<1> QED BY <1>1, <1>6, <1>10, CacheSteps

(* A write command reaches everybody who has a value it replaced: it names every key it  *)
(* changes, but those outside of every database.                                         *)

LEMMA NamedAreWritten ==
  ASSUME NEW cmd \in {"SET", "MSET", "DEL", "EXPIRE"}, NEW d \in Db, NEW keys \in KeyLists(cmd),
         NEW s \in Range(Places(cmd, d, keys)), s[1] \in Db
  PROVE  s \in Named(cmd, Places(cmd, d, keys))
<1> DEFINE there == Places(cmd, d, keys)
<1>1. CASE cmd # "DEL"
  BY <1>1 DEF Named
<1>2. CASE cmd = "DEL"
  <2>1. /\ DOMAIN there = DOMAIN keys
        /\ \A i \in DOMAIN keys : there[i] = <<IF i > 1 THEN Raw ELSE d, keys[i]>>
    BY <1>2 DEF Places
  <2>2. Named(cmd, there) = {there[1]} /\ DOMAIN keys \subseteq 1 .. 2
    BY <1>2 DEF Named, KeyLists
  <2> HIDE DEF there
  <2>3. PICK i \in DOMAIN keys : s = <<IF i > 1 THEN Raw ELSE d, keys[i]>> /\ s = there[i]
    BY <2>1 DEF Range, there
  <2>4. i = 1
    BY <2>2, <2>3, ConstantsAssumption
  <2> QED BY <2>2, <2>3, <2>4 DEF there
<1> QED BY <1>1, <1>2

(* What Invalidate does to the caches, after whatever was published *)

LEMMA InvalidatedCaches ==
  ASSUME IInv, NEW first, OnlyHeard(first, told), NEW S, told' = Invalidate(first, S),
         NEW d \in Conn, NEW s \in Stored
  PROVE  told'[d].cache[s] = IF s \in S /\ d \in Invalidated(s) THEN NotCached ELSE told[d].cache[s]
<1> DEFINE Cache(e) == [x \in Stored |-> IF x \in S /\ e \in Invalidated(x) THEN NotCached
                                         ELSE first[e].cache[x]]
<1>1. told' = [e \in Conn |-> [first[e] EXCEPT !.cache = Cache(e)]]
  BY DEF Invalidate, OnlyHeard, Known
<1>2. told'[d].cache = Cache(d)
  <2> HIDE DEF Cache
  <2> QED BY <1>1 DEF Known, OnlyHeard
<1>3. first[d].cache[s] = told[d].cache[s]
  BY DEF OnlyHeard, SameCaches
<1>4. Cache(d)[s] = IF s \in S /\ d \in Invalidated(s) THEN NotCached ELSE first[d].cache[s]
  OBVIOUS
<1> HIDE DEF Cache
<1> QED BY <1>2, <1>3, <1>4

LEMMA ChangeKeepsCaches ==
  ASSUME IInv, CacheOk, NEW c \in Conn, NEW cmd \in Commands, cmd \notin Reads,
         NEW keys \in KeyLists(cmd), NEW places, NEW written, NEW tracked, NEW new,
         Effects(c, cmd, keys, places, written, tracked, new)
  PROVE  CacheOk'
<1> DEFINE first == Notified(cmd, places, new)
<1>1. /\ around' = around /\ store' = new /\ told' = Invalidate(first, written)
      /\ uninvalidated' = Uninvalidated(cmd, places, new)
  BY DEF Effects
<1>2. /\ Range(places) \subseteq Stored /\ written \subseteq Stored
      /\ \A s \in Stored : s \notin Range(places) => new[s] = store[s]
      /\ OnlyHeard(first, told)
  BY EffectsTyped, NotifiedIsHeard
<1> HIDE DEF first
<1>3. \A d \in Conn, s \in Stored :
        told'[d].cache[s] = IF s \in written /\ d \in Invalidated(s) THEN NotCached ELSE told[d].cache[s]
  BY <1>1, <1>2, InvalidatedCaches
<1>4. /\ \A d \in Conn : Compares(d) => Compares(d)'
      /\ \A d \in Conn, s \in Stored : s \notin written /\ Watching(d, s) => Watching(d, s)'
  BY CommandsKeepWatching
<1>5. ASSUME NEW s \in Stored, s \notin written, s[1] \in Db
      PROVE  \/ store'[s] = store[s] /\ (s \in uninvalidated => s \in uninvalidated')
             \/ s \in uninvalidated'
  <2>1. CASE cmd \in {"PEXPIRE", "LMOVE", "SMOVE", "BITOP", "GETDEL"}
    BY <1>1, <1>2, <2>1 DEF Uninvalidated
  <2>2. CASE cmd \in {"SET", "MSET", "DEL", "EXPIRE"}
    <3>1. conn[c].db \in Db /\ places = Places(cmd, conn[c].db, keys) /\ written = Named(cmd, places)
      BY <2>2, Typed DEF Effects, Sock, IsWriteCommand
    <3>2. s \notin Range(places)
      BY <1>5, <2>2, <3>1, NamedAreWritten
    <3> QED BY <1>1, <1>2, <2>2, <3>2 DEF Uninvalidated
  <2> QED BY <2>1, <2>2 DEF Commands
<1>6. ASSUME Judged, NEW d \in Conn, NEW s \in Stored PROVE CacheStep(d, s)
  <2>1. CASE s \in written
    <3>1. told[d].cache[s] # NotCached => Watching(d, s)
      BY <1>6 DEF CacheOk
    <3>2. Watching(d, s) => d \in Invalidated(s)
      BY DEF Watching, Invalidated, IInv, TrackedWhileOn
    <3> QED BY <1>3, <2>1, <3>1, <3>2 DEF CacheStep
  <2>2. CASE s \notin written
    BY <1>3, <1>4, <1>5, <2>2 DEF CacheStep
  <2> QED BY <2>1, <2>2
<1> QED BY <1>1, <1>4, <1>6, CacheSteps

LEMMA CommandKeepsCaches ==
  ASSUME IInv, CacheOk, NEW c \in Conn, NEW cmd \in Commands, NEW keys \in KeyLists(cmd),
         Command(c, cmd, keys)
  PROVE  CacheOk'
<1>1. PICK places, written, tracked, new : Effects(c, cmd, keys, places, written, tracked, new)
  BY CommandEffects
<1>2. conn[c].state = "open"
  BY DEF Command, Open
<1> QED BY <1>1, <1>2, ReadKeepsCaches, ChangeKeepsCaches

LEMMA LeavingKeepsCaches ==
  ASSUME IInv, CacheOk, NEW c \in Conn, NEW state \in {"ended", "closed"}, Cleanup(c), Leaves(c, state)
  PROVE  CacheOk'
<1>1. /\ around' = around /\ store' = store /\ uninvalidated' = uninvalidated
      /\ keyClients' = [s \in DOMAIN keyClients |-> keyClients[s] \ {c}]
      /\ told' = [told EXCEPT ![c] = Ignorant]
  BY DEF Cleanup, history
<1>2. \A s \in Stored : told'[c].cache[s] = NotCached
  BY <1>1, Typed DEF Ignorant
<1>3. \A d \in Conn, s \in Stored : d # c /\ d \in At(keyClients, s) => d \in At(keyClients', s)
  BY <1>1 DEF At
<1>4. /\ \A d \in Conn : d # c => conn'[d] = conn[d]
      /\ conn'[c].bcast = conn[c].bcast /\ conn'[c].prefixes = conn[c].prefixes
  BY Typed DEF Leaves, Sock
<1>5. ASSUME NEW d \in Conn, NEW s \in Stored, d # c
      PROVE  told'[d].cache[s] = told[d].cache[s] /\ (Watching(d, s) => Watching(d, s)')
  BY <1>1, <1>3, <1>4, <1>5, Typed DEF Watching
<1>6. \A d \in Conn, s \in Stored : CacheStep(d, s)
  BY <1>1, <1>2, <1>5 DEF CacheStep
<1>7. \A d \in Conn : Compares(d) => Compares(d)'
  BY <1>4 DEF Compares
<1> QED BY <1>1, <1>6, <1>7, CacheSteps

LEMMA ConnectsKeepsCaches ==
  ASSUME IInv, CacheOk, NEW c \in Conn, Connects(c) PROVE CacheOk'
<1>1. /\ UNCHANGED <<around, store, keyClients, told, uninvalidated>>
      /\ conn[c].state # "open"
      /\ \A d \in Conn : d # c => conn'[d] = conn[d]
      /\ ~conn'[c].bcast
  BY Typed DEF Connects, history, Fresh
<1>2. ASSUME Judged, NEW s \in Stored PROVE told[c].cache[s] = NotCached
  BY <1>1, <1>2 DEF CacheOk, Watching
<1>3. ASSUME NEW d \in Conn, NEW s \in Stored, d # c
      PROVE  Watching(d, s) => Watching(d, s)'
  BY <1>1, <1>3 DEF Watching
<1>4. Judged => \A d \in Conn, s \in Stored : CacheStep(d, s)
  BY <1>1, <1>2, <1>3 DEF CacheStep
<1>5. \A d \in Conn : Compares(d) => Compares(d)'
  BY <1>1 DEF Compares
<1> QED BY <1>1, <1>4, <1>5, CacheSteps

LEMMA StepKeepsCaches == IInv /\ CacheOk /\ [Next]_vars => CacheOk'
<1> SUFFICES ASSUME IInv, CacheOk, [Next]_vars PROVE CacheOk'
  OBVIOUS
<1>1. CASE UNCHANGED vars
  BY <1>1 DEF vars, CacheOk, Watching, Compares, Judged
<1>2. ASSUME NEW c \in Conn,
             \/ \E ch \in Channel : Subscribe(c, ch) \/ Unsubscribe(c, {ch})
             \/ Unsubscribe(c, conn[c].subscriptions)
             \/ \E n \in Plain, m \in Message :
                  <<"plain", n>> \in Channel /\ Publish(c, <<"plain", n>>, m)
             \/ \E flags \in Flags : flags # notify /\ ConfigSet(c, flags)
             \/ \E d \in Db : Select(c, d)
      PROVE  CacheOk'
  <2>1. conn[c].subscriptions \in SUBSET Channel
    BY Typed DEF Sock
  <2> QED BY <1>2, <2>1, QuietKeepsCaches
<1>3. ASSUME NEW c \in Conn,
             \/ TrackingOff(c) \/ TrackingOn(c, FALSE, {})
             \/ \E prefixes \in {{}} \cup {{d} : d \in Db} : TrackingOn(c, TRUE, prefixes)
      PROVE  CacheOk'
  <2>1. \A prefixes \in {{}} \cup {{d} : d \in Db} : prefixes \in SUBSET Db
    OBVIOUS
  <2> QED BY <1>3, <2>1, TrackingOffKeepsCaches, TrackingOnKeepsCaches
<1>4. ASSUME NEW c \in Conn,
             \/ \E cmd \in Commands : Given(cmd) /\ \E keys \in KeyLists(cmd) : Command(c, cmd, keys)
             \/ \E k \in Key : ExecGet(c, k) \/ \E v \in Value : ExecSet(c, k, v)
             \/ \E s \in Db \X Key : Lookup(c, s)
             \/ FlushDb(c)
      PROVE  CacheOk'
  <2>1. Db \X Key \subseteq Stored
    BY DEF Stored
  <2> QED BY <1>4, <2>1, CommandKeepsCaches, ExecGetKeepsCaches, SilentCommands, SilentlyKeepsCaches
<1>5. ASSUME NEW c \in Conn, Ends(c) \/ Closes(c) \/ Connects(c) PROVE CacheOk'
  <2>1. CASE Ends(c)
    BY <2>1, LeavingKeepsCaches DEF Ends, Leaves
  <2>2. CASE Closes(c)
    BY <2>2, LeavingKeepsCaches DEF Closes, Leaves
  <2> QED BY <1>5, <2>1, <2>2, ConnectsKeepsCaches
<1>6. ASSUME NEW s \in Db \X Key, Expire(s) PROVE CacheOk'
  <2>1. s \in Stored
    BY DEF Stored
  <2> QED BY <1>6, <2>1, ExpireKeepsCaches
<1>7. CASE Next
  BY <1>2, <1>3, <1>4, <1>5, <1>6, <1>7 DEF Next
<1> QED BY <1>1, <1>7

(* However many clients read, write, move, broadcast, select, subscribe and end: what a client *)
(* that drops what it is told to drop has cached is what the store holds, unless the key was   *)
(* last changed by a command that is no write command, by BITOP, a SET inside MULTI, FLUSHDB   *)
(* or its deadline; then the next write command of the key still reaches everybody who has     *)
(* the old value.  (Clients cache answers outside MULTI, compare prefixes that stored keys     *)
(* have, and change their kind of tracking by OFF.)                                            *)
THEOREM CachesStayFresh == Spec => []CacheIsFresh
<1>1. Init => IInv /\ CacheOk
  <2> SUFFICES ASSUME Init PROVE IInv /\ CacheOk
    OBVIOUS
  <2>1. \A c \in Conn, s \in Stored : told[c].cache[s] = NotCached
    BY DEF Init, Ignorant
  <2>2. \A c \in Conn : ~conn[c].bcast
    BY DEF Init, Fresh
  <2> QED BY <2>1, <2>2, InitHolds DEF CacheOk, Compares
<1>2. IInv /\ CacheOk /\ [Next]_vars => (IInv /\ CacheOk)'
  BY StepKeeps, StepKeepsCaches
<1>3. CacheOk => CacheIsFresh
  BY DEF CacheOk, CacheIsFresh, Judged
<1> QED BY <1>1, <1>2, <1>3, PTL DEF Spec
------------------------------------------------------------------------------
(* What subscribers hear.  Those outside a channel have heard nothing on it, which is why a *)
(* subscriber that joins late cannot hold an older message than the others.                 *)

HeardOk(t) ==
  /\ \A c \in Conn, ch \in Channel : c \notin At(channels, ch) => t[c].heard[ch] = Nothing
  /\ \A ch \in Channel : \A c, d \in At(channels, ch) :
       t[c].heard[ch] = t[d].heard[ch] \/ Nothing \in {t[c].heard[ch], t[d].heard[ch]}

EventsOk == HeardOk(told) /\ WatchersKnowPresence

SameHeard(t, u) == \A c \in Conn : t[c].heard = u[c].heard

LEMMA SubscribersAreConns ==
  ASSUME IInv, NEW ch PROVE At(channels, ch) \subseteq Conn
BY DEF At, IInv, TypeOK

LEMMA SayHeard ==
  ASSUME NEW t \in [Conn -> Known], NEW ch, NEW m, NEW c \in Conn, NEW x \in Channel
  PROVE  Say(t, ch, m)[c].heard[x] =
           IF x = ch /\ c \in At(channels, ch) THEN m ELSE t[c].heard[x]
<1> DEFINE New == [t[c] EXCEPT !.heard[ch] = m]
<1>1. Say(t, ch, m)[c] = IF c \in At(channels, ch) THEN New ELSE t[c]
  BY DEF Say
<1>2. New.heard[x] = IF x = ch THEN m ELSE t[c].heard[x]
  <2>1. New.heard = [t[c].heard EXCEPT ![ch] = m]
    BY DEF Known
  <2>2. x \in DOMAIN t[c].heard
    BY DEF Known
  <2> HIDE DEF New
  <2> QED BY <2>1, <2>2
<1> HIDE DEF New
<1> QED BY <1>1, <1>2

LEMMA SayKeepsHeard ==
  ASSUME IInv, NEW t \in [Conn -> Known], NEW ch, NEW m, HeardOk(t)
  PROVE  HeardOk(Say(t, ch, m))
<1> DEFINE u == Say(t, ch, m)
<1>1. \A c \in Conn, x \in Channel :
        u[c].heard[x] = IF x = ch /\ c \in At(channels, ch) THEN m ELSE t[c].heard[x]
  BY SayHeard
<1> HIDE DEF u
<1>2. \A x \in Channel : At(channels, x) \subseteq Conn
  BY SubscribersAreConns
<1>3. HeardOk(u)
  BY <1>1, <1>2 DEF HeardOk
<1> QED BY <1>3 DEF u

(* An event of a class that is asked for reaches the keyspace channel of its key, and no *)
(* other keyspace channel. *)

LEMMA EventHeard ==
  ASSUME IInv, NEW t \in [Conn -> Known], NEW event \in Events, NEW class, NEW s \in Stored
  PROVE  LET u == MaybePublish(t, event, class, s) IN
         /\ HeardOk(t) => HeardOk(u)
         /\ notify.keyspace /\ class \in notify.classes =>
              \A c \in Conn, d \in Db, k \in Key : KeySpace(d, k) \in Channel =>
                u[c].heard[KeySpace(d, k)] =
                  IF s = <<d, k>> /\ c \in At(channels, KeySpace(d, k)) THEN event
                  ELSE t[c].heard[KeySpace(d, k)]
<1>1. s[2] \in Said /\ event \in Said /\ s = <<s[1], s[2]>>
  BY DEF Said, Stored
<1> DEFINE enabled(kind) == class \in notify.classes /\ kind
           first == IF enabled(notify.keyevent) THEN Say(t, KeyEvent(s[1], event), s[2]) ELSE t
           then  == IF enabled(notify.keyspace) THEN Say(first, KeySpace(s[1], s[2]), event) ELSE first
<1>2. MaybePublish(t, event, class, s) = then
  BY DEF MaybePublish
<1>3. first \in [Conn -> Known] /\ (HeardOk(t) => HeardOk(first))
  BY <1>1, SayKeepsChannels, SayKeepsHeard
<1>4. \A c \in Conn, d \in Db, k \in Key : KeySpace(d, k) \in Channel =>
        first[c].heard[KeySpace(d, k)] = t[c].heard[KeySpace(d, k)]
  <2>1. \A d, k : KeySpace(d, k) # KeyEvent(s[1], event)
    BY DEF KeySpace, KeyEvent
  <2>2. CASE ~enabled(notify.keyevent)
    BY <2>2
  <2>3. CASE enabled(notify.keyevent)
    <3>1. first = Say(t, KeyEvent(s[1], event), s[2])
      BY <2>3
    <3> HIDE DEF first
    <3> QED BY <2>1, <3>1, SayHeard
  <2> QED BY <2>2, <2>3
<1> HIDE DEF first
<1>5. HeardOk(first) => HeardOk(then)
  BY <1>3, SayKeepsHeard
<1>6. ASSUME notify.keyspace, class \in notify.classes, NEW c \in Conn, NEW d \in Db, NEW k \in Key,
             KeySpace(d, k) \in Channel
      PROVE  then[c].heard[KeySpace(d, k)] =
               IF s = <<d, k>> /\ c \in At(channels, KeySpace(d, k)) THEN event
               ELSE first[c].heard[KeySpace(d, k)]
  <2>1. then = Say(first, KeySpace(s[1], s[2]), event)
    BY <1>6
  <2>2. KeySpace(d, k) = KeySpace(s[1], s[2]) <=> s = <<d, k>>
    BY <1>1 DEF KeySpace
  <2> HIDE DEF then
  <2> QED BY <1>3, <1>6, <2>1, <2>2, SayHeard
<1> HIDE DEF then
<1> QED BY <1>2, <1>3, <1>4, <1>5, <1>6

(* Every step: a watcher has heard nothing that says whether the key is there, or what he had *)
(* heard and the key is there or not as before, or an event that is true of the key; or the   *)
(* step is one that is known to be silent.                                                    *)

Watched == "config" \notin around /\ notify.keyspace /\ {"$", "g", "s", "x"} \subseteq notify.classes

PresenceKept(s) ==
  \/ s \in unannounced'
  \/ (store'[s] = Absent <=> store[s] = Absent) /\ s \notin unannounced

PresenceStep(c, d, k) ==
  LET heard == told'[c].heard[KeySpace(d, k)]
  IN  \/ heard \notin {"set", "del", "expired"}
      \/ /\ heard = told[c].heard[KeySpace(d, k)] /\ KeySpace(d, k) \in told[c].channels
         /\ PresenceKept(<<d, k>>)
      \/ heard = "set" /\ (store'[<<d, k>>] # Absent \/ <<d, k>> \in unannounced')
      \/ heard \in {"del", "expired"} /\ store'[<<d, k>>] = Absent

LEMMA PresenceSteps ==
  ASSUME WatchersKnowPresence, Watched' => Watched,
         Watched => \A c \in Conn, d \in Db, k \in Key :
                      KeySpace(d, k) \in told'[c].channels => PresenceStep(c, d, k)
  PROVE  WatchersKnowPresence'
<1> SUFFICES ASSUME Watched', NEW c \in Conn, NEW d \in Db, NEW k \in Key,
                    KeySpace(d, k) \in told'[c].channels, <<d, k>> \notin unannounced'
             PROVE  CASE told'[c].heard[KeySpace(d, k)] = "set" -> store'[<<d, k>>] # Absent
                      [] told'[c].heard[KeySpace(d, k)] \in {"del", "expired"} -> store'[<<d, k>>] = Absent
                      [] OTHER -> TRUE
  BY DEF WatchersKnowPresence, Watched
<1> DEFINE heard == told'[c].heard[KeySpace(d, k)]
           there == store'[<<d, k>>] # Absent
<1>1. (heard = "set" => there) /\ (heard \in {"del", "expired"} => ~there)
  <2>1. PresenceStep(c, d, k) /\ Watched
    OBVIOUS
  <2>2. CASE /\ heard = told[c].heard[KeySpace(d, k)] /\ KeySpace(d, k) \in told[c].channels
             /\ PresenceKept(<<d, k>>)
    BY <2>1, <2>2 DEF WatchersKnowPresence, Watched, PresenceKept
  <2> QED BY <2>1, <2>2 DEF PresenceStep
<1> HIDE DEF heard, there
<1>2. CASE heard = "set"
  BY <1>1, <1>2 DEF heard, there
<1>3. CASE heard # "set"
  BY <1>1, <1>3 DEF heard, there
<1> QED BY <1>2, <1>3

LEMMA HeardKept ==
  ASSUME IInv, channels' = channels, NEW u, HeardOk(u), SameHeard(told', u)
  PROVE  HeardOk(told)'
<1>1. \A x : At(channels', x) = At(channels, x) /\ At(channels, x) \subseteq Conn
  BY SubscribersAreConns
<1> QED BY <1>1 DEF HeardOk, SameHeard

(* Commands after which everybody has heard what he had, of the same channels, and the same *)
(* keys are there *)

LEMMA NothingIsSaid ==
  ASSUME IInv, EventsOk, channels' = channels, Watched' => Watched,
         SameHeard(told', told), SameChannels(told', told),
         Watched => \A d \in Db, k \in Key : PresenceKept(<<d, k>>)
  PROVE  EventsOk'
<1>1. HeardOk(told)'
  BY HeardKept DEF EventsOk
<1>2. Watched => \A c \in Conn, d \in Db, k \in Key :
                   KeySpace(d, k) \in told'[c].channels => PresenceStep(c, d, k)
  BY DEF PresenceStep, SameHeard, SameChannels
<1> QED BY <1>1, <1>2, PresenceSteps DEF EventsOk

LEMMA SubscribeKeepsEvents ==
  ASSUME IInv, EventsOk, NEW c \in Conn, NEW ch \in Channel, Subscribe(c, ch) PROVE EventsOk'
<1>1. /\ told' = [told EXCEPT ![c] = [told[c] EXCEPT !.channels = told[c].channels \cup {ch}]]
      /\ channels' = Including(channels, ch, c) /\ UNCHANGED <<around, notify, store, unannounced>>
  BY Typed DEF Subscribe, history
<1>2. SameHeard(told', told) /\ \A d \in Conn : told'[d].channels \subseteq told[d].channels \cup
                                                  IF d = c THEN {ch} ELSE {}
  BY <1>1, Typed DEF Known, SameHeard
<1>3. \A x \in Channel : At(channels', x) = At(channels, x) \cup IF x = ch THEN {c} ELSE {}
  BY <1>1 DEF Including, At
<1>4. HeardOk(told)'
  <2>1. \A d \in Conn, x \in Channel : d \notin At(channels', x) => told'[d].heard[x] = Nothing
    BY <1>2, <1>3 DEF EventsOk, HeardOk, SameHeard
  <2>2. ASSUME NEW x \in Channel, NEW d \in At(channels', x), NEW e \in At(channels', x)
        PROVE  told'[d].heard[x] = told'[e].heard[x] \/ Nothing \in {told'[d].heard[x], told'[e].heard[x]}
    <3>1. d \in Conn /\ e \in Conn
      BY <1>3, <2>2, SubscribersAreConns
    <3>2. d \in At(channels, x) \/ told[d].heard[x] = Nothing
      BY <3>1 DEF EventsOk, HeardOk
    <3>3. e \in At(channels, x) \/ told[e].heard[x] = Nothing
      BY <3>1 DEF EventsOk, HeardOk
    <3>4. told'[d].heard = told[d].heard /\ told'[e].heard = told[e].heard
      BY <1>2, <3>1 DEF SameHeard
    <3> QED BY <3>2, <3>3, <3>4 DEF EventsOk, HeardOk
  <2> QED BY <2>1, <2>2 DEF HeardOk
<1>5. ASSUME NEW d \in Conn, NEW b \in Db, NEW k \in Key, KeySpace(b, k) \in told'[d].channels
      PROVE  PresenceStep(d, b, k)
  <2>1. told'[d].heard = told[d].heard
    BY <1>2 DEF SameHeard
  <2>2. CASE KeySpace(b, k) \in told[d].channels
    BY <1>1, <2>1, <2>2 DEF PresenceStep, PresenceKept
  <2>3. CASE KeySpace(b, k) \notin told[d].channels
    <3>1. KeySpace(b, k) = ch
      BY <1>2, <1>5, <2>3
    <3>2. told[d].channels = {x \in DOMAIN channels : d \in channels[x]}
      BY DEF IInv, SubscriptionsAgree
    <3>3. d \notin At(channels, ch)
      BY <2>3, <3>1, <3>2 DEF At
    <3>4. told[d].heard[ch] = Nothing
      BY <3>3 DEF EventsOk, HeardOk
    <3> QED BY <2>1, <3>1, <3>4 DEF PresenceStep, Nothing
  <2> QED BY <2>2, <2>3
<1>6. Watched' => Watched
  BY <1>1 DEF Watched
<1> QED BY <1>4, <1>5, <1>6, PresenceSteps DEF EventsOk

(* A client that leaves channels has heard nothing on them any more *)

LEMMA LeavingKeepsEvents ==
  ASSUME IInv, EventsOk, NEW c \in Conn, NEW chs \in SUBSET Channel,
         channels' = Excluding(channels, chs, c), Watched' => Watched, store' = store,
         unannounced' = unannounced,
         \A d \in Conn : d # c => told'[d].heard = told[d].heard /\ told'[d].channels = told[d].channels,
         told'[c].channels \subseteq told[c].channels,
         \A x \in Channel : told'[c].heard[x] = told[c].heard[x] \/ told'[c].heard[x] = Nothing,
         \A x \in chs : told'[c].heard[x] = Nothing
  PROVE  EventsOk'
<1>1. \A x \in Channel : At(channels', x) = At(channels, x) \ IF x \in chs THEN {c} ELSE {}
  BY DEF Excluding, Without, At
<1>2. \A d \in Conn, x \in Channel : told'[d].heard[x] = told[d].heard[x] \/ told'[d].heard[x] = Nothing
  OBVIOUS
<1>3. HeardOk(told)'
  <2>1. ASSUME NEW d \in Conn, NEW x \in Channel, d \notin At(channels', x) PROVE told'[d].heard[x] = Nothing
    <3>1. d \notin At(channels, x) \/ (d = c /\ x \in chs)
      BY <1>1, <2>1
    <3> QED BY <1>2, <3>1 DEF EventsOk, HeardOk
  <2>2. ASSUME NEW x \in Channel, NEW d \in At(channels', x), NEW e \in At(channels', x)
        PROVE  told'[d].heard[x] = told'[e].heard[x] \/ Nothing \in {told'[d].heard[x], told'[e].heard[x]}
    <3>1. d \in At(channels, x) /\ e \in At(channels, x)
      BY <1>1
    <3>2. d \in Conn /\ e \in Conn
      BY <3>1, SubscribersAreConns
    <3> QED BY <1>2, <3>1, <3>2 DEF EventsOk, HeardOk
  <2> QED BY <2>1, <2>2 DEF HeardOk
<1>4. ASSUME NEW d \in Conn, NEW b \in Db, NEW k \in Key, KeySpace(b, k) \in told'[d].channels
      PROVE  PresenceStep(d, b, k)
  <2>1. KeySpace(b, k) \in told[d].channels
    BY <1>4
  <2>2. KeySpace(b, k) \in Channel
    BY <2>1, Typed DEF Known
  <2> QED BY <1>2, <2>1, <2>2 DEF PresenceStep, PresenceKept, Nothing
<1> QED BY <1>3, <1>4, PresenceSteps DEF EventsOk

LEMMA UnsubscribeKeepsEvents ==
  ASSUME IInv, EventsOk, NEW c \in Conn, NEW chs \in SUBSET Channel, Unsubscribe(c, chs) PROVE EventsOk'
<1> DEFINE heard == [ch \in Channel |-> IF ch \in chs THEN Nothing ELSE told[c].heard[ch]]
<1>1. /\ told' = [told EXCEPT ![c] = [told[c] EXCEPT !.channels = told[c].channels \ chs, !.heard = heard]]
      /\ channels' = Excluding(channels, chs, c) /\ UNCHANGED <<around, notify, store, unannounced>>
  BY Typed DEF Unsubscribe, history
<1>2. \A x \in Channel : heard[x] = IF x \in chs THEN Nothing ELSE told[c].heard[x]
  OBVIOUS
<1> HIDE DEF heard
<1>3. /\ told'[c].heard = heard /\ told'[c].channels \subseteq told[c].channels
      /\ \A d \in Conn : d # c => told'[d] = told[d]
  BY <1>1, Typed DEF Known
<1>4. Watched' => Watched
  BY <1>1 DEF Watched
<1> QED BY <1>1, <1>2, <1>3, <1>4, LeavingKeepsEvents

LEMMA EndingKeepsEvents ==
  ASSUME IInv, EventsOk, NEW c \in Conn, Cleanup(c) PROVE EventsOk'
<1> DEFINE chs == conn[c].subscriptions
<1>1. /\ told' = [told EXCEPT ![c] = Ignorant]
      /\ channels' = Excluding(channels, chs, c) /\ UNCHANGED <<around, notify, store, unannounced>>
  BY DEF Cleanup, history
<1>2. chs \in SUBSET Channel
  BY Typed DEF Sock
<1> HIDE DEF chs
<1>3. /\ told'[c] = Ignorant /\ \A d \in Conn : d # c => told'[d] = told[d]
  BY <1>1, Typed
<1>4. Ignorant.channels = {} /\ \A x \in Channel : Ignorant.heard[x] = Nothing
  BY DEF Ignorant
<1>5. Watched' => Watched
  BY <1>1 DEF Watched
<1> QED BY <1>1, <1>2, <1>3, <1>4, <1>5, LeavingKeepsEvents
(* Commands of the tracking, and what changes keys silently *)

LEMMA CachesKeepsHeard ==
  ASSUME IInv, NEW c \in Conn, NEW S
  PROVE  SameHeard(Caches(told, c, S), told)
<1> DEFINE watched(s) == /\ s \in S /\ conn[c].tracking
                         /\ conn[c].bcast => conn[c].prefixes = {} \/ s[1] \in conn[c].prefixes
           cache == [s \in Stored |-> IF watched(s) THEN store[s] ELSE told[c].cache[s]]
<1>1. Caches(told, c, S) = [told EXCEPT ![c] = [told[c] EXCEPT !.cache = cache]]
  BY Typed DEF Caches
<1> HIDE DEF cache
<1> QED BY <1>1, Typed DEF Known, SameHeard

LEMMA QuietKeepsEvents ==
  ASSUME IInv, EventsOk, NEW c \in Conn,
         \/ \E flags \in Flags : ConfigSet(c, flags)
         \/ TrackingOff(c)
         \/ \E b \in BOOLEAN, prefixes \in SUBSET Db : TrackingOn(c, b, prefixes)
         \/ \E d \in Db : Select(c, d)
         \/ \E k \in Key : ExecGet(c, k)
         \/ Connects(c)
  PROVE  EventsOk'
<1>0. SameHeard(told, told) /\ SameChannels(told, told)
  BY DEF SameHeard, SameChannels
<1>1. ASSUME NEW flags \in Flags, ConfigSet(c, flags) PROVE EventsOk'
  <2>1. UNCHANGED <<around, channels, store, told>> /\ "config" \in around
    BY <1>1 DEF ConfigSet
  <2>2. ~Watched'
    BY <2>1 DEF Watched
  <2>3. HeardOk(told)'
    BY <1>0, <2>1, HeardKept DEF EventsOk
  <2> QED BY <2>2, <2>3 DEF EventsOk, WatchersKnowPresence, Watched
<1>2. ASSUME UNCHANGED <<around, channels, notify, store, unannounced>>,
             SameHeard(told', told), SameChannels(told', told)
      PROVE  EventsOk'
  <2>1. \A d \in Db, k \in Key : PresenceKept(<<d, k>>)
    BY <1>2 DEF PresenceKept
  <2>2. Watched' => Watched
    BY <1>2 DEF Watched
  <2> QED BY <1>2, <2>1, <2>2, NothingIsSaid
<1>3. CASE TrackingOff(c)
  <2>1. /\ UNCHANGED <<around, channels, notify, store, unannounced>>
        /\ told' = [told EXCEPT ![c] = [told[c] EXCEPT !.cache = Ignorant.cache]]
    BY <1>3, Typed DEF TrackingOff, history
  <2>2. SameHeard(told', told) /\ SameChannels(told', told)
    BY <2>1, Typed DEF Known, SameHeard, SameChannels
  <2> QED BY <1>2, <2>1, <2>2
<1>4. ASSUME NEW b \in BOOLEAN, NEW prefixes \in SUBSET Db, TrackingOn(c, b, prefixes) PROVE EventsOk'
  <2>1. UNCHANGED <<around, channels, notify, store, told, unannounced>>
    BY <1>4 DEF TrackingOn, history
  <2> QED BY <1>0, <1>2, <2>1
<1>5. ASSUME NEW d \in Db, Select(c, d) PROVE EventsOk'
  <2>1. UNCHANGED <<around, channels, notify, store, told, unannounced>>
    BY <1>5 DEF Select, history
  <2> QED BY <1>0, <1>2, <2>1
<1>6. ASSUME NEW k \in Key, ExecGet(c, k) PROVE EventsOk'
  <2> DEFINE S == {<<conn[c].db, k>>}
  <2>1. /\ UNCHANGED <<around, channels, notify, store, unannounced>>
        /\ told' = Caches(told, c, S)
    BY <1>6 DEF ExecGet, history
  <2> HIDE DEF S
  <2>2. SameHeard(told', told) /\ SameChannels(told', told)
    BY <2>1, CachesKeepsHeard, CachesKeepsChannels DEF IInv
  <2> QED BY <1>2, <2>1, <2>2
<1>7. CASE Connects(c)
  <2>1. UNCHANGED <<around, channels, notify, store, told, unannounced>>
    BY <1>7 DEF Connects, history
  <2> QED BY <1>0, <1>2, <2>1
<1> QED BY <1>1, <1>3, <1>4, <1>5, <1>6, <1>7

LEMMA SilentlyKeepsEvents ==
  ASSUME IInv, EventsOk, NEW S \in SUBSET Stored, NEW v \in Value \cup {Absent}, Silently(S, v)
  PROVE  EventsOk'
<1>1. UNCHANGED <<around, channels, notify, told>>
  BY DEF Silently
<1>2. ASSUME NEW d \in Db, NEW k \in Key PROVE PresenceKept(<<d, k>>)
  <2>1. <<d, k>> \in Stored
    BY DEF Stored
  <2>2. unannounced \subseteq unannounced' /\ (store'[<<d, k>>] = store[<<d, k>>] \/ <<d, k>> \in unannounced')
    BY <2>1 DEF Silently
  <2> QED BY <2>2 DEF PresenceKept
<1>3. SameHeard(told', told) /\ SameChannels(told', told) /\ (Watched' => Watched)
  BY <1>1 DEF SameHeard, SameChannels, Watched
<1> QED BY <1>1, <1>2, <1>3, NothingIsSaid

(* A message to an ordinary channel is no event *)

LEMMA PublishKeepsEvents ==
  ASSUME IInv, EventsOk, NEW c \in Conn, NEW n \in Plain, NEW m \in Message, Publish(c, <<"plain", n>>, m)
  PROVE  EventsOk'
<1> DEFINE ch == <<"plain", n>>
<1>1. told' = Say(told, ch, m) /\ UNCHANGED <<around, channels, notify, store, conn, unannounced>>
  BY DEF Publish, history
<1>2. \A d, k : KeySpace(d, k) # ch
  BY DEF KeySpace
<1> HIDE DEF ch
<1>3. HeardOk(Say(told, ch, m)) /\ SameHeard(told', Say(told, ch, m))
  BY <1>1, Typed, SayKeepsHeard DEF EventsOk, SameHeard
<1>4. HeardOk(told)'
  BY <1>1, <1>3, HeardKept
<1>5. SameChannels(told', told)
  <2>1. m \in Said
    BY DEF Said
  <2> QED BY <1>1, <2>1, Typed, SayKeepsChannels
<1>6. ASSUME NEW d \in Conn, NEW b \in Db, NEW k \in Key, KeySpace(b, k) \in told'[d].channels
      PROVE  PresenceStep(d, b, k)
  <2>1. KeySpace(b, k) \in told[d].channels
    BY <1>5, <1>6 DEF SameChannels
  <2>2. KeySpace(b, k) \in Channel
    BY <2>1, Typed DEF Known
  <2>3. told'[d].heard[KeySpace(b, k)] = told[d].heard[KeySpace(b, k)]
    BY <1>1, <1>2, <2>2, Typed, SayHeard
  <2> QED BY <1>1, <2>1, <2>3 DEF PresenceStep, PresenceKept
<1>7. Watched' => Watched
  BY <1>1 DEF Watched
<1> QED BY <1>4, <1>6, <1>7, PresenceSteps DEF EventsOk

(* A command or an expiry: the event its keys hear is true of them, and other keys of a *)
(* database stay as they are, or are known to go without an event.                      *)

HearOf(u, S, event) ==
  \A c \in Conn, d \in Db, k \in Key : KeySpace(d, k) \in Channel =>
    u[c].heard[KeySpace(d, k)] =
      IF <<d, k>> \in S /\ c \in At(channels, KeySpace(d, k)) THEN event
      ELSE told[c].heard[KeySpace(d, k)]

TrueOf(s, event) ==
  /\ event = "set" => store'[s] # Absent \/ s \in unannounced'
  /\ event \in {"del", "expired"} => store'[s] = Absent

LEMMA EventIsTrue ==
  ASSUME IInv, EventsOk, channels' = channels, around' = around, notify' = notify,
         NEW event, NEW S, NEW u, HeardOk(u), SameHeard(told', u), SameChannels(told', told),
         Watched => /\ HearOf(u, S, event)
                    /\ \A d \in Db, k \in Key : IF <<d, k>> \in S THEN TrueOf(<<d, k>>, event)
                                                ELSE PresenceKept(<<d, k>>)
  PROVE  EventsOk'
<1>2. HeardOk(told)'
  BY HeardKept
<1>3. ASSUME Watched, NEW c \in Conn, NEW d \in Db, NEW k \in Key, KeySpace(d, k) \in told'[c].channels
      PROVE  PresenceStep(c, d, k)
  <2> DEFINE ch == KeySpace(d, k)
  <2>1. ch \in told[c].channels
    BY <1>3 DEF SameChannels
  <2>2. ch \in Channel
    BY <2>1, Typed DEF Known
  <2>3. c \in At(channels, ch)
    BY <2>1 DEF IInv, SubscriptionsAgree, At
  <2>4. told'[c].heard[ch] = IF <<d, k>> \in S THEN event ELSE told[c].heard[ch]
    BY <1>3, <2>2, <2>3 DEF SameHeard, HearOf
  <2> HIDE DEF ch
  <2>5. CASE <<d, k>> \in S
    <3>1. TrueOf(<<d, k>>, event)
      BY <1>3, <2>5
    <3> QED BY <2>4, <2>5, <3>1 DEF PresenceStep, ch, TrueOf
  <2>6. CASE <<d, k>> \notin S
    <3>1. PresenceKept(<<d, k>>)
      BY <1>3, <2>6
    <3> QED BY <2>1, <2>4, <2>6, <3>1 DEF PresenceStep, ch
  <2> QED BY <2>5, <2>6
<1>4. Watched' => Watched
  BY DEF Watched
<1> QED BY <1>2, <1>3, <1>4, PresenceSteps DEF EventsOk

LEMMA ExpireKeepsEvents ==
  ASSUME IInv, EventsOk, NEW s \in Stored, Expire(s) PROVE EventsOk'
<1> DEFINE u == MaybePublish(told, "expired", "x", s)
<1>1. /\ told' = u /\ store' = [store EXCEPT ![s] = Absent]
      /\ UNCHANGED <<around, channels, notify>> /\ "expired" \in Events
      /\ unannounced' = unannounced \ {s}
  BY DEF Expire, Events
<1>2. SameChannels(u, told) /\ HeardOk(u) /\ (Watched => HearOf(u, {s}, "expired"))
  <2>1. SameChannels(u, told) /\ HeardOk(u)
    BY <1>1, Typed, MaybePublishKeepsChannels, EventHeard DEF EventsOk
  <2>2. ASSUME Watched PROVE HearOf(u, {s}, "expired")
    <3>1. \A c \in Conn, d \in Db, k \in Key : KeySpace(d, k) \in Channel =>
            u[c].heard[KeySpace(d, k)] =
              IF s = <<d, k>> /\ c \in At(channels, KeySpace(d, k)) THEN "expired"
              ELSE told[c].heard[KeySpace(d, k)]
      BY <1>1, <2>2, Typed, EventHeard DEF Watched
    <3> HIDE DEF u
    <3> QED BY <3>1 DEF HearOf
  <2> QED BY <2>1, <2>2
<1> HIDE DEF u
<1>3. \A d \in Db, k \in Key : IF <<d, k>> \in {s} THEN TrueOf(<<d, k>>, "expired") ELSE PresenceKept(<<d, k>>)
  BY <1>1, Typed DEF TrueOf, PresenceKept, Stores, Stored
<1>4. SameHeard(told', u) /\ SameChannels(told', told)
  BY <1>1, <1>2 DEF SameHeard
<1> QED BY <1>1, <1>2, <1>3, <1>4, EventIsTrue

(* What a command is heard of: its event, of the keys it announces *)

EventOf(cmd) ==
  CASE cmd = "SET" -> "set" [] cmd = "DEL" -> "del" [] cmd = "PEXPIRE" -> "pexpire"
    [] cmd = "EXPIRE" -> "expire" [] OTHER -> "smove"

Announced(cmd, places) ==
  CASE cmd \in {"SET", "DEL", "PEXPIRE", "EXPIRE"} -> {places[1]}
    [] cmd = "SMOVE" -> {places[1], places[2]}
    [] OTHER -> {}

Heard(t) == OnlyHeard(t, told) /\ HeardOk(t)

HearsOne(u, t, s, event) ==
  Watched => \A c \in Conn, d \in Db, k \in Key : KeySpace(d, k) \in Channel =>
    u[c].heard[KeySpace(d, k)] =
      IF s = <<d, k>> /\ c \in At(channels, KeySpace(d, k)) THEN event
      ELSE t[c].heard[KeySpace(d, k)]

LEMMA OneIsHeard ==
  ASSUME IInv, NEW t, Heard(t), NEW event \in Events, NEW class \in {"$", "g", "s", "x"}, NEW s \in Stored
  PROVE  /\ Heard(MaybePublish(t, event, class, s))
         /\ HearsOne(MaybePublish(t, event, class, s), t, s, event)
<1> DEFINE u == MaybePublish(t, event, class, s)
<1>1. t \in [Conn -> Known]
  BY DEF Heard, OnlyHeard
<1>2. Watched => notify.keyspace /\ class \in notify.classes
  BY DEF Watched
<1>3. Heard(u)
  BY <1>1, EventHeard, MaybePublishIsHeard DEF Heard
<1>4. notify.keyspace /\ class \in notify.classes =>
        \A c \in Conn, d \in Db, k \in Key : KeySpace(d, k) \in Channel =>
          u[c].heard[KeySpace(d, k)] =
            IF s = <<d, k>> /\ c \in At(channels, KeySpace(d, k)) THEN event
            ELSE t[c].heard[KeySpace(d, k)]
  BY <1>1, EventHeard
<1> HIDE DEF u
<1>5. HearsOne(u, t, s, event)
  BY <1>2, <1>4 DEF HearsOne
<1> QED BY <1>3, <1>5 DEF u

LEMMA NotifiedHeard ==
  ASSUME IInv, EventsOk, NEW cmd \in Commands, NEW places, Range(places) \subseteq Stored,
         places[1] \in Range(places),
         cmd \in {"LMOVE", "SMOVE"} => places[2] \in Range(places), NEW new
  PROVE  /\ HeardOk(Notified(cmd, places, new))
         /\ Watched => HearOf(Notified(cmd, places, new), Announced(cmd, places), EventOf(cmd))
<1> DEFINE say(t, event, class, i) == MaybePublish(t, event, class, places[i])
           Goal(u) == HeardOk(u) /\ (Watched => HearOf(u, Announced(cmd, places), EventOf(cmd)))
<1>1. Heard(told)
  BY Typed DEF Heard, OnlyHeard, SameChannels, SameCaches, EventsOk
<1>2. places[1] \in Stored /\ (cmd = "SMOVE" => places[2] \in Stored)
  OBVIOUS
<1>3. ASSUME NEW t, Heard(t), NEW event \in Events, NEW class \in {"$", "g", "s", "x"}
      PROVE  Heard(say(t, event, class, 1)) /\ HearsOne(say(t, event, class, 1), t, places[1], event)
  BY <1>2, <1>3, OneIsHeard
<1>4. ASSUME cmd = "SMOVE", NEW t, Heard(t), NEW event \in Events, NEW class \in {"$", "g", "s", "x"}
      PROVE  Heard(say(t, event, class, 2)) /\ HearsOne(say(t, event, class, 2), t, places[2], event)
  BY <1>2, <1>4, OneIsHeard
<1>5. Notified(cmd, places, new) =
        CASE cmd = "SET"     -> say(told, "set", "$", 1)
          [] cmd = "DEL"     -> say(told, "del", "g", 1)
          [] cmd = "PEXPIRE" -> say(told, "pexpire", "g", 1)
          [] cmd = "EXPIRE"  ->
               say(IF new = store THEN told ELSE say(told, "expired", "x", 1), "expire", "g", 1)
          [] cmd = "SMOVE"   -> say(say(told, "smove", "s", 1), "smove", "s", 2)
          [] OTHER           -> told
  BY DEF Notified
<1>6. {"set", "del", "expired", "expire", "pexpire", "smove"} \subseteq Events
  BY DEF Events
<1> HIDE DEF say
<1>7. ASSUME NEW u, NEW event, cmd \in {"SET", "DEL", "PEXPIRE", "EXPIRE"}, event = EventOf(cmd),
             Heard(u), HearsOne(u, told, places[1], event)
      PROVE  Goal(u)
  <2>1. Announced(cmd, places) = {places[1]}
    BY <1>7 DEF Announced
  <2> QED BY <1>7, <2>1 DEF HearOf, HearsOne, Heard
<1> HIDE DEF Goal
<1>8. CASE cmd = "SET"
  <2> DEFINE u == say(told, "set", "$", 1)
  <2>1. Heard(u) /\ HearsOne(u, told, places[1], "set")
    BY <1>1, <1>3, <1>6
  <2> HIDE DEF u
  <2>2. Goal(u)
    BY <1>7, <1>8, <2>1 DEF EventOf
  <2> QED BY <1>5, <1>8, <2>2 DEF u, Goal
<1>9. CASE cmd = "DEL"
  <2> DEFINE u == say(told, "del", "g", 1)
  <2>1. Heard(u) /\ HearsOne(u, told, places[1], "del")
    BY <1>1, <1>3, <1>6
  <2> HIDE DEF u
  <2>2. Goal(u)
    BY <1>7, <1>9, <2>1 DEF EventOf
  <2> QED BY <1>5, <1>9, <2>2 DEF u, Goal
<1>10. CASE cmd = "PEXPIRE"
  <2> DEFINE u == say(told, "pexpire", "g", 1)
  <2>1. Heard(u) /\ HearsOne(u, told, places[1], "pexpire")
    BY <1>1, <1>3, <1>6
  <2> HIDE DEF u
  <2>2. Goal(u)
    BY <1>7, <1>10, <2>1 DEF EventOf
  <2> QED BY <1>5, <1>10, <2>2 DEF u, Goal
<1>11. CASE cmd = "EXPIRE"
  <2> DEFINE first == say(told, "expired", "x", 1)
             t == IF new = store THEN told ELSE first
             u == say(t, "expire", "g", 1)
  <2>1. Heard(first) /\ HearsOne(first, told, places[1], "expired")
    BY <1>1, <1>3, <1>6
  <2> HIDE DEF first
  <2>2. Heard(t) /\ (t = told \/ HearsOne(t, told, places[1], "expired"))
    BY <1>1, <2>1
  <2> HIDE DEF t
  <2>3. Heard(u) /\ HearsOne(u, t, places[1], "expire")
    BY <1>3, <1>6, <2>2
  <2> HIDE DEF u
  <2>4. HearsOne(u, told, places[1], "expire")
    BY <2>2, <2>3 DEF HearsOne
  <2>5. Goal(u)
    BY <1>7, <1>11, <2>3, <2>4 DEF EventOf
  <2> QED BY <1>5, <1>11, <2>5 DEF u, t, first, Goal
<1>12. CASE cmd = "SMOVE"
  <2> DEFINE t == say(told, "smove", "s", 1)
             u == say(t, "smove", "s", 2)
  <2>1. Heard(t) /\ HearsOne(t, told, places[1], "smove")
    BY <1>1, <1>3, <1>6
  <2> HIDE DEF t
  <2>2. Heard(u) /\ HearsOne(u, t, places[2], "smove")
    BY <1>4, <1>6, <1>12, <2>1
  <2> HIDE DEF u
  <2>3. Announced(cmd, places) = {places[1], places[2]} /\ EventOf(cmd) = "smove"
    BY <1>12 DEF Announced, EventOf
  <2>4. Goal(u)
    BY <2>1, <2>2, <2>3 DEF HearOf, HearsOne, Heard, Goal
  <2> QED BY <1>5, <1>12, <2>4 DEF u, t, Goal
<1>13. CASE cmd \notin {"SET", "DEL", "PEXPIRE", "EXPIRE", "SMOVE"}
  <2>1. Notified(cmd, places, new) = told /\ Announced(cmd, places) = {}
    BY <1>5, <1>13 DEF Announced
  <2> QED BY <1>1, <2>1 DEF HearOf, Heard
<1> QED BY <1>8, <1>9, <1>10, <1>11, <1>12, <1>13

(* A command that announces a key announces all it changes in a database. *)

LEMMA ChangedAreAnnounced ==
  ASSUME NEW cmd \in {"SET", "DEL", "PEXPIRE", "EXPIRE", "SMOVE"}, NEW d \in Db,
         NEW keys \in KeyLists(cmd), NEW s \in Range(Places(cmd, d, keys)), s[1] \in Db
  PROVE  s \in Announced(cmd, Places(cmd, d, keys))
<1> DEFINE there == Places(cmd, d, keys)
<1>1. /\ DOMAIN there = DOMAIN keys
      /\ \A i \in DOMAIN keys : there[i] = <<IF cmd = "GETDEL" \/ (cmd = "DEL" /\ i > 1) THEN Raw ELSE d, keys[i]>>
  BY DEF Places
<1>2. DOMAIN keys \subseteq 1 .. 2 /\ (cmd \in {"SET", "PEXPIRE", "EXPIRE"} => DOMAIN keys = {1})
  BY DEF KeyLists
<1> HIDE DEF there
<1>3. PICK i \in DOMAIN keys : s = there[i]
  BY <1>1 DEF Range, there
<1>4. CASE i = 1
  BY <1>3, <1>4 DEF Announced, there
<1>5. CASE i = 2
  <2>1. cmd # "DEL"
    BY <1>1, <1>3, <1>5, ConstantsAssumption
  <2>2. cmd = "SMOVE"
    BY <1>2, <1>3, <1>5, <2>1
  <2> QED BY <1>3, <1>5, <2>2 DEF Announced, there
<1> QED BY <1>2, <1>4, <1>5

(* And what it changes and announces is as it says; what it changes and does not announce is *)
(* known to go without.                                                                      *)

LEMMA AnnouncedIsTrue ==
  ASSUME IInv, NEW c \in Conn, NEW cmd \in Commands, NEW keys \in KeyLists(cmd),
         NEW places, NEW written, NEW tracked, NEW new,
         Effects(c, cmd, keys, places, written, tracked, new), NEW s \in Stored, s[1] \in Db
  PROVE  IF s \in Announced(cmd, places) THEN TrueOf(s, EventOf(cmd)) ELSE PresenceKept(s)
<1>1. /\ places = Places(cmd, conn[c].db, keys) /\ new \in Outcomes(cmd, places)
      /\ store' = new /\ unannounced' = Unannounced(cmd, places, new)
  BY DEF Effects
<1>2. /\ conn[c].db \in Db /\ store \in Stores
      /\ Range(places) \subseteq Stored /\ places[1] \in Range(places)
      /\ s \notin Range(places) => new[s] = store[s]
  BY Typed, EffectsTyped DEF Sock
<1>3. CASE cmd = "SET"
  <2>1. s \in Announced(cmd, places) <=> s \in Range(places)
    BY <1>1, <1>2, <1>3, ChangedAreAnnounced DEF Announced
  <2>2. EventOf(cmd) = "set"
    BY <1>3 DEF EventOf
  <2> QED BY <1>1, <1>2, <1>3, <2>1, <2>2 DEF Unannounced, Reads, TrueOf, PresenceKept
<1>4. CASE cmd = "DEL"
  <2>1. s \in Announced(cmd, places) <=> s \in Range(places)
    BY <1>1, <1>2, <1>4, ChangedAreAnnounced DEF Announced
  <2>2. EventOf(cmd) = "del"
    BY <1>4 DEF EventOf
  <2>3. s \in Range(places) => new[s] = Absent
    BY <1>1, <1>4 DEF Outcomes
  <2> QED BY <1>1, <1>2, <1>4, <2>1, <2>2, <2>3 DEF Unannounced, Reads, TrueOf, PresenceKept
<1>5. CASE cmd \in {"PEXPIRE", "EXPIRE", "SMOVE"}
  <2>1. s \in Range(places) => s \in Announced(cmd, places)
    BY <1>1, <1>2, <1>5, ChangedAreAnnounced
  <2>2. EventOf(cmd) \in {"pexpire", "expire", "smove"}
    BY <1>5 DEF EventOf
  <2> QED BY <1>1, <1>2, <1>5, <2>1, <2>2 DEF Unannounced, Reads, TrueOf, PresenceKept
<1>6. CASE cmd \in {"MSET", "LMOVE", "BITOP", "GETDEL"}
  <2>1. Announced(cmd, places) = {}
    BY <1>6 DEF Announced
  <2>2. unannounced' = unannounced \cup {x \in Range(places) : new[x] # store[x]}
    BY <1>1, <1>6 DEF Unannounced, Reads
  <2>3. s \in unannounced' \/ (new[s] = store[s] /\ s \notin unannounced)
    BY <1>2, <2>2
  <2> QED BY <1>1, <2>1, <2>3 DEF PresenceKept
<1>7. CASE cmd \in Reads
  <2>1. Announced(cmd, places) = {} /\ new = store
    BY <1>1, <1>7 DEF Announced, Reads, Outcomes
  <2> QED BY <1>1, <1>7, <2>1 DEF Unannounced, Reads, PresenceKept
<1> QED BY <1>3, <1>4, <1>5, <1>6, <1>7 DEF Commands

LEMMA InvalidateKeepsHeard ==
  ASSUME NEW t \in [Conn -> Known], NEW S PROVE SameHeard(Invalidate(t, S), t)
<1> DEFINE Cache(d) == [x \in Stored |-> IF x \in S /\ d \in Invalidated(x) THEN NotCached
                                         ELSE t[d].cache[x]]
<1>1. Invalidate(t, S) = [d \in Conn |-> [t[d] EXCEPT !.cache = Cache(d)]]
  BY DEF Invalidate, Known
<1> HIDE DEF Cache
<1> QED BY <1>1 DEF Known, SameHeard

LEMMA CommandKeepsEvents ==
  ASSUME IInv, EventsOk, NEW c \in Conn, NEW cmd \in Commands, NEW keys \in KeyLists(cmd),
         Command(c, cmd, keys)
  PROVE  EventsOk'
<1>1. PICK places, written, tracked, new : Effects(c, cmd, keys, places, written, tracked, new)
  BY CommandEffects
<1> DEFINE u == Notified(cmd, places, new)
           S == Announced(cmd, places)
           event == EventOf(cmd)
<1>2. /\ Range(places) \subseteq Stored /\ places[1] \in Range(places)
      /\ cmd \in {"LMOVE", "SMOVE"} => places[2] \in Range(places)
  BY <1>1, EffectsTyped
<1>3. OnlyHeard(u, told) /\ HeardOk(u) /\ (Watched => HearOf(u, S, event))
  BY <1>2, NotifiedIsHeard, NotifiedHeard
<1>4. \A d \in Db, k \in Key : IF <<d, k>> \in S THEN TrueOf(<<d, k>>, event) ELSE PresenceKept(<<d, k>>)
  <2>1. ASSUME NEW d \in Db, NEW k \in Key
        PROVE  IF <<d, k>> \in S THEN TrueOf(<<d, k>>, event) ELSE PresenceKept(<<d, k>>)
    <3> DEFINE s == <<d, k>>
    <3>1. s \in Stored /\ s[1] \in Db
      BY DEF Stored
    <3> HIDE DEF s
    <3>2. IF s \in S THEN TrueOf(s, event) ELSE PresenceKept(s)
      BY <1>1, <3>1, AnnouncedIsTrue
    <3> QED BY <3>2 DEF s
  <2> QED BY <2>1
<1>5. /\ channels' = channels /\ around' = around /\ notify' = notify
      /\ told' = (IF cmd \in Reads THEN Caches(told, c, Range(places)) ELSE Invalidate(u, written))
      /\ cmd \in Reads => u = told
  BY <1>1 DEF Effects, Notified, Reads
<1> HIDE DEF u, S, event
<1>6. SameHeard(told', u) /\ SameChannels(told', told)
  <2>1. CASE cmd \in Reads
    <3>1. /\ SameHeard(Caches(told, c, Range(places)), told)
          /\ SameChannels(Caches(told, c, Range(places)), told)
      BY CachesKeepsHeard, CachesKeepsChannels DEF IInv
    <3> QED BY <1>5, <2>1, <3>1
  <2>2. CASE cmd \notin Reads
    <3>1. SameHeard(Invalidate(u, written), u) /\ SameChannels(Invalidate(u, written), u)
      BY <1>3, InvalidateKeepsHeard, InvalidateKeepsChannels DEF OnlyHeard
    <3> QED BY <1>3, <1>5, <2>2, <3>1 DEF OnlyHeard, SameChannels
  <2> QED BY <2>1, <2>2
<1> QED BY <1>3, <1>4, <1>5, <1>6, EventIsTrue

LEMMA StepKeepsEvents == IInv /\ EventsOk /\ [Next]_vars => EventsOk'
<1> SUFFICES ASSUME IInv, EventsOk, [Next]_vars PROVE EventsOk'
  OBVIOUS
<1>1. CASE UNCHANGED vars
  <2>1. UNCHANGED <<around, channels, notify, store, told, unannounced>>
    BY <1>1 DEF vars
  <2>2. SameHeard(told', told) /\ SameChannels(told', told) /\ (Watched' => Watched)
    BY <2>1 DEF SameHeard, SameChannels, Watched
  <2>3. \A d \in Db, k \in Key : PresenceKept(<<d, k>>)
    BY <2>1 DEF PresenceKept
  <2> QED BY <2>1, <2>2, <2>3, NothingIsSaid
<1>2. ASSUME NEW c \in Conn,
             \/ \E ch \in Channel : Subscribe(c, ch) \/ Unsubscribe(c, {ch})
             \/ Unsubscribe(c, conn[c].subscriptions)
             \/ \E n \in Plain, m \in Message :
                  <<"plain", n>> \in Channel /\ Publish(c, <<"plain", n>>, m)
      PROVE  EventsOk'
  <2>1. conn[c].subscriptions \in SUBSET Channel
    BY Typed DEF Sock
  <2> QED BY <1>2, <2>1, SubscribeKeepsEvents, UnsubscribeKeepsEvents, PublishKeepsEvents
<1>3. ASSUME NEW c \in Conn,
             \/ \E flags \in Flags : flags # notify /\ ConfigSet(c, flags)
             \/ TrackingOff(c) \/ TrackingOn(c, FALSE, {})
             \/ \E prefixes \in {{}} \cup {{d} : d \in Db} : TrackingOn(c, TRUE, prefixes)
             \/ \E k \in Key : ExecGet(c, k)
             \/ \E d \in Db : Select(c, d)
             \/ Connects(c)
      PROVE  EventsOk'
  <2>1. \A prefixes \in {{}} \cup {{d} : d \in Db} : prefixes \in SUBSET Db
    OBVIOUS
  <2> QED BY <1>3, <2>1, QuietKeepsEvents
<1>4. ASSUME NEW c \in Conn,
             \/ \E cmd \in Commands : Given(cmd) /\ \E keys \in KeyLists(cmd) : Command(c, cmd, keys)
             \/ \E k \in Key, v \in Value : ExecSet(c, k, v)
             \/ \E s \in Db \X Key : Lookup(c, s)
             \/ FlushDb(c)
      PROVE  EventsOk'
  <2>1. Db \X Key \subseteq Stored
    BY DEF Stored
  <2> QED BY <1>4, <2>1, CommandKeepsEvents, SilentCommands, SilentlyKeepsEvents
<1>5. ASSUME NEW c \in Conn, Ends(c) \/ Closes(c) PROVE EventsOk'
  BY <1>5, EndingKeepsEvents DEF Ends, Closes
<1>6. ASSUME NEW s \in Db \X Key, Expire(s) PROVE EventsOk'
  <2>1. s \in Stored
    BY DEF Stored
  <2> QED BY <1>6, <2>1, ExpireKeepsEvents
<1>7. CASE Next
  BY <1>2, <1>3, <1>4, <1>5, <1>6, <1>7 DEF Next
<1> QED BY <1>1, <1>7

(* Whoever subscribes, unsubscribes, publishes, writes and ends, and whatever CONFIG SET asks *)
(* for: two subscribers of a channel that both heard something last heard the same.  And a    *)
(* client that watches a key by its keyspace channel, with the flags on all along, knows of   *)
(* every SET, DEL and expiry found by the timer whether the key is there, unless the key was  *)
(* last changed without an event (MSET, LMOVE, BITOP, SET inside MULTI, FLUSHDB, a lookup     *)
(* past the deadline) or by a SET that found no key to replace.                               *)
THEOREM EventsStayTrue == Spec => []EventsAreTrue
<1>1. Init => IInv /\ EventsOk
  <2> SUFFICES ASSUME Init PROVE IInv /\ EventsOk
    OBVIOUS
  <2>1. \A c \in Conn : told[c].channels = {} /\ \A ch \in Channel : told[c].heard[ch] = Nothing
    BY DEF Init, Ignorant
  <2>2. \A ch : At(channels, ch) = {}
    BY DEF Init, At
  <2>3. HeardOk(told)
    BY <2>1, <2>2 DEF HeardOk
  <2>4. WatchersKnowPresence
    BY <2>1 DEF WatchersKnowPresence
  <2> QED BY <2>3, <2>4, InitHolds DEF EventsOk
<1>2. IInv /\ EventsOk /\ [Next]_vars => (IInv /\ EventsOk)'
  BY StepKeeps, StepKeepsEvents
<1>3. EventsOk => EventsAreTrue
  BY DEF EventsOk, HeardOk, EventsAreTrue, SubscribersHearAlike
<1> QED BY <1>1, <1>2, <1>3, PTL DEF Spec
==============================================================================
