----------------------------- MODULE Subscriptions -----------------------------
(***************************************************************************)
(* Server.js: what the server tells clients of its own accord.  SUBSCRIBE  *)
(* and PUBLISH, the keyspace notifications of writes and expiries, and     *)
(* CLIENT TRACKING, which invalidates what clients cached.  With them the  *)
(* part of every data command they depend on: which keys the database      *)
(* prefix is put before (_rewriteArgsForDb), which keys a command is taken *)
(* to name (_extractKeysForAcl), and whether it is one of _writeCommands.  *)
(* The server is a master, with no follower's stream to apply.             *)
(*                                                                         *)
(* A connection delivers in order, so a client is modelled by what it will *)
(* know once everything written to it has arrived: the channels it was     *)
(* told it has, the last message on each, and what it has cached.  Two     *)
(* history variables record which keys were changed by what is known to    *)
(* send no invalidation, and no event.                                     *)
(***************************************************************************)
EXTENDS Functions, Naturals, Sequences

CONSTANTS Conn,         \* connections
          Db,           \* databases
          Key,          \* keys, as clients name them
          Value,        \* what is stored
          Plain,        \* names of ordinary channels
          Message,      \* what clients publish
          Channel,      \* the channels clients subscribe
          Flags,        \* the notification flags CONFIG SET gives
          FirstFlags,   \* those the server is started with
          Surroundings, \* the sets of circumstances to consider
          MaxCommands   \* bound: commands in a behaviour

Raw    == "raw"      \* the space of keys without a prefix
Absent == "absent"
NotCached == "not cached"
Nothing == "nothing"

Circumstances == {"mset",     \* MSET
                  "moves",    \* LMOVE, SMOVE, BITOP
                  "expiry",   \* keys with a deadline, EXPIRE, PEXPIRE
                  "flush",    \* FLUSHDB
                  "exec",     \* SET inside MULTI
                  "execread", \* GET inside MULTI, and its answer cached
                  "config",   \* CONFIG SET notify-keyspace-events
                  "switch",   \* a client changes its kind of tracking without OFF
                  "foreign"}  \* BCAST without a PREFIX, or with one no stored key has

\* Where an entry is: the database, or Raw, and the key.  The names of tracked keys have
\* the prefix before them twice, in the sets and in the messages alike; a client takes
\* both off.
Stored == (Db \cup {Raw}) \X Key

KeySpace(d, k) == <<"keyspace", d, k>>
KeyEvent(d, e) == <<"keyevent", d, e>>
Events == {"set", "del", "expired", "expire", "pexpire", "smove"}
AllChannels ==
  {<<"plain", n>> : n \in Plain} \cup {KeySpace(d, k) : d \in Db, k \in Key}
    \cup {KeyEvent(d, e) : d \in Db, e \in Events}

ASSUME ConstantsAssumption ==
  /\ Channel \subseteq AllChannels /\ Surroundings \subseteq SUBSET Circumstances
  /\ Flags \subseteq [keyspace : BOOLEAN, keyevent : BOOLEAN, classes : SUBSET {"$", "g", "s", "x"}]
  /\ FirstFlags \subseteq Flags /\ MaxCommands \in Nat /\ Db # {}
  /\ Raw \notin Db /\ Absent \notin Value

VARIABLES
  around,     \* the circumstances of this behaviour
  conn,       \* per connection: what the server keeps on its socket
  channels,   \* this.channels: a map from channels to subscribers
  keyClients, \* this.trackingKeyToClients: a map from stored keys to readers
  bcast,      \* this.trackingBcastClients
  notify,     \* this._notify
  store,      \* the values
  told,       \* per connection: what its client was told
  uninvalidated, \* history: keys changed by what sends no invalidation
  unannounced,   \* history: keys changed by what sends no event, or a wrong one
  commands    \* commands so far

vars == <<around, conn, channels, keyClients, bcast, notify, store, told,
          uninvalidated, unannounced, commands>>
history == <<uninvalidated, unannounced>>

Fresh == [state |-> "open", db |-> CHOOSE d \in Db : TRUE, tracking |-> FALSE, bcast |-> FALSE,
          prefixes |-> {}, tracked |-> {}, subscriptions |-> {}]
Ignorant == [channels |-> {}, heard |-> [ch \in Channel |-> Nothing],
             cache |-> [s \in Stored |-> NotCached]]
------------------------------------------------------------------------------
(* Maps of sets whose empty sets are deleted *)

At(m, x)      == IF x \in DOMAIN m THEN m[x] ELSE {}
Including(m, x, c) == [y \in DOMAIN m \cup {x} |-> IF y = x THEN At(m, x) \cup {c} ELSE m[y]]
Without(m, X) == [y \in DOMAIN m \ X |-> m[y]]

\* c leaves the sets of the keys X.
Excluding(m, X, c) ==
  LET left == [y \in DOMAIN m |-> IF y \in X THEN m[y] \ {c} ELSE m[y]]
  IN  Without(left, {y \in X \cap DOMAIN m : left[y] = {}})
------------------------------------------------------------------------------
(* Subscribing and publishing *)

Open(c) == conn[c].state = "open" /\ commands < MaxCommands /\ commands' = commands + 1

Subscribe(c, ch) ==
  /\ Open(c)
  /\ channels' = Including(channels, ch, c)
  /\ conn' = [conn EXCEPT ![c].subscriptions = @ \cup {ch}]
  /\ told' = [told EXCEPT ![c].channels = @ \cup {ch}]
  /\ UNCHANGED <<around, keyClients, bcast, notify, store, history>>

\* Bug: the socket forgets the channels, the channels keep the socket.
UnsubscribeHalf(c, chs) ==
  /\ Open(c)
  /\ channels' = channels
  /\ conn' = [conn EXCEPT ![c].subscriptions = @ \ chs]
  /\ told' = [told EXCEPT ![c].channels = @ \ chs,
                          ![c].heard = [ch \in Channel |-> IF ch \in chs THEN Nothing ELSE @[ch]]]
  /\ UNCHANGED <<around, keyClients, bcast, notify, store, history>>

\* Of named channels, or of all.
Unsubscribe(c, chs) ==
  /\ Open(c)
  /\ channels' = Excluding(channels, chs, c)
  /\ conn' = [conn EXCEPT ![c].subscriptions = @ \ chs]
  /\ told' = [told EXCEPT ![c].channels = @ \ chs,
                          ![c].heard = [ch \in Channel |-> IF ch \in chs THEN Nothing ELSE @[ch]]]
  /\ UNCHANGED <<around, keyClients, bcast, notify, store, history>>

\* A message to the subscribers of a channel.
Say(t, ch, m) ==
  [c \in Conn |-> IF c \in At(channels, ch) THEN [t[c] EXCEPT !.heard[ch] = m] ELSE t[c]]

Publish(c, ch, m) ==
  /\ Open(c)
  /\ told' = Say(told, ch, m)
  /\ UNCHANGED <<around, conn, channels, keyClients, bcast, notify, store, history>>

\* Bug: whatever the prefix, the database is the first.
PublishInFirstDb(t, event, class, s) ==
  LET enabled(kind) == class \in notify.classes /\ kind
      first == IF enabled(notify.keyevent) THEN Say(t, KeyEvent(Fresh.db, event), s[2]) ELSE t
  IN  IF enabled(notify.keyspace) THEN Say(first, KeySpace(Fresh.db, s[2]), event) ELSE first

\* _maybePublishKeyspace: an event of a class about a key of a database.
MaybePublish(t, event, class, s) ==
  LET enabled(kind) == class \in notify.classes /\ kind
      first == IF enabled(notify.keyevent) THEN Say(t, KeyEvent(s[1], event), s[2]) ELSE t
  IN  IF enabled(notify.keyspace) THEN Say(first, KeySpace(s[1], s[2]), event) ELSE first

ConfigSet(c, flags) ==
  /\ Open(c) /\ "config" \in around
  /\ notify' = flags
  /\ UNCHANGED <<around, conn, channels, keyClients, bcast, store, told, history>>
------------------------------------------------------------------------------
(* Commands and their keys *)

Reads == {"GET", "MGET"}
IsWriteCommand(cmd) == cmd \in {"SET", "MSET", "DEL", "EXPIRE", "BITOP"}

\* The others change keys too and are no write commands: with PEXPIRE go EXPIREAT and
\* PEXPIREAT, with LMOVE RPOPLPUSH and JSON.STRAPPEND, with SMOVE the S...STORE; with
\* BITOP goes PFMERGE.
Commands == Reads \cup {"SET", "MSET", "DEL", "EXPIRE", "PEXPIRE", "LMOVE", "SMOVE", "BITOP", "GETDEL"}

\* The keys given.  Of BITOP it is the destination: its sources are only read.
KeyLists(cmd) ==
  CASE cmd \in {"MGET", "MSET", "DEL"} ->
         {<<k>> : k \in Key} \cup {ks \in Key \X Key : ks[1] # ks[2]}
    [] cmd \in {"LMOVE", "SMOVE"} -> {ks \in Key \X Key : ks[1] # ks[2]}
    [] OTHER -> {<<k>> : k \in Key}

\* _rewriteArgsForDb: DEL has two entries, and the first, for one key, is the one that
\* counts.  GETDEL and some forty others have none.
Places(cmd, d, keys) ==
  [i \in DOMAIN keys |-> <<IF cmd = "GETDEL" \/ (cmd = "DEL" /\ i > 1) THEN Raw ELSE d, keys[i]>>]

\* _extractKeysForAcl, of the rewritten arguments: DEL names its first key only, and it
\* does not know BITOP and GETDEL.
Named(cmd, places) ==
  CASE cmd = "DEL" -> {places[1]}
    [] cmd \in {"BITOP", "GETDEL"} -> {}
    [] OTHER -> Range(places)

Stores == [Stored -> Value \cup {Absent}]

\* What the store may be after a command that is answered no error.  SET with NX or XX
\* may leave it; EXPIRE and PEXPIRE delete for 0 or less.
Outcomes(cmd, places) ==
  LET put(v)  == [store EXCEPT ![places[1]] = v]
      move    == {[store EXCEPT ![places[1]] = left, ![places[2]] = v] :
                    left \in Value \cup {Absent}, v \in Value}
  IN  CASE cmd = "SET"   -> {store} \cup {put(v) : v \in Value}
        [] cmd = "BITOP" -> {put(v) : v \in Value}
        [] cmd = "MSET"  -> {[s \in Stored |-> IF s \in Range(places) THEN v ELSE store[s]] : v \in Value}
        [] cmd = "DEL"   -> {[s \in Stored |-> IF s \in Range(places) THEN Absent ELSE store[s]]}
        [] cmd = "GETDEL" -> {put(Absent)}
        [] cmd \in {"EXPIRE", "PEXPIRE"} -> {store, put(Absent)}
        [] cmd \in {"LMOVE", "SMOVE"} ->
             {store} \cup IF store[places[1]] = Absent THEN {} ELSE move
        [] OTHER -> {store}
------------------------------------------------------------------------------
(* Tracking *)

TrackingOff(c) ==
  /\ Open(c)
  /\ conn' = [conn EXCEPT ![c].tracking = FALSE, ![c].bcast = FALSE,
                          ![c].tracked = {}, ![c].prefixes = {}]
  /\ bcast' = bcast \ {c}
  /\ keyClients' = Excluding(keyClients, conn[c].tracked, c)
  /\ told' = [told EXCEPT ![c].cache = Ignorant.cache]   \* the client drops its cache
  /\ UNCHANGED <<around, channels, notify, store, history>>

\* ON keeps the keys registered before.
TrackingOn(c, isBcast, prefixes) ==
  /\ Open(c)
  /\ conn[c].tracking => "switch" \in around
  /\ isBcast /\ prefixes = {} => "foreign" \in around
  /\ conn' = [conn EXCEPT ![c].tracking = TRUE, ![c].bcast = isBcast, ![c].prefixes = prefixes]
  /\ bcast' = IF isBcast THEN bcast \cup {c} ELSE bcast \ {c}
  /\ UNCHANGED <<around, channels, keyClients, notify, store, told, history>>

\* The clients an invalidation of s is sent to: its readers, and everybody whose
\* prefixes it has.
Invalidated(s) == At(keyClients, s) \cup {c \in bcast : s[1] \in conn[c].prefixes}

\* Bug: the readers are forgotten before they are told.
InvalidateForgotten(t, S) ==
  [c \in Conn |-> [t[c] EXCEPT !.cache =
     [s \in Stored |-> IF s \in S /\ c \in bcast /\ s[1] \in conn[c].prefixes
                       THEN NotCached ELSE @[s]]]]

\* _invalidateKey, of several keys: their clients drop them from their caches.
Invalidate(t, S) ==
  [c \in Conn |-> [t[c] EXCEPT !.cache =
     [s \in Stored |-> IF s \in S /\ c \in Invalidated(s) THEN NotCached ELSE @[s]]]]

\* What a client caches of an answer: what it asked the server to watch, which is all
\* there is when its prefixes, if any, are not those the server compares.
Caches(t, c, S) ==
  [t EXCEPT ![c].cache = [s \in Stored |->
     IF /\ s \in S /\ conn[c].tracking
        /\ conn[c].bcast => conn[c].prefixes = {} \/ s[1] \in conn[c].prefixes
     THEN store[s] ELSE @[s]]]

\* The events of a command that was answered no error: _maybePublishKeyspace for each
\* key it names, and what the store raises itself.
Notified(cmd, places, new) ==
  LET say(t, event, class, i) == MaybePublish(t, event, class, places[i]) IN
  CASE cmd = "SET"     -> say(told, "set", "$", 1)
    [] cmd = "DEL"     -> say(told, "del", "g", 1)
    [] cmd = "PEXPIRE" -> say(told, "pexpire", "g", 1)
    [] cmd = "EXPIRE"  ->
         say(IF new = store THEN told ELSE say(told, "expired", "x", 1), "expire", "g", 1)
    [] cmd = "SMOVE"   -> say(say(told, "smove", "s", 1), "smove", "s", 2)
    [] OTHER           -> told

\* What is known to leave caches stale: commands that are no write commands, and write
\* commands whose keys nobody knows.  A write command makes up for it.
Uninvalidated(cmd, places, new) ==
  CASE cmd \in {"PEXPIRE", "LMOVE", "SMOVE", "BITOP", "GETDEL"} ->
         uninvalidated \cup {s \in Range(places) : new[s] # store[s]}
    [] cmd \in {"SET", "MSET", "DEL", "EXPIRE"} -> uninvalidated \ Range(places)
    [] OTHER -> uninvalidated

\* What is known to leave watchers wrong: commands without an event, and a SET with XX
\* that finds no key and is announced all the same.
Unannounced(cmd, places, new) ==
  CASE cmd \in {"MSET", "LMOVE", "BITOP", "GETDEL"} ->
         unannounced \cup {s \in Range(places) : new[s] # store[s]}
    [] cmd \in Reads -> unannounced
    [] OTHER -> (unannounced \ Range(places))
                  \cup {s \in Range(places) : cmd = "SET" /\ new[s] = Absent}

\* A command outside MULTI that is answered no error: it is dispatched, its events are
\* published, it is answered; then a read (whatever is no write command) registers its
\* keys for the client, and a write invalidates those it names.
Command(c, cmd, keys) ==
  /\ Open(c)
  /\ LET places  == Places(cmd, conn[c].db, keys)
         named   == Named(cmd, places)
         written == IF IsWriteCommand(cmd) THEN named ELSE {}
         tracked == IF ~IsWriteCommand(cmd) /\ conn[c].tracking /\ ~conn[c].bcast THEN named ELSE {}
     IN  \E new \in Outcomes(cmd, places) :
           /\ store' = new
           /\ told' = IF cmd \in Reads THEN Caches(told, c, Range(places))
                      ELSE Invalidate(Notified(cmd, places, new), written)
           /\ keyClients' = [s \in (DOMAIN keyClients \ written) \cup tracked |->
                               At(keyClients, s) \cup (IF s \in tracked THEN {c} ELSE {})]
           /\ conn' = [conn EXCEPT ![c].tracked = @ \cup tracked]
           /\ uninvalidated' = Uninvalidated(cmd, places, new)
           /\ unannounced' = Unannounced(cmd, places, new)
  /\ UNCHANGED <<around, channels, bcast, notify>>

\* The keys S become values v by something that neither invalidates nor announces.
Silently(S, v) ==
  /\ store' = [s \in Stored |-> IF s \in S THEN v ELSE store[s]]
  /\ uninvalidated' = uninvalidated \cup {s \in S : store[s] # v}
  /\ unannounced' = unannounced \cup {s \in S : store[s] # v}
  /\ UNCHANGED <<around, conn, channels, keyClients, bcast, notify, told>>

Select(c, d) ==
  /\ Open(c)
  /\ d # conn[c].db
  /\ conn' = [conn EXCEPT ![c].db = d]
  /\ UNCHANGED <<around, channels, keyClients, bcast, notify, store, told, history>>

\* MULTI, a SET or a GET, EXEC: none of what follows a command outside MULTI.
ExecSet(c, k, v) == "exec" \in around /\ Open(c) /\ Silently({<<conn[c].db, k>>}, v)

ExecGet(c, k) ==
  /\ Open(c) /\ "execread" \in around
  /\ told' = Caches(told, c, {<<conn[c].db, k>>})
  /\ UNCHANGED <<around, conn, channels, keyClients, bcast, notify, store, history>>

FlushDb(c) == "flush" \in around /\ Open(c) /\ Silently({s \in Stored : s[1] = conn[c].db}, Absent)

\* A command looks up a key past its deadline: _purgeIfExpired says nothing of it.
Lookup(c, s) == "expiry" \in around /\ store[s] # Absent /\ Open(c) /\ Silently({s}, Absent)

\* The timer finds it first, and onKeyEvent announces it.
Expire(s) ==
  /\ "expiry" \in around /\ store[s] # Absent
  /\ store' = [store EXCEPT ![s] = Absent]
  /\ told' = MaybePublish(told, "expired", "x", s)
  /\ uninvalidated' = uninvalidated \cup {s} /\ unannounced' = unannounced \ {s}
  /\ UNCHANGED <<around, conn, channels, keyClients, bcast, notify, commands>>
------------------------------------------------------------------------------
(* Connections end *)

\* cleanup: what the socket subscribed, what it reads.  The sets of readers stay, empty.
Cleanup(c) ==
  /\ channels' = Excluding(channels, conn[c].subscriptions, c)
  /\ bcast' = bcast \ {c}
  /\ keyClients' = [s \in DOMAIN keyClients |-> keyClients[s] \ {c}]
  /\ told' = [told EXCEPT ![c] = Ignorant]
  /\ UNCHANGED <<around, notify, store, history>>

\* Both `end' and `close' run it.
Ends(c) ==
  /\ conn[c].state = "open"
  /\ Cleanup(c)
  /\ conn' = [conn EXCEPT ![c].state = "ended", ![c].subscriptions = {}]
  /\ UNCHANGED commands

Closes(c) ==
  /\ conn[c].state \in {"open", "ended"}
  /\ Cleanup(c)
  /\ conn' = [conn EXCEPT ![c].state = "closed", ![c].subscriptions = {}]
  /\ UNCHANGED commands

\* The client connects again.
Connects(c) ==
  /\ conn[c].state = "closed" /\ commands < MaxCommands
  /\ conn' = [conn EXCEPT ![c] = Fresh]
  /\ UNCHANGED <<around, channels, keyClients, bcast, notify, store, told, history, commands>>
------------------------------------------------------------------------------
Init ==
  /\ around \in Surroundings
  /\ conn = [c \in Conn |-> Fresh] /\ told = [c \in Conn |-> Ignorant]
  /\ channels = <<>> /\ keyClients = <<>> /\ bcast = {}
  /\ notify \in FirstFlags
  /\ store = [s \in Stored |-> Absent]
  /\ uninvalidated = {} /\ unannounced = {}
  /\ commands = 0

Given(cmd) ==
  CASE cmd = "MSET" -> "mset" \in around
    [] cmd \in {"LMOVE", "SMOVE", "BITOP"} -> "moves" \in around
    [] cmd \in {"EXPIRE", "PEXPIRE"} -> "expiry" \in around
    [] OTHER -> TRUE

Next ==
  \/ \E s \in Db \X Key : Expire(s)
  \/ \E c \in Conn :
      \/ \E ch \in Channel : Subscribe(c, ch) \/ Unsubscribe(c, {ch})
      \/ Unsubscribe(c, conn[c].subscriptions)
      \/ \E n \in Plain, m \in Message : <<"plain", n>> \in Channel /\ Publish(c, <<"plain", n>>, m)
      \/ \E flags \in Flags : flags # notify /\ ConfigSet(c, flags)
      \/ TrackingOff(c) \/ TrackingOn(c, FALSE, {})
      \/ \E prefixes \in {{}} \cup {{d} : d \in Db} : TrackingOn(c, TRUE, prefixes)
      \/ \E cmd \in Commands : Given(cmd) /\ \E keys \in KeyLists(cmd) : Command(c, cmd, keys)
      \/ \E k \in Key : ExecGet(c, k) \/ \E v \in Value : ExecSet(c, k, v)
      \/ \E d \in Db : Select(c, d)
      \/ \E s \in Db \X Key : Lookup(c, s)
      \/ FlushDb(c) \/ Ends(c) \/ Closes(c) \/ Connects(c)

Spec == Init /\ [][Next]_vars
------------------------------------------------------------------------------
(* Properties *)

\* The types of the variables.
TypeOK ==
  /\ around \in SUBSET Circumstances
  /\ conn \in [Conn -> [state : {"open", "ended", "closed"}, db : Db, tracking : BOOLEAN,
                        bcast : BOOLEAN, prefixes : SUBSET Db, tracked : SUBSET Stored,
                        subscriptions : SUBSET Channel]]
  /\ DOMAIN channels \subseteq Channel /\ \A ch \in DOMAIN channels : channels[ch] \subseteq Conn
  /\ DOMAIN keyClients \subseteq Stored /\ \A s \in DOMAIN keyClients : keyClients[s] \subseteq Conn
  /\ bcast \subseteq Conn /\ notify \in Flags /\ commands \in Nat
  /\ store \in Stores /\ uninvalidated \subseteq Stored /\ unannounced \subseteq Stored
  /\ told \in [Conn -> [channels : SUBSET Channel,
                        heard : [Channel -> Message \cup Key \cup Events \cup {Nothing}],
                        cache : [Stored -> Value \cup {Absent, NotCached}]]]

\* Who is subscribed is recorded by channel, by socket, and by the confirmations the
\* client got: the three agree whatever was subscribed, unsubscribed and closed, and
\* no channel without subscribers is kept.
SubscriptionsAgree ==
  /\ \A c \in Conn : /\ conn[c].subscriptions = {ch \in DOMAIN channels : c \in channels[ch]}
                     /\ told[c].channels = conn[c].subscriptions
  /\ \A ch \in DOMAIN channels : channels[ch] # {}

\* Subscribers of a channel that have heard something have last heard the same.
SubscribersHearAlike ==
  \A ch \in Channel : \A c, d \in At(channels, ch) :
    told[c].heard[ch] = told[d].heard[ch] \/ Nothing \in {told[c].heard[ch], told[d].heard[ch]}

\* What a client has cached under CLIENT TRACKING is what the store holds, once what the
\* server has written to it has arrived, but for the keys last changed by something that is
\* known to send no invalidation: PEXPIRE, LMOVE, SMOVE, BITOP, a SET inside MULTI, FLUSHDB
\* and deadlines.  The next SET, MSET, DEL or EXPIRE of such a key reaches everybody who
\* still has its old value.  It is not judged when clients cache what they do not
\* ask the server to watch: answers of EXEC, and keys outside the prefixes it compares; and
\* when a client changes to another kind of tracking without OFF.
CacheIsFresh ==
  around \cap {"execread", "switch", "foreign"} = {} =>
    \A c \in Conn, s \in Stored :
      told[c].cache[s] \in {NotCached, store[s]} \/ s \in uninvalidated

\* Only open connections that asked for it are tracked, and what is registered for a
\* client is what its socket will unregister.
TrackedWhileOn ==
  /\ \A s \in DOMAIN keyClients : \A c \in keyClients[s] :
       conn[c].state = "open" /\ conn[c].tracking /\ s \in conn[c].tracked
  /\ \A c \in Conn : c \in bcast <=> conn[c].state = "open" /\ conn[c].bcast

\* A client that watches a key by its keyspace channel knows whether it is there, as long
\* as the flags ask for it, but for keys last changed by something that is known to send no
\* event or one that is not so: MSET, LMOVE, BITOP, a SET inside MULTI, FLUSHDB, a lookup
\* past the deadline, and a SET with XX that finds no key.
WatchersKnowPresence ==
  "config" \notin around /\ notify.keyspace /\ {"$", "g", "s", "x"} \subseteq notify.classes =>
    \A c \in Conn, d \in Db, k \in Key :
      KeySpace(d, k) \in told[c].channels /\ <<d, k>> \notin unannounced =>
        CASE told[c].heard[KeySpace(d, k)] = "set" -> store[<<d, k>>] # Absent
          [] told[c].heard[KeySpace(d, k)] \in {"del", "expired"} -> store[<<d, k>>] = Absent
          [] OTHER -> TRUE

\* Together: what the server keeps by channel and by key is what it keeps by socket, for
\* subscriptions and for tracking, and what the clients were told.
RegistrationsAgree == TypeOK /\ SubscriptionsAgree /\ TrackedWhileOn

\* Both: what subscribers hear is the same, and what it says of a key is so, but where the
\* code is known to be silent.
EventsAreTrue == SubscribersHearAlike /\ WatchersKnowPresence
==============================================================================
