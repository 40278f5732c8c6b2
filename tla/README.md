# Redis-Clone-JS: TLA+ models, model checking and proofs

This directory specifies the server in `src/src`: its keyspace and data types, its
replication, its two persistence mechanisms, its connections, what it tells clients of its
own accord, and the client that comes with it. Every definition is translated from the
source. Paths below are relative to `src/`.

## 1. The system

One Node process (`src/server/Server.js`) listens on TCP and TLS, parses RESP
(`src/core/protocol.js`), and serves each command in the `data` handler of the socket
it came on: some commands have a branch of their own in `_handleConnection`, all others
go to `DataStore.dispatch` (`src/core/DataStore.js`). Node runs one handler at a time,
to its end. Concurrency comes from what lies between handlers: timers, promises that
settle, chunks that arrive, sockets that close, files that get written, and processes
that end.

| component | state | operations | interacts with |
|---|---|---|---|
| keys and expiry (DataStore) | `kv`, `expires` | generic key commands, lazy purge in `_getEntry`, a purge timer each second | server: `expired` callback |
| strings, lists | entries of `kv` | one handler per command, run to completion | keys and expiry |
| hashes, sets, sorted sets | a Map; a Set; a Map and a sorted array | HSET, SADD, ZADD and their kin, the `*STORE` forms, cursors | snapshots |
| bits, bit fields | strings | SETBIT, BITOP, BITFIELD | keys |
| time series | samples, rules with half-filled buckets | TS.ADD, TS.CREATERULE, TS.RANGE | the destination series of rules |
| cuckoo filters | buckets of fingerprints, beside `kv` | CF.ADD, CF.DEL | nothing: not expired, saved or flushed |
| JSON, document index | a tree; postings and numbers per index | JSON.*, DOC.* | the index copies documents when told to |
| vectors | `idToVector`, the graph of `HnswIndex` | VEC.* | embedders (network) |
| streams | entries, groups: `lastId`, `pending`, a map per consumer | XADD, XDEL, XTRIM, XGROUP, XREADGROUP, XACK, XCLAIM | keys and expiry |
| connections (Server) | per socket `inMulti`, `queue`, `db`, subscriptions, tracking flags | SELECT, MULTI, EXEC, DISCARD, dispatch | store, AOF, replication |
| append-only file (`aof.js`) | file, promise chain `_aofWrite` | append after each logged write, replay at start | connections, start |
| snapshots (`snapshot.js`) | file, `_bgsaveInProgress` | SAVE, BGSAVE, load at start | store |
| replication (Server) | `role`, `runId`, `replicationOffset`, backlog, `replicas`; `master`, `masterRunId`, `replAppliedOffset`, reconnect timers | PSYNC, SYNC, stream of writes, REPLICAOF | store, sockets |
| publish/subscribe, notifications | `channels`, each socket's `subscriptions`, flags | SUBSCRIBE, UNSUBSCRIBE, PUBLISH, cleanup | `expired` callback, writes |
| client-side caching | `trackingKeyToClients`, `trackingBcastClients` | CLIENT TRACKING, read, write, close | connections |
| blocking commands | polling timers | BLPOP, BRPOP, XREAD BLOCK | store |
| parser (`protocol.js`) | the bytes not yet consumed | `feed`, encoders | server and SDK |
| client SDK (`client/sdk.js`) | pending calls, offline queue, reconnect timer, parser | connect, call, pipeline, disconnect | the server |
| ACL (`acl.js`) | users | ACL, AUTH, check before dispatch | connections |
| HyperLogLog, geo | registers; sorted sets | PFADD, GEOADD and their kin | keys |
| slow log, INFO, monitor, CLI, embedders | a ring of records; none | reporting, terminal, network | - |

Hard behaviours, with their lines, are the `hazards` of `PROJECT.json`. In short: keys
that are dead but still held; two records of one fact, kept together by hand; appends and
saves that overlap writes; a process that ends between any two of them; a follower that
resumes from an offset it only remembers; timers set under conditions that no longer hold;
exceptions that leave a loop half-way; answers that come in a later turn, in pieces, or on
a connection that is already gone; structures at their capacity.

What makes each component correct: the keyspace answers as if dead keys were not there;
files hold the history in order, and a restart finds some past of the store; a follower's
offset says exactly what its store has, and it converges; writes take effect once, in the
order sent, and answers belong to their calls, on either end of a connection; what the
server keeps of a client agrees with what it told it; an element goes to one waiting
client; a stream's group hands out every entry once; the several records a data type is
made of agree, and with a reference definition of what they are for.

## 2. The modules

| module | models | notes |
|---|---|---|
| `Entries` | `{type, value}` entries and what commands do to them | pure operators; `type` and the real form of the value are kept apart, as nothing in the code ties them |
| `LogicalKeyspace` | what the keyspace promises | one map key -> (entry, time); no purges, no dead keys |
| `Keyspace` | `kv`, `expires`, the clock, the purge timer | one operator per handler; `Finish` is the end of each |
| `Replication` | masters, the sockets, one follower | a command is one unit of the byte stream |
| `Durability` | store, AOF chain and file, snapshot file, saves, crash, start | the store is its history; `Result` interprets it |
| `Session` | connections, transactions, pipelining, late answers, the role | a chunk is served by a fold over its commands |
| `Streams` | streams and consumer groups | `added` and the fields `got`, `start`, `since` are history |
| `Parser` | `CommandParser` and the encoders | bytes are their codes; `ParseNext` is a recursive function over offsets |
| `Client` | the SDK's client, its sockets, the server's side of them | extends `Parser`: answers are bytes and arrive in chunks cut anywhere |
| `Subscriptions` | publish/subscribe, keyspace events, CLIENT TRACKING, the key prefix | a client is what it will know once all that was written to it has arrived |
| `Blocking` | BLPOP, BRPOP, XREAD BLOCK and their timers | one timer per waiting client, in any order |
| `Containers` | hashes, sets, sorted sets, cursors, their snapshots | Maps and Sets are sequences: the order of insertion is what cursors see |
| `Bits` | strings as bits, BITFIELD | a byte of two bits; `2^Exact` stands for 2^53 |
| `Ranges` | counters, ranges of strings and of lists, LMOVE | `2^Exact` stands for 2^53 and `2^Widest` for 2^63 |
| `Json` | JSON documents and paths into them | every value is a record of one shape; names lead into arrays too (a numeral, `length`), and deleting by one leaves a hole |
| `TimeSeries` | series, retention, rules | `log` is a history of accepted samples |
| `Cuckoo` | the filter, its two buckets and evictions | hash functions are constants, an index is the set of its bits that are 1; what is evicted, and from where, is a choice |
| `Documents` | one index over documents | a document is its terms and a number |
| `Vectors` | the vector commands and the graph of `HnswIndex` | vectors are points on a line; a node's level is a choice |
| `DataTypes` | `Containers`, `TimeSeries`, `Ranges`, `Cuckoo`, `Documents` and `Streams` side by side | a behaviour is of one family, because a key has one type |
| `Structures` | `Bits`, `Json` and `Vectors` side by side | apart from the former because their definitions are RECURSIVE or use `Bitwise` |
| `Lists` | the few operators on sequences that the data types need | they are `SequencesExt`'s; with all of that module in each of six instances a proof takes several times as long |
| `*MC` | values and symmetry for TLC, the settings of a run | |
| `KeyspaceProofs`, `DurabilityProofs`, `SubscriptionsProofs`, `SessionProofs`, `DataTypesProofs`, `ReplicationProofs`, `BlockingProofs` | theorems about the module each extends | section 4 |
| `Folding` | what a left fold over a sequence keeps, for any step | instantiated by the proofs about `Session`'s chunks and EXEC, `Durability`'s parser, and the folds of the data types: XREADGROUP, DOC.SEARCH, a chain of evictions, LREM, the rules of a series |

Correspondence. In `Keyspace`, `call` and `reply` are the command last served and its
answer; `events` are the keys the last step announced as expired. A handler is one step,
because Node runs it to completion; `Tick` is the clock, which may move between any two
handlers. Keys are those of one database: the server prefixes them with `{dbN}:` before
they get here.

In `Replication`, `links` are sockets between the follower and a master, from the master's
side and the follower's at once: `fed` is membership in `this.replicas`, `inbox` is what was
written and not yet handled. A link that ends loses its inbox. `setting` names the setting
of a behaviour, and `Given` is what that setting fixes: `events`, the classes of things that
may happen (`close`, `error` followed by `close`, `split`, where the connection ends between
FULLRESYNC and its snapshot, `restart`, `retarget` and `noone`), the commands sent, the
backlog's size, and the bounds. `Graceful` settings are those with `close` and `restart`
alone and commands that reach the log and a snapshot. SYNC is PSYNC with an identifier that
matches nothing. A streamed write is stored under its raw key, so the two stores are never
the same once something was streamed (`Server.js:905`; `PROTOCOL.md:392` says "Make server a
replica of another server"). `Mirrors` says what they are instead: the same writes, once and
in the same order, those of the snapshot under their keys and the others under raw ones;
`InStep` says it of the follower's store and what is in flight together (`Streamed`).

In `Durability`, `Write` is one logged or unlogged command; `AppendCommand` is the head of
the promise chain; a save is "copied" (the text is made in one turn), "writing" (the file
has been opened and so emptied) and done. Two saves that write at one time write at the same
places of one file: `others` are the copies of those a save overlapped, and `FinishSave`
leaves its own, no JSON, or one of the `Mixtures`, which have the keys of some databases as
one copy had them and the rest as another; `alone` marks a file no other save overlapped.
`SaveFails` and `AppendFails` are writes that the disk refuses, the latter perhaps after the
record's beginning. `Crash` may cut the append under way short (`torn`). `Start` loads the
snapshot, if one can be parsed, and replays the AOF on top; the parser of the replay is a
fold of `Parse`, in which a torn record swallows any number of those behind it and may be
run with their bytes (`Forged`). `setting` has the files that are kept, the faults, the
commands and databases in use, and the bound on writes; `LogAlone` says that it is the AOF
alone, logged commands, database 0 and no faults.

In `Session`, `wire` is what a client sent and the server has not read, `ServeChunk`
serves any number of these in one turn, `later` are calls whose answers come from a
promise or a timer. Its clients match answers to calls by order, as `sdk.js` does.

In `Streams`, an identifier `ms-seq` is a number: the code compares identifiers as strings,
and with times of equal length and one-digit sequences that is the order of the numbers.
The loop of XREADGROUP over a stream is a fold of `Offer`; `PlaceOf` is `findIndex`.

In `Client`, `client` is the fields of the `RedisClient` (`current` is `this.socket`,
`buffer` the parser's), `socket` the handlers on each socket and the server behind it,
`outcome` what each call's promise came to. `connect()` is part of whatever calls it;
`Opens`, `Refused`, `Data`, `Ends` and `Closes` are the events of a socket. `Data` takes a
prefix of what was sent, so an answer may be cut anywhere, and feeds it to the parser.

In `Subscriptions`, `Stored` keys are pairs of a database, or of no prefix, and a key;
`Places` is `_rewriteArgsForDb` for the commands used, `Named` is `_extractKeysForAcl`.
`told` has what a client was told: the channels confirmed, the last message on each, and its
cache. Each kind of command that changes keys without an invalidation or an event is there
by one of its members, on prefixed keys: PEXPIRE, LMOVE, SMOVE, which are no write commands,
BITOP, which is but whose keys `_extractKeysForAcl` does not know, GETDEL, MSET, SET with NX
or XX, a SET inside MULTI, FLUSHDB, and a lookup of a dead key (`Lookup`), which says
nothing where the timer's `Expire` does. The histories `uninvalidated` and `unannounced` are
the keys last changed by such; the next write that does invalidate, or announce, takes a key
out again. Tracked keys have the prefix before them twice, in the sets and in the messages
alike (`Server.js:800`, `:829`, `:1118`); a client takes both off, and the prefixes it gives
are those of whole databases, `{dbN}:`, or foreign ones.

In `Blocking`, `wait` is what the timer of a call closes over; `Tick` is one firing of it;
`conn` is "gone" after the client left and before the socket is destroyed here. `FirstFull`,
`Taken`, `Hand` and `PopFirst` are `tryPop`; an entry of the stream is told by its
place in it, and has an identifier (`Id`), which XADD * repeats within a millisecond; `Room`
is the bound on calls.

In `Bits`, offsets are below 0 too, where there is nothing to read and writes are lost;
`Number` rounds an answer to the nearest double; `Good` are the parts of a BITFIELD before
the first bad one, which stay applied though the answer is an error. In `Json`, `Step` is a
token of `_jsonGetAtPath`, `Found` is `_jsonResolveParent`, `Owns` and `Dropped` are
`hasOwnProperty` and `delete` or `splice`, and a hole is an item `Undefined`. In
`Documents`, `prefixed` are the documents under keys that begin with the index's prefix:
none, once the server has put `{dbN}:` before them, unless the PREFIX says `{dbN}:` itself.

In `TimeSeries`, `ApplyRules` is the loop over the rules of a series, a fold of `ApplyRule`;
`Told` is what a rule writes into its destination, `Bucket` what TS.RANGE gathers of one
bucket, from timestamp 0 on (from `-` the code's buckets start at NaN, section 6). `Create`
without RETENTION accepts a string; `CreateRule` accepts a destination of any type, and
makes both keys before it refuses. In `Ranges`, a number that is no double (`ExactIntegers`)
ends what `tally` counts; LREM is a fold of `Visit`.

In `Cuckoo`, `TimeSeries`, `Documents` and `Ranges` the variables `present`, `log`,
`indexed` and `tally` are histories for the properties alone. In `Vectors`, `Insert`,
`SearchLayer` and `GreedySearch` are the methods of `HnswIndex`; `Link` is the body of the
loop that connects a new node; a Set is the sequence of its members in the order of
insertion, for ties are decided by that order.

## 3. The runs

Passing:

| run | question | bounds and why they are enough |
|---|---|---|
| `keyspace` | Does every command answer, and change the keyspace, as if dead keys were not there (`ImplementsLogicalKeyspace`)? Does a deadline outlive its key? Does an `expired` event name a key that lives? | 2 keys (no handler relates three), 2 characters, values of length 1, 3 moments, seconds {-1, 0, 1}, milliseconds {-1, 0, 1, 3}: counts on both sides of every comparison. Keys and characters are symmetric; `call`, `reply`, `events` are outside the view since no guard reads them |
| `keyspace_purge` | Is every dead key reclaimed although nobody asks for it? | no symmetry, as it is a liveness run; only the purge timer is fair |
| `replication` | In any setting, does a master leave a write out of a stream, or put one in twice? In a graceful one, does the follower apply every write once and in order (the streamed ones under raw keys), is its resume point exact, is there one connection at a time, and does it catch up? | `Everything`: every event, 2 sockets, backlog 1, 3 writes, one of which may make the store unserializable, 1 loss. `Gracefully`: connections that only close and masters that restart, 1 socket, 4 writes against a backlog of 2, so that it overruns; 2 losses, 1 restart that may lose the last write |
| `durability` | With everything at once, is the file in order, is a readable snapshot that no other save overlapped one moment of the store, is BGSAVE's flag exact and never stuck? With the log alone, is what a restart finds a past of the store, with all that was on disk? | four settings, each with the bounds in `DurabilityMC`: `Logging` (the AOF, torn and refused appends, 2 databases, 3 writes), `Saving` (2 overlapping saves, refused ones and copies that throw, 2 databases, 2 writes), `Both` (both files, torn appends), `Alone` (the AOF alone, database 0, no faults (see 6), 5 writes); 2 crashes |
| `session` | Do writes take effect once, in order? Do answers belong to their calls, and is none forgotten? | 2 connections, 4 commands, one reconnect, a role that changes at will; commands that throw are left to `session_exec` |
| `client` | From call to answer, is a call in one place, sent once and not before earlier ones? Does it get its own answer, however the bytes are cut? Is every promise settled? | 3 calls, the last of them a pipeline, on up to 3 sockets, 2 faults out of six sets of them; a chunk leaves 0, 1 or 6 bytes behind, so that cuts fall inside a header, a body and between answers |
| `subscriptions` | Do the server's records by channel and by key agree with those by socket and with what clients were told? Is a tracked cache stale, or what events say of a key untrue, of any key but those last changed by what is known to send no invalidation, or no event? | 2 connections, 2 databases, 2 keys, 1 value and its absence, a channel of each kind, 5 commands: subscribe, read, write, leave and come back; three sets of circumstances |
| `blocking` | Does an element reach exactly one of those who wait, or pop, for it? Does a reader miss an entry, but for those with the identifier of the last it got? Is nil answered only when there was nothing in time? Does every wait end? | 2 clients against LPOP and each other, BLPOP of 2 lists and BRPOP of one, 2 elements, 3 calls, one second; timers fire in any order and as late as they like |
| `datatypes` | For each of six families: do the records it is made of agree with each other and with a reference definition? Does a command that fails touch more than one key, or take more than one element? Is a stream's entry handed out once by a group, and are only late ones passed over? | 2 keys, 2 members, scores and values; retention, buckets and ranges on both sides of every boundary; a cuckoo filter of 4 places for 4 items, 2 of which look the same; counters up to 2^4 where doubles are exact to 2^2, and steps of the first integer that is none; documents of 3 values; 2 streams (a read of both may fail on the second), a group, 2 consumers, 3 entries, COUNT 2, generated identifiers that repeat, a chosen one between them |
| `structures` | The same of bits, trees and graphs; and does a BITFIELD change bits outside its fields, or behind a bad part? | 2 keys; strings of 2 bytes of two bits, fields across both and from offset -1 on, doubles of 2 bits, so that wider fields are rounded; paths of names (a property, the numeral of 0, `length`), indexes and wildcards, with `$` and without, on both sides of every boundary; 3 vectors, 2 levels, 2 links each |

Violated, each a disagreement between the code and what it says of itself:

| run | property | what happens |
|---|---|---|
| `durability_both` | `RecoversSomePast` | (`DurabilityMC` with `BothFiles`) the AOF is replayed on top of a snapshot that has its writes already: INCR counts twice |
| `session_exec` | `OnceAndInOrder` | a queued command throws; what ran before it stays, the queue stays, and the next EXEC runs it again |

The properties of a run are often conjunctions of named parts, each with a comment of its
own in the module: `DataTypes` and `Structures` have one invariant per family, its parts in
the family's module. What the parts compare with, in these two runs: a sorted set's array
with its Map and ZRANGE with a filter over it; a rule's bucket with TS.RANGE; the filter
with what was added and deleted; the index with the documents as indexed; BITPOS with
BITCOUNT; BITFIELD's overflow with arithmetic modulo 2^width, and its answers with what it
stored; LTRIM, LINDEX and LREM with LRANGE; JSON.GET after JSON.SET, and wildcards with the
set of paths they stand for; a search through the graph with one through all vectors.

Deadlock is checked for the keyspace. The others stop when their bounds are used up, so
their configurations switch it off.

**Fairness.** `Keyspace`: `setInterval` fires for as long as the process lives, so the purge
is weakly fair; nothing is assumed of clients. `Replication`: the event loop, kept alive by
the listening socket, runs timers that are due and delivers what a socket received, so one
of `TimerFires`, `Connected`, `ServePsync` and `Deliver` happens sooner or later while any
can: one weak fairness condition, and only for graceful settings, the only ones of which
anything is asked; writes, losses, restarts and operators are not fair. `Durability`: the
timer of BGSAVE fires and file operations end while the process lives; no crash, restart or
client call is assumed. `Client`: the reconnect timer fires, an attempt that is not refused
succeeds, the server serves what arrived, bytes arrive and a connection that is closing
closes; that an application calls, or a fault happens, is not assumed, and faults are
bounded. `Blocking`: each polling timer fires, as `setInterval` does, and time passes.

Every property of a passing run has a mutant: an operator in the module, marked `Bug:`,
that changes one mapped definition as a plausible mistake would, and with which TLC finds
the property violated.

## 4. The proofs

TLAPS checks the following for every value of the constants, under each module's
`ConstantsAssumption`, or the assumptions of `DataTypes`, one for each family. These
assumptions fix the kinds of the constants (bounds are naturals, settings are records of the
right shape, database 0 exists, COUNT is positive, `Channel` has only channels there are)
and keep markers apart from values (`Raw` is no database, `Absent` no value, "none" no
socket); TLC evaluates each on the runs of its module. Every inductive invariant was
model-checked on a small instance before it was proved.

**Keyspace.**

* `KeyspaceInvariant`: `Spec => [](TypeOK /\ ExpiresOnlyHeldKeys)`, and from it
  `KeyspaceTypes`. The conjunction is inductive: typing is needed because whether a key is
  dead compares its deadline with the clock. All handlers end in `Finish`, so the argument
  is one lemma about `Finish`, two about what `Put` and `Drop` do to a pair of maps, and
  one step per handler.
* `KeyspaceEvents`: `Spec => ExpiredEventMeansGone`, from the same invariant: what the purge
  announces is the domain of `expires`, hence of `kv`.
* `KeyspaceRefinement`: `Spec => ImplementsLogicalKeyspace`. Two maps, some of whose keys
  are dead, represent one map of lives; each of the forty commands gives the abstract
  command's answer and leaves maps that represent its result, the clock's tick kills the
  same keys on both sides, and the purge is a stutter. The proof first failed for EXPIRE and
  PEXPIRE with a negative count, on which `LogicalKeyspace` was wrong; the run has such
  counts since.

**Durability.**

* `DurabilityTypes`: `Spec => []TypeOK`. What is needed beyond cases is that the parser, a
  fold, makes records of whatever the file holds.
* `LogKeepsOrder`: `Spec => []LogInOrder`, whatever faults there are. `LogInv` adds that no
  record is numbered past `written`; without it the next record could be out of order.
* `SnapshotKeepsOneMoment`: `Spec => []SnapshotIsOneMoment`, in every setting: of a file
  that no other save overlapped. `SnapshotInv` adds that the copy each save carries is a
  prefix of the store, that no copy survives a crash, and that without snapshots there is
  none: `Start` replaces the store, and the new one begins with the snapshot it loaded.
* `BgSaveFlagStaysExact`: `Spec => []BgSaveFlagIsExact`, for any number of savers. `FlagInv`
  states "at most one" without a cardinality.
* `LogIsTheHistory` (`Spec => []LogIsHistoryAlone`) and `RecoveryIsExact` (`Spec =>
  RecoveryIsExactAlone`): with `LogAlone`, through any number of crashes, the file and the
  chain are the history, and what a start finds is a past of the store with all that had
  reached the file. `HistoryInv` adds that records name database 0, since replay knows no
  other, and that none is torn. The property is false when any condition of `LogAlone` is
  dropped (section 6).

**Subscriptions.**

* `RegistrationsAlwaysAgree`: `Spec => []RegistrationsAgree`, that is the typing, the
  agreement of channels, sockets and confirmations, and the agreement of the readers of a
  key with the sockets. The invariant adds `ClosedHaveNone`, that a socket which is not
  open has no subscriptions: without it a client that connects again could find itself
  subscribed. Commands that register nobody are one lemma; UNSUBSCRIBE and the two cleanups
  share another, about a client that leaves channels.
* `CachesStayFresh`: `Spec => []CacheIsFresh`. `CacheOk` adds `Watching`: whoever caches a
  value is registered for its key, or for its prefix if it broadcasts (and then it has one,
  `Compares`), also while the key is one of `uninvalidated`, so that the next write that
  invalidates tells them.
* `EventsStayTrue`: `Spec => []EventsAreTrue`. `HeardOk` adds that who is not subscribed has
  heard nothing, so that nobody subscribes with an old event at hand. `PresenceKept` is the
  case of a step that says nothing of a key: it leaves the key's presence, or puts it among
  `unannounced`.

**Session.** `SessionInvariant`, `WritesTakeEffectInOrder`, `CallsGetTheirAnswers`: typing,
`OnceAndInOrder` and `CallsAreAnswered`, for any number of connections and commands, under
the hypothesis that "throw" is not a kind of command. The hypothesis is not for convenience:
the run `session_exec` violates `OnceAndInOrder` without it. The invariant speaks of a turn
that has served i commands of its chunk (`TurnOk(c, i, t)`): which calls are still on the
wire, queued, late or answered, and that the writes of a client in the store precede all of
those. With i = 0 that is the invariant of a connection; for the fold that serves a chunk,
and for the one in EXEC that runs the queue, it is what `Folding` asks to be kept.

**Data types.** All in `DataTypesProofs`: each family has an inductive invariant of its own,
and `family = "..." => ...` is what every step of `DataTypes` keeps.

* Streams: `PendingAlwaysMatches` (`Spec => []PendingMatchesConsumers`) and `GroupsReadOnce`
  (`Spec => []GroupsReadEachEntryOnce`). `StreamGood` adds that entries stand in the order
  they were added (`Placed`), that `lastId` is where the group began or the identifier of
  something added (`LastOk`), that what was handed out is below `lastId` (`GotOk`), and that
  an entry the group passed over came late (`FairOk`). `WaitsOk` is the agreement of the
  list and the consumers' maps, also for an entry that XCLAIM leaves with two of them.
  `StreamsAssumption`: identifiers and bounds are naturals, COUNT is positive.
* Document indexes: `DocumentIndexStaysExact` (`Spec => []DocumentIndexAgrees`). `DocsInv`
  says that both tables are a function of the documents as they were last indexed; that a
  search, a fold of intersections over its terms, finds exactly what matches is a lemma
  about that function. `DocumentsAssumption`: finitely many documents, prices are integers
  and the marker of a missing one is not.
* Cuckoo filters: `WhatIsAddedStaysThere` (`Spec => []FiltersFindWhatIsThere`), for any hash
  functions. `CuckooInv` counts: the two buckets of an item hold as many copies of its
  fingerprint as there are items that look like it, as long as no addition was refused and
  nobody deleted what was not there. That is inductive only if, during a chain of evictions,
  the fingerprint in hand counts with the bucket it is about to go to; and it rests on the
  alternative of an alternative being the first bucket, which holds since an index is a set
  of bits and XOR the symmetric difference. `FiltersAssumption`: finitely many items and
  bits.
* Counters, lists and ranges: `RangesAlwaysAgree` (`Spec => []RangesAgree`). `RangesInv`: an
  entry is of its type, a counter is what `tally` says, and where there is no counter
  `tally` is 0. The rest are lemmas about LTRIM, LREM, GETRANGE and SETRANGE for sequences
  of any length and indexes of any sign; LREM's is about the prefixes of its fold.
  `RangesAssumption`: finitely many keys, amounts of `Widest` bits.
* Time series: `SeriesAlwaysAgree` (`Spec => []SeriesAgree`). `StoreGood` speaks of a store,
  a log and the circumstances: entries are typed; unless a destination is shared, every rule
  has a destination to itself, which is no source and not ahead of its source's last bucket
  (`RulesApart`), for otherwise a bucket's start could be put after later samples; a series
  is the window of its log (`Window`); and with no circumstances at all a rule's state is,
  bucket by bucket, what TS.RANGE gathers since the rule, the destination lists those
  buckets in order, and logs have no timestamp twice (`RulesExact`). TS.ADD stores a sample
  and then folds over the rules: `Applied` says which rules are done, which wait and which
  one has failed. That the buckets come in the order of their starts needs the n-th least
  element of a set that grows at its end (`RankedGrows`). `SeriesAssumption`: timestamps and
  retentions are naturals, values integers, widths positive.
* `FailuresAlwaysTouchOneKey` (`Spec => FailuresTouchOneKey`), from the invariants above and
  one for containers (the store is a function), in every circumstance. A command that is
  answered an error has touched one key at most, and there lost no more than the member or
  element it took, made an empty set, or added the pairs before a bad one; LMOVE, from a
  list to another or to itself, keeps the number of occurrences of every element, but for
  the one it loses; a TS.ADD that fails has stored nothing, unless a rule's destination is
  no series (`retyped`).

**Replication.**

* `ReplicationTypes`: `Spec => []TypeOK`.
* `StreamsAreExact`: `Spec => []StreamIsExact`, in every setting. `LogGood`: the backlog is
  the end of the store. `StreamsGood`: an inbox begins with what is left of the answer to
  PSYNC (`Greets`), then come commands that are the end of the log, and a snapshot in front
  of them is the store without them (`Follows`).
* `FollowerStaysExact`: `Spec => []FollowerIsExactWhenGraceful`. `GracefulInv` adds to
  `SingleLink` that a follower without a master has no connection and remembers no future
  run (`KnownMaster`), that every registered socket is fed (`Serializable`), that a request
  under way asks for what the follower still remembers (`AsksForItsOwn`), that FULLRESYNC
  announces the offset of the snapshot behind it (`ReadsGood`), and that between
  resynchronisations the follower's commands are the master's up to that offset (`Resumes`).
  `Spaces` says where they are: the follower's store begins with keys of `db0` and goes on
  with raw ones (`Shaped`), and what a snapshot brings is all `db0` (`Brought`, `AllDb0`);
  with `Resumes` that makes it a mirror.

**Blocking.** `Delivery` (`Spec => []DeliveredOnce`), `AnswersAndCalls` (`Spec =>
[]AnswersMatchCalls`) and `NilOnlyLate` (`Spec => NilMeansNothingInTime`). The invariant
adds that elements are numbered in a row over the lists, the answers and what left
otherwise, so that a push is of something new (`ElementsOk`); that an answer holds one
element (`Single`); that identifiers do not decrease along the stream (`StreamOk`); that the
reads of a client follow each other, past nothing but twins (`Told`, `GoesOn`), with a
waiting one going on from the last (`ReadsWhere`); and that clients leave only where `gone`
is among the circumstances (`LeavingOk`), without which nothing is lost.

**Lemmas.** What a fold keeps (`FoldKeeps` of `Folding`) rests on the least element of a set
of naturals, a hypothesis of `Folding` that the modules which fold prove (`LeastNat`): the
library defines `FoldLeft` by recursion over subsets, and its induction theorems cannot be
instantiated. The others are about prefixes, appending, taking a place out of a sequence,
and maps with a key put or dropped, from `SequenceTheorems` and `FiniteSetTheorems`.

Only model-checked:

* `Client` and `Parser`: what a parser finds in bytes is a recursive function over their
  values, which would take an induction for each of the encoders.
* `Structures`: `Json` and `Vectors` follow the code's recursion with RECURSIVE operators,
  and `Bits` computes with `Bitwise`: the prover takes neither.
* `ContainersAgree`: that a sorted set's array holds what its Map holds, in order, through
  every command. It is within the prover's reach, and the largest piece left.
* `CallsAreKeptInOrder` of `Client`: nothing in its way but size.
* Liveness: `StaleKeysAreReclaimed`, `BgSaveEnds`, `CatchesUpWhenGraceful`, `WaitsEnd`,
  `EveryCallIsSettled`. Fairness and ENABLED are out of TLAPS's reach.

## 5. Not modelled

* HyperLogLog: an estimate, with no property of a count TLC could judge. Geo commands:
  floating-point geometry. INCRBYFLOAT, the average of time series and DOC.AGGREGATE:
  floating point as well, and nothing else.
* ACL: rules are evaluated in one turn, from a table no other part changes.
* Slow log, INFO, monitor, command-line client, embedders: they report, or are input and
  output. VEC.EMBEDADD is `VecAdd` of whatever the network answers.
* The order of promises of two concurrent SAVEs is any order. Wording, logging and the
  layout of files are left out of all modules; the bytes of RESP are in `Parser` only.
* A key of another type than its command expects, where all the command does is answer
  WRONGTYPE (JSON and vectors; the other families have such keys).

## 6. What the models show beyond the runs

Each of these follows from the modules when a constant is widened or a property is added.

Keys, strings and lists:

* A key that a command finds dead goes without an `expired` event (`_purgeIfExpired`);
  `USER_GUIDE.md:523` lists the event. Only the timer and EXPIRE announce.
* APPEND on a list leaves an entry of type list whose value is a string, after which LPUSH
  throws (`Entries!Appended`); `PROTOCOL.md:423` documents WRONGTYPE.
* RENAME of a key to itself deletes it; RPOPLPUSH and LMOVE to a destination that is not a
  list lose the element.
* A counter at 2^53 stays there: INCR is accepted and adds nothing. 2^63 is accepted as a
  sum, after which every INCR is refused. `Ranges!IncrBy` writes numbers exactly; near 2^63
  `String` gives rounded digits, which the check of 64 bits then may refuse on the negative
  side too: that is outside what `CountersAddUp` judges.

Replication:

* A reconnect timer set before REPLICAOF NO ONE makes the server a replica again: add
  `NoOneIsFinal` to the run and TLC finds it.
* A streamed write is stored under its raw key, where no client of the replica looks, so
  that master and follower hold different stores: `StreamedWritesAreVisible` fails with the
  first.
* A connection lost between FULLRESYNC and its snapshot leaves an offset for a store the
  follower never loaded, and CONTINUE then skips that store (in a setting with `split`
  `ResumePointIsExact` fails). `error` makes two connections (`SingleLink` fails), after
  which every write arrives twice. `retarget` leaves the former master feeding the store.
* A master that holds a stream answers FULLRESYNC and an error, for ever. That is why
  `GracefulSettings` leaves `Unserializable` commands out: with them
  `CatchesUpWhenGraceful` fails.

Persistence:

* Commands that write and are not in `_writeCommands` (PEXPIRE, EXPIREAT, RPOPLPUSH, SMOVE,
  the store forms of set commands, XREADGROUP, XCLAIM) are neither logged nor streamed: in
  `Alone` with `op |-> {"INCR", "PEXPIRE"}` `RecoversSomePast` fails.
  EXEC logs its writes but does not stream them.
* The AOF holds no SELECT and is replayed into database 0: in `Alone` with `db |-> {0, 1}`
  `RecoversSomePast` fails. A torn record may swallow some or all of those after it, or
  none, and may be executed with their bytes for its own: with `torn` among the faults
  `KeepsNumbers` is false of a start. A crash while a save rewrites the file loses the
  former one. Two saves that overlap may leave a readable mixture of their copies: without
  `alone` `SnapshotIsOneMoment` fails. `snapshot.js` cannot serialize a HyperLogLog either.

Connections and the client:

* An exception ends its chunk, and the pipelined calls behind it are never answered: with
  `"throw"` among the kinds `NoCallIsForgotten` and `AnswersMatchCalls` fail.
* SELECT inside MULTI takes effect at once, so EXEC runs the whole queue in the last
  database; EXEC checks neither the role nor the ACL.
* The SDK's parser keeps half an answer of a lost connection (`tear`); a publication that
  comes while calls are pending is taken for an answer (`push`); a call between `end` and
  `close` opens a second socket, and the late `close` of the first rejects its calls
  (`between`); a timer set before `disconnect()` connects again (`disconnect`). With any of
  these `AnswersMatchCalls` fails without its guard. `disconnect()` while a connect is under
  way is left out of `Client`. The reconnect timer is unref'ed (`sdk.js:130`), so it fires
  only while something else keeps the process alive; `EveryCallIsSettled` assumes that.
  UNSUBSCRIBE without subscriptions is answered by nothing.
* A refused AUTH never flushes the offline queue (`EveryCallIsSettled` with `bad password`).
  While AUTH is being answered a call overtakes the queue, and a pipeline made offline runs
  after it. A call whose connect fails is rejected but stays queued, and is executed later.
* Answers written by hand give the `$` length in characters (`Server.js:489`, `:518`,
  `:548`, `:570`), and the parser counts bytes.

Subscriptions and blocking:

* Keys of commands missing from `_rewriteArgsForDb` (GETDEL, RENAME, GETEX, the streams,
  CF.*) and every key of DEL and EXISTS but the first are not prefixed: `DEL k1 k2` deletes
  the raw `k2`, although `PROTOCOL.md:39` has it delete each. Its event and invalidation
  name `k1` only.
* Tracked keys are kept and named under a double prefix, `{db0}:{db0}:k` (`Server.js:800`,
  `:829`), on both sides alike; a client that looks for `k`, or for `{db0}:k`, finds none of
  its keys in an invalidation, and a PREFIX that goes beyond one `{dbN}:` matches nothing.
  BCAST without PREFIX invalidates nothing (`USER_GUIDE.md:501` shows it so).
* PEXPIRE and EXPIREAT, LMOVE, RPOPLPUSH, SMOVE, the S*STORE forms, GETDEL and the others
  that `_writeCommands` lacks invalidate nothing; nor do BITOP and PFMERGE, whose keys
  `_extractKeysForAcl` does not know; nor do expiries, FLUSHDB and what runs inside MULTI.
  Without `uninvalidated` `CacheIsFresh` fails.
* MSET, LMOVE, BITOP and what runs inside MULTI publish nothing, and a key that a lookup
  finds dead goes without an `expired` event. A SET with NX or XX that was not applied
  publishes `set` (`Server.js:782-783`). Without `unannounced` `WatchersKnowPresence` fails.
* XREAD from the last entry read misses those added behind it in its millisecond, since
  XADD * gives them its identifier.
* BLPOP and XREAD look up raw keys. A timeout of 0 gives up at the first tick. What a
  waiting call pops is neither logged, nor streamed, nor invalidated. A client whose
  departure is not yet noticed takes an element with it (`gone`). XREAD with a bad COUNT is
  answered an error and then once more.

Data types:

* SUNIONSTORE and its like put a Set into an entry of any type (`overwrite`); SMOVE to
  another type loses the member (`misplaced`); a destination is made before the sources are
  looked at (`bad source`); ZADD keeps the pairs before a bad score. A scan misses members
  when ones it has passed are removed.
* Time series: a sample that replaces another is counted twice by rules (`replaced`); a
  destination that has become a string makes TS.ADD throw after the sample is stored
  (`retyped`); TS.RANGE from `-` with AGGREGATION answers one NaN bucket; the destination's
  own retention is not applied.
* A cuckoo filter that refuses an addition has lost another item's fingerprint; filters lie
  beside `kv`, so DEL, FLUSHDB and snapshots do not know them.
* Document commands do not update the index, and INDEXADD ignores the prefix. INDEXREBUILD
  matches the PREFIX against keys with `{dbN}:` before them, so with a usual one it finds
  none and empties an index that was up to date (`DataStore.js:476`, `Server.js:1290-1294`,
  `:1332`).
* BITFIELD parts before a bad one stay applied though the answer is an error. An offset
  below 0 is accepted: what lies before the string is read as 0 and not written (SET u8 -3
  255 reads 31). Answers go through `Number`, which rounds fields of more than 53 bits; what
  is stored is exact.
* JSON: `$..a` is read as `$.a`, as one dot after the $ is dropped. A name that is missing
  under a wildcard answers null. Names lead into arrays: JSON.DEL `$.a.0` leaves a hole,
  NUMINCRBY `$.a.length` cuts the array or makes holes, and JSON.DEL `$.a.length` throws;
  JSON.DEL of `.` deletes a key of any type, and JSON.SET replaces its value but not its
  type; ARRTRIM with a stop before the beginning keeps the first element.
* Vectors: VEC.REBUILD without an index throws (`SimpleHnsw` is not defined); a vector added
  again may link to itself; links are cut on one side only, so that a node may become
  unreachable; the entry point may be left at a level its node no longer has.

Streams:

* XADD * generates the same identifier twice in a millisecond (a `lastSeq` of 0 counts as
  none), and a group that has read the first never hands out the second. XREADGROUP over two
  keys marks entries of the first as delivered although the second's error is all that is
  answered. XCLAIM leaves the entry with its former consumer too.

## 7. Plan

Order: most important behaviour first. Done: every module of section 2 and the theorems of
section 4, which state every invariant and every safety property of the runs but those of
`Client` and `Structures`, and `ContainersAgree`.

Next, proofs: `ContainersAgree`; `CallsAreKeptInOrder`, and the answers of `Client` with
tokens instead of bytes.

Next, models: `Replication` composed with `Durability` (a master that recovers, and its
follower); the registers of HyperLogLog under PFMERGE, which overwrites the destination's
own; every command's row of `_rewriteArgsForDb`.
