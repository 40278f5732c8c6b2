----------------------------- MODULE Replication -----------------------------
(***************************************************************************)
(* Server.js: masters that keep a backlog of their write commands and      *)
(* stream them to the sockets that asked with PSYNC, and one server that   *)
(* follows a master: it connects, asks, loads a snapshot or continues from *)
(* the offset it remembers, and schedules a new connection when one ends.  *)
(*                                                                         *)
(* A store is the sequence of the commands applied to it, each with the    *)
(* key space it was applied to: `db0' through the rewriting of keys every  *)
(* client command goes through, `raw' without it.  Every command is one    *)
(* unit of the byte stream.  A socket is a FIFO of messages that may end   *)
(* at any time, losing what was in flight.                                 *)
(***************************************************************************)
EXTENDS Integers, Sequences, FiniteSets, SequencesExt

CONSTANTS Master,        \* the servers that may be followed
          Cmd,           \* write commands clients send to masters
          Propagated,    \* those of _writeCommands; the others change the store only
          Unserializable,\* those that leave a value serializeStore does not know
          Link,          \* the follower's sockets
          Settings,      \* the settings to consider, by name
          MaxTimers,     \* bound: pending reconnect timers per master
          MaxRestarts    \* bound: restarts of a master

Events == {"close",     \* a connection ends and `close' is all that is emitted
           "error",     \* it fails: `error' is emitted, then `close'
           "split",     \* it may end between FULLRESYNC and the snapshot
           "restart",   \* a master restarts
           "retarget",  \* REPLICAOF is called while following
           "noone"}     \* REPLICAOF NO ONE is called

\* A setting: what happens, which commands are sent, how many of them the backlog holds
\* (replBacklogMaxBytes), and bounds: the sockets the follower has, the commands written
\* to a master, the connections lost.
Setting == [events : SUBSET Events, cmds : SUBSET Cmd, backlog : Nat \ {0},
            sockets : SUBSET Link, writes : Nat, losses : Nat]

ASSUME ConstantsAssumption ==
  /\ Propagated \subseteq Cmd /\ Unserializable \subseteq Cmd
  /\ \A s \in DOMAIN Settings : Settings[s] \in Setting
  /\ MaxTimers \in Nat /\ MaxRestarts \in Nat
  /\ "none" \notin Link

VARIABLES
  setting,        \* the name of the setting of this behaviour
  \* each master
  mstore,         \* its store
  log,            \* the commands replicationOffset counts: it is Len(log)
  runId,          \* how many processes it has been: with its name, this.runId
  \* the follower
  role,           \* this.role
  rstore,         \* its store
  masterRunId,    \* this.masterRunId
  applied,        \* this.replAppliedOffset
  current,        \* this.master: a link, or NoLink
  timers,         \* reconnects that setTimeout holds, by master
  links,          \* the sockets
  losses          \* connections lost so far

Given == Settings[setting]

vars ==
  <<setting, mstore, log, runId, role, rstore, masterRunId, applied, current, timers, links, losses>>
masterVars   == <<setting, mstore, log, runId>>
followerVars == <<role, rstore, masterRunId, applied, current>>

NoLink == "none"
NullId == <<>>
Id(m)  == <<m, runId[m]>>

Idle == [state |-> "idle"]
Connecting(m)      == [state |-> "connecting", to |-> m]
Asking(m, id, off) == [state |-> "asking", to |-> m, id |-> id, off |-> off]
\* `fed' is membership in the master's this.replicas.
Streaming(m, fed, q) == [state |-> "streaming", to |-> m, fed |-> fed, inbox |-> q]
Destroyed(m)       == [state |-> "destroyed", to |-> m]

\* Bug: the offset of the last byte is taken to be one less than their number.
FullOffByOne(id, off) == [kind |-> "FULLRESYNC", id |-> id, off |-> off - 1]
Full(id, off) == [kind |-> "FULLRESYNC", id |-> id, off |-> off]
Snapshot(s)   == [kind |-> "snapshot", store |-> s]
Continue      == [kind |-> "CONTINUE"]
Failure       == [kind |-> "error"]
Live(c)       == [kind |-> "command", cmd |-> c]

Applied(c, space) == [cmd |-> c, space |-> space]
In(state)         == {k \in Link : links[k].state = state}
\* Bug: a socket that has something left to send is passed over.
DrainedStreamsOf(m) ==
  {k \in In("streaming") : links[k].to = m /\ links[k].fed /\ links[k].inbox = <<>>}
StreamsOf(m)      == {k \in In("streaming") : links[k].to = m /\ links[k].fed}
------------------------------------------------------------------------------
(* The master *)

\* _appendToBacklog keeps the last bytes; its first one is this offset.
BacklogStart(m) == IF Len(log[m]) <= Given.backlog THEN 1 ELSE Len(log[m]) - Given.backlog + 1
Backlog(m)      == SubSeq(log[m], BacklogStart(m), Len(log[m]))

\* A write from a client: applied, appended to the backlog and written to every
\* socket in this.replicas.  A command outside _writeCommands is only applied.
Write(m, c) ==
  /\ c \in Given.cmds /\ Len(mstore[m]) < Given.writes
  /\ mstore' = [mstore EXCEPT ![m] = Append(@, Applied(c, "db0"))]
  /\ IF c \in Propagated
     THEN /\ log' = [log EXCEPT ![m] = Append(@, c)]
          /\ links' = [k \in Link |->
               IF k \in StreamsOf(m)
               THEN [links[k] EXCEPT !.inbox = Append(@, Live(c))] ELSE links[k]]
     ELSE UNCHANGED <<log, links>>
  /\ UNCHANGED <<setting, runId, followerVars, timers, losses>>

\* Bug: an offset one too old for the backlog is accepted.
CanContinueEarly(m, id, off) ==
  id = Id(m) /\ off >= BacklogStart(m) - 2 /\ off <= Len(log[m])
CanContinue(m, id, off) ==
  id = Id(m) /\ off >= BacklogStart(m) - 1 /\ off <= Len(log[m])

CanSerialize(s) == \A i \in DOMAIN s : s[i].cmd \notin Unserializable

\* PSYNC: the rest of the backlog, or the whole store.  FULLRESYNC is written before
\* the store is serialized; when that throws, the socket is not registered.
ServePsync(k) ==
  /\ links[k].state = "asking"
  /\ LET m == links[k].to
         skip == links[k].off + 1 - BacklogStart(m)
         rest == SubSeq(Backlog(m), (IF skip > 0 THEN skip ELSE 0) + 1, Len(Backlog(m)))
         full == Full(Id(m), Len(log[m]))
     IN  links' = [links EXCEPT ![k] =
           CASE CanContinue(m, links[k].id, links[k].off) ->
                  Streaming(m, TRUE, <<Continue>> \o [i \in DOMAIN rest |-> Live(rest[i])])
             [] ~CanContinue(m, links[k].id, links[k].off) /\ CanSerialize(mstore[m]) ->
                  Streaming(m, TRUE, <<full, Snapshot(mstore[m])>>)
             [] OTHER -> Streaming(m, FALSE, <<full, Failure>>)]
  /\ UNCHANGED <<masterVars, followerVars, timers, losses>>

\* The process of a master ends and a new one starts: it recovers its store,
\* perhaps without the last write, under a new run id and with no backlog.
Restart(m) ==
  /\ "restart" \in Given.events /\ runId[m] <= MaxRestarts
  /\ \A k \in Link : links[k] # Idle => links[k].to # m
  /\ \E n \in {Len(mstore[m]) - 1, Len(mstore[m])} \cap Nat :
       mstore' = [mstore EXCEPT ![m] = SubSeq(@, 1, n)]
  /\ runId' = [runId EXCEPT ![m] = @ + 1]
  /\ log' = [log EXCEPT ![m] = <<>>]
  /\ UNCHANGED <<setting, followerVars, timers, links, losses>>
------------------------------------------------------------------------------
(* The follower *)

\* _becomeReplica: the role changes and a connection is started; one that this
\* replaces in this.master stays open, with its handlers.
BecomeReplica(m) ==
  \E k \in In("idle") \cap Given.sockets :
    /\ links' = [links EXCEPT ![k] = Connecting(m)]
    /\ role' = "replica" /\ current' = k

ReplicaOf(m) ==
  /\ current = NoLink \/ "retarget" \in Given.events
  /\ BecomeReplica(m)
  /\ UNCHANGED <<masterVars, rstore, masterRunId, applied, timers, losses>>

\* The timer does not look at the role again.
TimerFires(m) ==
  /\ timers[m] > 0 /\ timers' = [timers EXCEPT ![m] = @ - 1]
  /\ BecomeReplica(m)
  /\ UNCHANGED <<masterVars, rstore, masterRunId, applied, losses>>

\* On `connect': ask for what follows the offset remembered, -1 for none.
Connected(k) ==
  /\ links[k].state = "connecting"
  /\ links' = [links EXCEPT ![k] =
       Asking(links[k].to, masterRunId, IF applied >= 0 THEN applied ELSE -1)]
  /\ UNCHANGED <<masterVars, followerVars, timers, losses>>

OffsetAfter == (IF applied >= 0 THEN applied ELSE 0) + 1

\* On `data': one message is handled.
Deliver(k) ==
  /\ links[k].state = "streaming" /\ links[k].inbox # <<>>
  /\ links' = [links EXCEPT ![k].inbox = Tail(@)]
  /\ LET msg == Head(links[k].inbox) IN
       CASE msg.kind = "FULLRESYNC" ->
              masterRunId' = msg.id /\ applied' = msg.off /\ UNCHANGED rstore
         [] msg.kind \in {"CONTINUE", "error"} -> UNCHANGED <<masterRunId, applied, rstore>>
         [] msg.kind = "snapshot" ->
              rstore' = msg.store /\ UNCHANGED <<masterRunId, applied>>
         [] msg.kind = "command" ->
              /\ rstore' = Append(rstore, Applied(msg.cmd, "raw"))
              /\ applied' = OffsetAfter
              /\ UNCHANGED masterRunId
  /\ UNCHANGED <<masterVars, role, current, timers, losses>>

\* Bug: the test of the role is the wrong way round.
ScheduleAsMaster(m, n) ==
  IF role = "master"
  THEN /\ timers[m] + n <= MaxTimers
       /\ timers' = [timers EXCEPT ![m] = @ + n]
  ELSE UNCHANGED timers

\* _scheduleReplReconnect, called n times: nothing when no longer a replica.
ScheduleReconnect(m, n) ==
  IF role = "replica"
  THEN /\ timers[m] + n <= MaxTimers
       /\ timers' = [timers EXCEPT ![m] = @ + n]
  ELSE UNCHANGED timers

\* Between FULLRESYNC and its snapshot only when the two come in separate chunks.
BetweenResync(k) ==
  links[k].state = "streaming" /\ links[k].inbox # <<>> /\ Head(links[k].inbox).kind = "snapshot"

\* A connection ends: `close' alone, or `error' and then `close', each with a handler
\* that schedules a reconnect.
Lose(k) ==
  /\ links[k].state \in {"connecting", "asking", "streaming"}
  /\ BetweenResync(k) => "split" \in Given.events
  /\ losses < Given.losses /\ losses' = losses + 1
  /\ \/ "close" \in Given.events /\ links[k].state # "connecting"
        /\ ScheduleReconnect(links[k].to, 1)
     \/ "error" \in Given.events /\ ScheduleReconnect(links[k].to, 2)
  /\ links' = [links EXCEPT ![k] = Idle]
  /\ UNCHANGED <<masterVars, followerVars>>

\* REPLICAOF NO ONE destroys the current connection; timers stay.
NoOne ==
  /\ "noone" \in Given.events
  /\ role' = "master" /\ current' = NoLink
  /\ masterRunId' = NullId /\ applied' = -1
  /\ links' = [k \in Link |-> IF k = current /\ links[k] # Idle
                              THEN Destroyed(links[k].to) ELSE links[k]]
  /\ UNCHANGED <<masterVars, rstore, timers, losses>>

\* The `close' of a destroyed connection comes later.
DestroyedCloses(k) ==
  /\ links[k].state = "destroyed"
  /\ ScheduleReconnect(links[k].to, 1)
  /\ links' = [links EXCEPT ![k] = Idle]
  /\ UNCHANGED <<masterVars, followerVars, losses>>
------------------------------------------------------------------------------
Init ==
  /\ setting \in DOMAIN Settings
  /\ mstore = [m \in Master |-> <<>>] /\ log = [m \in Master |-> <<>>]
  /\ runId = [m \in Master |-> 1]
  /\ role = "master" /\ rstore = <<>> /\ masterRunId = NullId /\ applied = -1
  /\ current = NoLink /\ timers = [m \in Master |-> 0]
  /\ links = [k \in Link |-> Idle] /\ losses = 0

Next ==
  \/ \E m \in Master, c \in Cmd : Write(m, c)
  \/ \E m \in Master : Restart(m) \/ ReplicaOf(m) \/ TimerFires(m)
  \/ \E k \in Link : ServePsync(k) \/ Connected(k) \/ Deliver(k) \/ Lose(k) \/ DestroyedCloses(k)
  \/ NoOne

Spec == Init /\ [][Next]_vars

\* The settings in which a follower stays in step: connections are made and end with
\* `close' alone (one that is refused or fails emits `error' before it and schedules two
\* reconnects), the only process that ends is a master's, and a store can be serialized.
GracefulSettings ==
  {s \in DOMAIN Settings : /\ Settings[s].events \subseteq {"close", "restart"}
                          /\ Settings[s].cmds \subseteq Propagated \ Unserializable}
Graceful == setting \in GracefulSettings

\* Node runs timers that are due, and sockets deliver: the server itself keeps the
\* event loop alive.  No more is asked of it than in the setting where it is of use.
Fairness ==
  WF_vars(Graceful /\ (\/ \E m \in Master : TimerFires(m)
                      \/ \E k \in Link : ServePsync(k) \/ Connected(k) \/ Deliver(k)))
FairSpec == Spec /\ Fairness
------------------------------------------------------------------------------
(* Properties *)

StoreType == Seq([cmd : Cmd, space : {"db0", "raw"}])
IdType    == {NullId} \cup (Master \X Nat)
MsgType   == [kind : {"FULLRESYNC"}, id : IdType, off : Nat]
        \cup [kind : {"snapshot"}, store : StoreType]
        \cup [kind : {"CONTINUE", "error"}] \cup [kind : {"command"}, cmd : Cmd]
LinkType  == {Idle} \cup [state : {"connecting", "destroyed"}, to : Master]
        \cup [state : {"asking"}, to : Master, id : IdType, off : Int]
        \cup [state : {"streaming"}, to : Master, fed : BOOLEAN, inbox : Seq(MsgType)]

\* The types of the variables.
TypeOK ==
  /\ setting \in DOMAIN Settings
  /\ mstore \in [Master -> StoreType] /\ log \in [Master -> Seq(Cmd)]
  /\ runId \in [Master -> Nat] /\ role \in {"master", "replica"}
  /\ rstore \in StoreType /\ masterRunId \in IdType /\ applied \in Int
  /\ current \in Link \cup {NoLink} /\ timers \in [Master -> Nat]
  /\ links \in [Link -> LinkType] /\ losses \in Nat

Cmds(s)        == [i \in DOMAIN s |-> s[i].cmd]
SnapshotsIn(q) == {i \in DOMAIN q : q[i].kind = "snapshot"}
Resyncing(q)   == SnapshotsIn(q) # {}

\* The commands on a socket: what comes behind the last message of another kind.
Greeting(q) == Max({0} \cup {i \in DOMAIN q : q[i].kind # "command"})
LiveCmds(q) == [i \in 1 .. Len(q) - Greeting(q) |-> q[Greeting(q) + i].cmd]

\* What the master has put on a socket is, whenever it is looked at, either the end
\* of its log or a snapshot and exactly the writes after it: answering PSYNC and
\* registering the socket leave no write out and send none twice.
StreamIsExact ==
  \A k \in In("streaming") : links[k].fed /\ Given.cmds \subseteq Propagated =>
    LET q == links[k].inbox
        m == links[k].to
    IN  IF Resyncing(q)
        THEN \A i \in SnapshotsIn(q) : Cmds(q[i].store) \o LiveCmds(q) = Cmds(mstore[m])
        ELSE IsSuffix(LiveCmds(q), log[m])

\* A streamed command is applied without the rewriting of keys, so the two stores are not
\* the same: of the store t its first n writes are where they were made, the others are
\* under their raw keys.
Moved(t, n)   == [i \in DOMAIN t |-> IF i <= n THEN t[i] ELSE Applied(t[i].cmd, "raw")]
Mirrors(s, t) == \E n \in 0 .. Len(t) : s = Moved(t, n)
Streamed(q)   == [i \in DOMAIN LiveCmds(q) |-> Applied(LiveCmds(q)[i], "raw")]

\* Once what is in flight is delivered the follower has each of its master's writes once
\* and in their order: those its snapshot brought under the keys they were made to, those
\* that were streamed under the raw ones.
InStep ==
  \A k \in In("streaming") :
    ~Resyncing(links[k].inbox) =>
      Mirrors(rstore \o Streamed(links[k].inbox), mstore[links[k].to])

\* The pair (run id, offset) the follower remembers says exactly which of the
\* master's writes its store has: this is what makes CONTINUE safe.  It is judged
\* while no snapshot is on its way.
ResumePointIsExact ==
  \A m \in Master :
    masterRunId = Id(m) /\ (\A k \in StreamsOf(m) : ~Resyncing(links[k].inbox)) =>
      /\ IsPrefix(Cmds(rstore), Cmds(mstore[m]))
      /\ Len(rstore) = Len(mstore[m]) - Len(log[m]) + applied

\* There is one connection to the master, or one timer that will make it.
Open == {k \in Link : links[k] # Idle}
Due  == {m \in Master : timers[m] > 0}
SingleLink ==
  /\ \A j, k \in Open : j = k
  /\ \A m, n \in Due : m = n /\ timers[m] = 1
  /\ Open = {} \/ Due = {}

\* With connections that are made at once and end by `close' (a refused one emits `error'
\* too): the follower's store and what is in flight hold each write of the master once and
\* in order, the streamed ones under raw keys; the pair a follower remembers says which
\* writes it has; and there is one connection or one timer that makes it.
FollowerIsExactWhenGraceful == Graceful => InStep /\ ResumePointIsExact /\ SingleLink

\* With such connections the follower ends up having applied all that its master has, once
\* and in order, though what was streamed under raw keys: connections lost, masters
\* restarted and backlogs overrun only delay it.
CatchesUp == \A m \in Master : <>[](role = "replica" => Mirrors(rstore, mstore[m]))
CatchesUpWhenGraceful == Graceful => CatchesUp

\* PROTOCOL.md:396, of REPLICAOF NO ONE: "Stop replication, become master."  So only
\* another REPLICAOF makes the server a replica again.
NoOneIsFinal ==
  [][role = "master" /\ role' = "replica" => \E m \in Master : ReplicaOf(m)]_vars

\* PROTOCOL.md:392, of REPLICAOF host port: "Make server a replica of another server."
\* A replica holds its master's data: a write that was streamed is found under the key it
\* was made to.  No run checks it: it fails with the first command that is streamed.
StreamedWritesAreVisible == \A i \in DOMAIN rstore : rstore[i].space = "db0"
==============================================================================
