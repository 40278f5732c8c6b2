-------------------------- MODULE ReplicationProofs --------------------------
(***************************************************************************)
(* For any masters, sockets, commands, backlogs and settings: the          *)
(* variables have their types, and what a master streams to a registered   *)
(* socket is exactly what its receiver misses.  In the settings where      *)
(* connections end with `close' and only masters restart, the follower's   *)
(* store and what is in flight hold each of its master's writes once and   *)
(* in order, those it was streamed under their raw keys, the pair it       *)
(* remembers says which writes it has, and it makes one connection.        *)
(***************************************************************************)
EXTENDS Replication, SequenceTheorems, TLAPS

\* Every command that is sent reaches the log.
AllLogged == Given.cmds \subseteq Propagated

\* The log is the end of the store.
LogGood(lg, st) ==
  Len(lg) <= Len(st) /\ \A j \in 1 .. Len(lg) : lg[j] = st[Len(st) - Len(lg) + j].cmd

\* s is all of t but its last n commands.
Reaches(s, t, n) ==
  n >= 0 /\ Len(s) + n = Len(t) /\ \A j \in 1 .. Len(s) : s[j].cmd = t[j].cmd

\* The first h messages are what PSYNC was answered with, or what is left of it.
Greets(q, h) ==
  /\ h \in 0 .. 2 /\ h <= Len(q)
  /\ \A i \in 1 .. Len(q) : q[i].kind = "command" <=> h < i
  /\ h = 1 => q[1].kind \in {"CONTINUE", "snapshot"}
  /\ h = 2 => q[1].kind = "FULLRESYNC" /\ q[2].kind = "snapshot"

Brings(q, h) == h # 0 /\ q[h].kind = "snapshot"

\* The others are the end of the log, and with a snapshot they lead to the store.
Follows(q, h, lg, st) ==
  /\ Len(q) - h <= Len(lg)
  /\ \A i \in 1 .. Len(q) : h < i => q[i].cmd = lg[Len(lg) - Len(q) + i]
  /\ Brings(q, h) => Reaches(q[h].store, st, Len(q) - h)

Fed(k) == links[k].state = "streaming" /\ links[k].fed

StreamsGood ==
  \A k \in Link : Fed(k) =>
    \E h \in 0 .. 2 : /\ Greets(links[k].inbox, h)
                      /\ Follows(links[k].inbox, h, log[links[k].to], mstore[links[k].to])

\* The parts of the invariant for the settings that are graceful: connections and timers,
KnownMaster ==
  /\ current = NoLink => Open = {} /\ Due = {}
  /\ \A m \in Master : masterRunId \in {m} \X Nat => masterRunId[2] <= runId[m]

\* what a store holds and who is fed,
Serializable ==
  /\ \A m \in Master : CanSerialize(mstore[m])
  /\ \A k \in Link : links[k].state = "streaming" => links[k].fed

\* a request that is under way,
AsksForItsOwn ==
  \A k \in Link : links[k].state = "asking" =>
    links[k].id = masterRunId /\ links[k].off = (IF applied >= 0 THEN applied ELSE -1)

\* what the follower remembers while it reads an inbox,
Reads(q, h, m) ==
  /\ h = 2 => q[1].id = Id(m) /\ q[1].off = Len(log[m]) - (Len(q) - 2)
  /\ h < 2 => masterRunId = Id(m) /\ applied >= 0
  /\ h = 1 /\ Brings(q, h) => applied = Len(log[m]) - (Len(q) - 1)
  /\ ~Brings(q, h) => Reaches(rstore, mstore[m], Len(q) - h)

ReadsGood ==
  \A k \in Link : links[k].state = "streaming" =>
    \A h \in 0 .. 2 : Greets(links[k].inbox, h) => Reads(links[k].inbox, h, links[k].to)

\* and between connections.
Resumes ==
  \A m \in Master :
    masterRunId = Id(m) /\ (\A k \in Link : BetweenResync(k) => links[k].to # m) =>
      Reaches(rstore, mstore[m], Len(log[m]) - applied)

GracefulInv == SingleLink /\ KnownMaster /\ Serializable /\ AsksForItsOwn /\ ReadsGood /\ Resumes

\* Where commands are applied: those of masters, and so of their snapshots, to database 0;
\* a follower's store is a snapshot and then what was streamed.
AllDb0(s) == \A i \in 1 .. Len(s) : s[i].space = "db0"

Shaped(s) ==
  \E n \in 0 .. Len(s) : \A i \in 1 .. Len(s) : s[i].space = IF i <= n THEN "db0" ELSE "raw"

Brought(q) == \A i \in 1 .. Len(q) : q[i].kind = "snapshot" => AllDb0(q[i].store)

Spaces ==
  /\ \A m \in Master : AllDb0(mstore[m])
  /\ \A k \in Link : links[k].state = "streaming" => Brought(links[k].inbox)
  /\ Shaped(rstore)

IInv ==
  /\ TypeOK /\ Spaces
  /\ AllLogged => (\A m \in Master : LogGood(log[m], mstore[m])) /\ StreamsGood
  /\ Graceful => GracefulInv
------------------------------------------------------------------------------
(* Links and messages of each kind *)

LEMMA LinkKinds ==
  ASSUME NEW l \in LinkType
  PROVE  /\ l.state \in {"idle", "connecting", "destroyed", "asking", "streaming"}
         /\ l.state = "idle" <=> l = Idle
         /\ l.state = "connecting" => l = Connecting(l.to)
         /\ l.state = "destroyed" => l = Destroyed(l.to)
         /\ l.state = "asking" => l.id \in IdType /\ l.off \in Int /\ l = Asking(l.to, l.id, l.off)
         /\ l.state = "streaming" => /\ l.fed \in BOOLEAN /\ l.inbox \in Seq(MsgType)
                                     /\ l = Streaming(l.to, l.fed, l.inbox)
         /\ l.state # "idle" => l.to \in Master
<1>1. CASE l = Idle
  BY <1>1 DEF Idle
<1>2. CASE l \in [state : {"connecting", "destroyed"}, to : Master]
  BY <1>2 DEF Idle, Connecting, Destroyed
<1>3. CASE l \in [state : {"asking"}, to : Master, id : IdType, off : Int]
  BY <1>3 DEF Idle, Asking
<1>4. CASE l \in [state : {"streaming"}, to : Master, fed : BOOLEAN, inbox : Seq(MsgType)]
  BY <1>4 DEF Idle, Streaming
<1> QED BY <1>1, <1>2, <1>3, <1>4 DEF LinkType

LEMMA LinksAre ==
  /\ Idle \in LinkType /\ Idle.state = "idle"
  /\ \A m \in Master : /\ Connecting(m) \in LinkType /\ Connecting(m).state = "connecting"
                       /\ Destroyed(m) \in LinkType /\ Destroyed(m).state = "destroyed"
                       /\ Connecting(m).to = m /\ Destroyed(m).to = m
<1>1. Idle \in LinkType /\ Idle.state = "idle"
  BY DEF LinkType, Idle
<1>2. ASSUME NEW m \in Master
      PROVE  /\ Connecting(m) \in LinkType /\ Connecting(m).state = "connecting"
             /\ Destroyed(m) \in LinkType /\ Destroyed(m).state = "destroyed"
             /\ Connecting(m).to = m /\ Destroyed(m).to = m
  BY DEF LinkType, Connecting, Destroyed
<1> QED BY <1>1, <1>2

LEMMA AskingIs ==
  ASSUME NEW m \in Master, NEW id \in IdType, NEW off \in Int
  PROVE  /\ Asking(m, id, off) \in LinkType /\ Asking(m, id, off).state = "asking"
         /\ Asking(m, id, off).to = m /\ Asking(m, id, off).id = id /\ Asking(m, id, off).off = off
BY DEF LinkType, Asking

LEMMA StreamingIs ==
  ASSUME NEW m \in Master, NEW fed \in BOOLEAN, NEW q \in Seq(MsgType)
  PROVE  /\ Streaming(m, fed, q) \in LinkType /\ Streaming(m, fed, q).state = "streaming"
         /\ Streaming(m, fed, q).to = m /\ Streaming(m, fed, q).fed = fed
         /\ Streaming(m, fed, q).inbox = q
BY DEF LinkType, Streaming

LEMMA MessageKinds ==
  ASSUME NEW msg \in MsgType
  PROVE  /\ msg.kind \in {"FULLRESYNC", "snapshot", "CONTINUE", "error", "command"}
         /\ msg.kind = "FULLRESYNC" => msg.id \in IdType /\ msg.off \in Nat
         /\ msg.kind = "snapshot" => msg.store \in StoreType
         /\ msg.kind = "command" => msg.cmd \in Cmd
<1>1. CASE msg \in [kind : {"FULLRESYNC"}, id : IdType, off : Nat]
  BY <1>1
<1>2. CASE msg \in [kind : {"snapshot"}, store : StoreType]
  BY <1>2
<1>3. CASE msg \in [kind : {"CONTINUE", "error"}]
  BY <1>3
<1>4. CASE msg \in [kind : {"command"}, cmd : Cmd]
  BY <1>4
<1> QED BY <1>1, <1>2, <1>3, <1>4 DEF MsgType

LEMMA MessagesAre ==
  /\ Continue \in MsgType /\ Continue.kind = "CONTINUE"
  /\ Failure \in MsgType /\ Failure.kind = "error"
  /\ \A c \in Cmd : Live(c) \in MsgType /\ Live(c).kind = "command" /\ Live(c).cmd = c
  /\ \A s \in StoreType : /\ Snapshot(s) \in MsgType /\ Snapshot(s).kind = "snapshot"
                          /\ Snapshot(s).store = s
<1>1. /\ Continue \in MsgType /\ Continue.kind = "CONTINUE"
      /\ Failure \in MsgType /\ Failure.kind = "error"
  BY DEF MsgType, Continue, Failure
<1>2. ASSUME NEW c \in Cmd PROVE Live(c) \in MsgType /\ Live(c).kind = "command" /\ Live(c).cmd = c
  BY DEF MsgType, Live
<1>3. ASSUME NEW s \in StoreType
      PROVE  Snapshot(s) \in MsgType /\ Snapshot(s).kind = "snapshot" /\ Snapshot(s).store = s
  BY DEF MsgType, Snapshot
<1> QED BY <1>1, <1>2, <1>3

LEMMA FullIs ==
  ASSUME NEW id \in IdType, NEW off \in Nat
  PROVE  /\ Full(id, off) \in MsgType /\ Full(id, off).kind = "FULLRESYNC"
         /\ Full(id, off).id = id /\ Full(id, off).off = off
BY DEF MsgType, Full

LEMMA AppliedIs ==
  ASSUME NEW c \in Cmd, NEW space \in {"db0", "raw"}
  PROVE  /\ Applied(c, space) \in [cmd : Cmd, space : {"db0", "raw"}]
         /\ Applied(c, space).cmd = c
BY DEF Applied

LEMMA NoLinkIsNone == NoLink \notin Link
BY ConstantsAssumption DEF ConstantsAssumption, NoLink

\* What the typing of the variables says of the setting, a master and a link.
LEMMA Typed ==
  ASSUME TypeOK
  PROVE  /\ setting \in DOMAIN Settings
         /\ Given.cmds \subseteq Cmd /\ Given.backlog \in Nat \ {0} /\ Given.sockets \subseteq Link
         /\ \A m \in Master : /\ mstore[m] \in StoreType /\ log[m] \in Seq(Cmd) /\ runId[m] \in Nat
                              /\ Len(mstore[m]) \in Nat /\ Len(log[m]) \in Nat
                              /\ Id(m) \in IdType /\ timers[m] \in Nat
         /\ \A k \in Link : links[k] \in LinkType
<1>1. setting \in DOMAIN Settings
  BY DEF TypeOK
<1>2. Given \in Setting
  BY <1>1, ConstantsAssumption DEF ConstantsAssumption, Given
<1>3. ASSUME NEW m \in Master
      PROVE  /\ mstore[m] \in StoreType /\ log[m] \in Seq(Cmd) /\ runId[m] \in Nat
             /\ Len(mstore[m]) \in Nat /\ Len(log[m]) \in Nat
             /\ Id(m) \in IdType /\ timers[m] \in Nat
  <2>1. mstore[m] \in StoreType /\ log[m] \in Seq(Cmd) /\ runId[m] \in Nat /\ timers[m] \in Nat
    BY DEF TypeOK
  <2>2. Len(mstore[m]) \in Nat /\ Len(log[m]) \in Nat
    BY <2>1, LenProperties DEF StoreType
  <2>3. Id(m) \in IdType
    BY <2>1 DEF Id, IdType
  <2> QED BY <2>1, <2>2, <2>3
<1>4. \A k \in Link : links[k] \in LinkType
  BY DEF TypeOK
<1> QED BY <1>1, <1>2, <1>3, <1>4 DEF Setting
------------------------------------------------------------------------------
(* What is on a socket *)

LEMMA InboxIs ==
  ASSUME NEW q \in Seq(MsgType)
  PROVE  Len(q) \in Nat /\ DOMAIN q = 1 .. Len(q) /\ \A i \in 1 .. Len(q) : q[i] \in MsgType
BY LenProperties, ElementOfSeq

LEMMA StoreIs ==
  ASSUME NEW s \in StoreType
  PROVE  Len(s) \in Nat /\ DOMAIN s = 1 .. Len(s) /\ \A i \in 1 .. Len(s) : s[i].cmd \in Cmd
<1>1. Len(s) \in Nat /\ DOMAIN s = 1 .. Len(s)
  BY LenProperties DEF StoreType
<1>2. \A i \in 1 .. Len(s) : s[i] \in [cmd : Cmd, space : {"db0", "raw"}]
  BY ElementOfSeq DEF StoreType
<1> QED BY <1>1, <1>2

LEMMA OneGreeting ==
  ASSUME NEW q \in Seq(MsgType), NEW h, Greets(q, h), NEW g, Greets(q, g)
  PROVE  h = g
<1>1. Len(q) \in Nat /\ h \in 0 .. 2 /\ g \in 0 .. 2 /\ h <= Len(q) /\ g <= Len(q)
  BY InboxIs DEF Greets
<1>2. CASE h < g
  <2>1. g \in 1 .. Len(q) /\ ~(g < g)
    BY <1>1, <1>2
  <2> QED BY <1>2, <2>1 DEF Greets
<1>3. CASE g < h
  <2>1. h \in 1 .. Len(q) /\ ~(h < h)
    BY <1>1, <1>3
  <2> QED BY <1>3, <2>1 DEF Greets
<1> QED BY <1>1, <1>2, <1>3

LEMMA StoreGrows ==
  ASSUME NEW st \in StoreType, NEW c \in Cmd, NEW space \in {"db0", "raw"}
  PROVE  /\ Append(st, Applied(c, space)) \in StoreType
         /\ Len(Append(st, Applied(c, space))) = Len(st) + 1
         /\ \A i \in 1 .. Len(st) : Append(st, Applied(c, space))[i] = st[i]
         /\ Append(st, Applied(c, space))[Len(st) + 1].cmd = c
<1>1. Applied(c, space) \in [cmd : Cmd, space : {"db0", "raw"}] /\ Applied(c, space).cmd = c
  BY AppliedIs
<1>2. Len(st) \in Nat
  BY StoreIs
<1> DEFINE e == Applied(c, space)
           t == Append(st, e)
<1> HIDE DEF e
<1>3. /\ t \in StoreType /\ Len(t) = Len(st) + 1 /\ t[Len(st) + 1] = e
      /\ \A i \in 1 .. Len(st) : t[i] = st[i]
  BY <1>1, <1>2, AppendProperties DEF StoreType, e
<1> QED BY <1>1, <1>3 DEF e

LEMMA LogGrows ==
  ASSUME NEW lg \in Seq(Cmd), NEW c \in Cmd
  PROVE  /\ Append(lg, c) \in Seq(Cmd) /\ Len(Append(lg, c)) = Len(lg) + 1
         /\ \A i \in 1 .. Len(lg) : Append(lg, c)[i] = lg[i]
         /\ Append(lg, c)[Len(lg) + 1] = c
BY AppendProperties, LenProperties

LEMMA LogGoodGrows ==
  ASSUME NEW lg \in Seq(Cmd), NEW st \in StoreType, LogGood(lg, st), NEW c \in Cmd
  PROVE  LogGood(Append(lg, c), Append(st, Applied(c, "db0")))
<1> DEFINE l2 == Append(lg, c)
           s2 == Append(st, Applied(c, "db0"))
<1>1. Len(lg) \in Nat /\ Len(st) \in Nat
  BY LenProperties, StoreIs
<1>2. Len(l2) = Len(lg) + 1 /\ (\A i \in 1 .. Len(lg) : l2[i] = lg[i]) /\ l2[Len(lg) + 1] = c
  BY LogGrows
<1>3. Len(s2) = Len(st) + 1 /\ (\A i \in 1 .. Len(st) : s2[i] = st[i]) /\ s2[Len(st) + 1].cmd = c
  BY StoreGrows
<1> HIDE DEF l2, s2
<1>4. ASSUME NEW j \in 1 .. Len(l2) PROVE l2[j] = s2[Len(s2) - Len(l2) + j].cmd
  <2>1. Len(s2) - Len(l2) + j = Len(st) - Len(lg) + j
    BY <1>1, <1>2, <1>3
  <2>2. CASE j = Len(lg) + 1
    <3>1. Len(st) - Len(lg) + j = Len(st) + 1
      BY <1>1, <2>2
    <3> QED BY <1>2, <1>3, <2>1, <2>2, <3>1
  <2>3. CASE j \in 1 .. Len(lg)
    <3>1. Len(st) - Len(lg) + j \in 1 .. Len(st)
      BY <1>1, <2>3 DEF LogGood
    <3>2. lg[j] = st[Len(st) - Len(lg) + j].cmd
      BY <2>3 DEF LogGood
    <3> QED BY <1>2, <1>3, <2>1, <2>3, <3>1, <3>2
  <2> QED BY <1>1, <1>2, <2>2, <2>3
<1>5. Len(l2) <= Len(s2)
  BY <1>1, <1>2, <1>3 DEF LogGood
<1>6. LogGood(l2, s2)
  BY <1>4, <1>5 DEF LogGood
<1> QED BY <1>6 DEF l2, s2

LEMMA ReachesOn ==
  ASSUME NEW s \in StoreType, NEW t \in StoreType, NEW n \in Int, Reaches(s, t, n), NEW c \in Cmd
  PROVE  Reaches(s, Append(t, Applied(c, "db0")), n + 1)
<1> DEFINE u == Append(t, Applied(c, "db0"))
<1>1. Len(s) \in Nat /\ Len(t) \in Nat
  BY StoreIs
<1>2. Len(u) = Len(t) + 1 /\ \A i \in 1 .. Len(t) : u[i] = t[i]
  BY StoreGrows
<1> HIDE DEF u
<1>3. n >= 0 /\ Len(s) + n = Len(t) /\ \A j \in 1 .. Len(s) : s[j].cmd = t[j].cmd
  BY DEF Reaches
<1>4. n + 1 >= 0 /\ Len(s) + (n + 1) = Len(u) /\ \A j \in 1 .. Len(s) : j \in 1 .. Len(t)
  BY <1>1, <1>2, <1>3
<1>5. Reaches(s, u, n + 1)
  BY <1>2, <1>3, <1>4 DEF Reaches
<1> QED BY <1>5 DEF u

\* The master writes another command to the socket.
LEMMA GreetsOn ==
  ASSUME NEW q \in Seq(MsgType), NEW c \in Cmd, NEW h, Greets(q, h)
  PROVE  /\ Append(q, Live(c)) \in Seq(MsgType) /\ Len(Append(q, Live(c))) = Len(q) + 1
         /\ \A i \in 1 .. Len(q) : Append(q, Live(c))[i] = q[i]
         /\ Append(q, Live(c))[Len(q) + 1].cmd = c
         /\ Greets(Append(q, Live(c)), h)
         /\ Brings(Append(q, Live(c)), h) <=> Brings(q, h)
<1> DEFINE e == Live(c)
           p == Append(q, e)
<1>1. e \in MsgType /\ e.kind = "command" /\ e.cmd = c
  BY MessagesAre
<1>2. Len(q) \in Nat /\ h \in 0 .. 2 /\ h <= Len(q)
  BY InboxIs DEF Greets
<1> HIDE DEF e
<1>3. /\ p \in Seq(MsgType) /\ Len(p) = Len(q) + 1 /\ p[Len(q) + 1] = e
      /\ \A i \in 1 .. Len(q) : p[i] = q[i]
  BY <1>1, <1>2, AppendProperties
<1> HIDE DEF p
<1>4. ASSUME NEW i \in 1 .. Len(p) PROVE p[i].kind = "command" <=> h < i
  <2>1. CASE i = Len(q) + 1
    <3>1. h < i
      BY <1>2, <2>1
    <3> QED BY <1>1, <1>3, <2>1, <3>1
  <2>2. CASE i \in 1 .. Len(q)
    BY <1>3, <2>2 DEF Greets
  <2> QED BY <1>2, <1>3, <2>1, <2>2
<1>5. h # 0 => h \in 1 .. Len(q) /\ 1 \in 1 .. Len(q)
  BY <1>2
<1>6. /\ h = 1 => p[1].kind \in {"CONTINUE", "snapshot"}
      /\ h = 2 => p[1].kind = "FULLRESYNC" /\ p[2].kind = "snapshot"
  BY <1>3, <1>5 DEF Greets
<1>7. h <= Len(p)
  BY <1>2, <1>3
<1>8. Greets(p, h)
  BY <1>2, <1>4, <1>6, <1>7 DEF Greets
<1>9. Brings(p, h) <=> Brings(q, h)
  BY <1>3, <1>5 DEF Brings
<1> QED BY <1>1, <1>3, <1>8, <1>9 DEF p, e

LEMMA FollowsOn ==
  ASSUME NEW q \in Seq(MsgType), NEW lg \in Seq(Cmd), NEW st \in StoreType, NEW c \in Cmd,
         NEW h, Greets(q, h), Follows(q, h, lg, st)
  PROVE  Follows(Append(q, Live(c)), h, Append(lg, c), Append(st, Applied(c, "db0")))
<1> DEFINE p == Append(q, Live(c))
           l2 == Append(lg, c)
           s2 == Append(st, Applied(c, "db0"))
<1>1. Len(q) \in Nat /\ Len(lg) \in Nat /\ h \in 0 .. 2 /\ h <= Len(q)
  BY InboxIs, LenProperties DEF Greets
<1>2. /\ Len(p) = Len(q) + 1 /\ (\A i \in 1 .. Len(q) : p[i] = q[i]) /\ p[Len(q) + 1].cmd = c
      /\ Brings(p, h) <=> Brings(q, h)
  BY GreetsOn
<1>3. Len(l2) = Len(lg) + 1 /\ (\A i \in 1 .. Len(lg) : l2[i] = lg[i]) /\ l2[Len(lg) + 1] = c
  BY LogGrows
<1> HIDE DEF p, l2
<1>4. Len(p) - h <= Len(l2)
  BY <1>1, <1>2, <1>3 DEF Follows
<1>5. ASSUME NEW i \in 1 .. Len(p), h < i PROVE p[i].cmd = l2[Len(l2) - Len(p) + i]
  <2>1. Len(l2) - Len(p) + i = Len(lg) - Len(q) + i
    BY <1>1, <1>2, <1>3
  <2>2. CASE i = Len(q) + 1
    <3>1. Len(lg) - Len(q) + i = Len(lg) + 1
      BY <1>1, <2>2
    <3> QED BY <1>2, <1>3, <2>1, <2>2, <3>1
  <2>3. CASE i \in 1 .. Len(q)
    <3>1. Len(lg) - Len(q) + i \in 1 .. Len(lg)
      <4>1. Len(q) - h <= Len(lg)
        BY DEF Follows
      <4> QED BY <1>1, <1>5, <2>3, <4>1
    <3>2. q[i].cmd = lg[Len(lg) - Len(q) + i]
      BY <1>5, <2>3 DEF Follows
    <3> QED BY <1>2, <1>3, <2>1, <2>3, <3>1, <3>2
  <2> QED BY <1>1, <1>2, <2>2, <2>3
<1>6. ASSUME Brings(p, h) PROVE Reaches(p[h].store, s2, Len(p) - h)
  <2>1. h \in 1 .. Len(q) /\ p[h] = q[h] /\ q[h].kind = "snapshot"
    BY <1>1, <1>2, <1>6 DEF Brings
  <2>2. q[h].store \in StoreType
    BY <2>1, InboxIs, MessageKinds
  <2>3. Reaches(q[h].store, st, Len(q) - h)
    BY <1>2, <1>6 DEF Follows
  <2> HIDE DEF s2
  <2>4. Reaches(q[h].store, s2, (Len(q) - h) + 1)
    BY <1>1, <2>2, <2>3, ReachesOn DEF s2
  <2>5. (Len(q) - h) + 1 = Len(p) - h
    BY <1>1, <1>2
  <2> QED BY <2>1, <2>4, <2>5
<1>7. Follows(p, h, l2, s2)
  <2> HIDE DEF s2
  <2> QED BY <1>4, <1>5, <1>6 DEF Follows
<1> QED BY <1>7 DEF p, l2, s2

\* The receiver takes the first message.
Rest(h) == IF h = 0 THEN 0 ELSE h - 1

LEMMA TailIs ==
  ASSUME NEW q \in Seq(MsgType), q # <<>>
  PROVE  /\ Head(q) = q[1] /\ q[1] \in MsgType /\ 1 \in 1 .. Len(q)
         /\ Tail(q) \in Seq(MsgType) /\ Len(Tail(q)) = Len(q) - 1 /\ Len(q) \in Nat
         /\ \A i \in 1 .. Len(Tail(q)) : Tail(q)[i] = q[i + 1]
<1>1. Len(q) \in Nat /\ Len(q) # 0
  BY InboxIs, EmptySeq
<1>2. 1 \in 1 .. Len(q)
  BY <1>1
<1>3. q[1] \in MsgType /\ Head(q) = q[1]
  BY <1>2, InboxIs
<1> QED BY <1>1, <1>2, <1>3, HeadTailProperties

LEMMA GreetsLess ==
  ASSUME NEW q \in Seq(MsgType), q # <<>>, NEW h, Greets(q, h)
  PROVE  Greets(Tail(q), Rest(h)) /\ Rest(h) \in 0 .. 2
<1> DEFINE p == Tail(q)
<1>1. /\ Len(p) = Len(q) - 1 /\ Len(q) \in Nat /\ 1 \in 1 .. Len(q)
      /\ \A i \in 1 .. Len(p) : p[i] = q[i + 1]
  BY TailIs
<1>2. h \in 0 .. 2 /\ h <= Len(q) /\ \A i \in 1 .. Len(q) : q[i].kind = "command" <=> h < i
  BY DEF Greets
<1> HIDE DEF p
<1>3. Rest(h) \in 0 .. 2 /\ Rest(h) <= Len(p)
  BY <1>1, <1>2 DEF Rest
<1>4. ASSUME NEW i \in 1 .. Len(p) PROVE p[i].kind = "command" <=> Rest(h) < i
  <2>1. i + 1 \in 1 .. Len(q)
    BY <1>1
  <2>2. h < i + 1 <=> Rest(h) < i
    BY <1>1, <1>2 DEF Rest
  <2>3. p[i].kind = "command" <=> h < i + 1
    BY <1>1, <1>2, <2>1
  <2> QED BY <2>2, <2>3
<1>5. ASSUME Rest(h) = 1 PROVE p[1].kind \in {"CONTINUE", "snapshot"}
  <2>1. h = 2
    BY <1>2, <1>5 DEF Rest
  <2>2. 1 \in 1 .. Len(p) /\ q[2].kind = "snapshot"
    BY <1>1, <1>2, <2>1 DEF Greets
  <2>3. p[1] = q[1 + 1]
    BY <1>1, <2>2
  <2> QED BY <2>2, <2>3
<1>6. Rest(h) # 2
  BY <1>2 DEF Rest
<1>7. Greets(p, Rest(h))
  BY <1>3, <1>4, <1>5, <1>6 DEF Greets
<1> QED BY <1>3, <1>7 DEF p

LEMMA FollowsLess ==
  ASSUME NEW q \in Seq(MsgType), q # <<>>, NEW lg \in Seq(Cmd), NEW st, NEW h,
         Greets(q, h), Follows(q, h, lg, st)
  PROVE  /\ Follows(Tail(q), Rest(h), lg, st)
         /\ Brings(Tail(q), Rest(h)) <=> h = 2
<1> DEFINE p == Tail(q)
<1>1. /\ Len(p) = Len(q) - 1 /\ Len(q) \in Nat /\ 1 \in 1 .. Len(q)
      /\ \A i \in 1 .. Len(p) : p[i] = q[i + 1]
  BY TailIs
<1>2. h \in 0 .. 2 /\ h <= Len(q) /\ Len(lg) \in Nat
  BY LenProperties DEF Greets
<1> HIDE DEF p
<1>3. Brings(p, Rest(h)) <=> h = 2
  <2>1. CASE h = 2
    <3>1. 1 \in 1 .. Len(p) /\ q[2].kind = "snapshot" /\ Rest(h) = 1
      BY <1>1, <1>2, <2>1 DEF Greets, Rest
    <3>2. p[1] = q[1 + 1]
      BY <1>1, <3>1
    <3> QED BY <2>1, <3>1, <3>2 DEF Brings
  <2>2. CASE h # 2
    BY <1>2, <2>2 DEF Brings, Rest
  <2> QED BY <2>1, <2>2
<1>4. Len(p) - Rest(h) <= Len(lg)
  BY <1>1, <1>2 DEF Follows, Rest
<1>5. ASSUME NEW i \in 1 .. Len(p), Rest(h) < i PROVE p[i].cmd = lg[Len(lg) - Len(p) + i]
  <2>1. i + 1 \in 1 .. Len(q) /\ h < i + 1
    BY <1>1, <1>2, <1>5 DEF Rest
  <2>2. q[i + 1].cmd = lg[Len(lg) - Len(q) + (i + 1)]
    BY <2>1 DEF Follows
  <2>3. Len(lg) - Len(q) + (i + 1) = Len(lg) - Len(p) + i
    BY <1>1, <1>2
  <2> QED BY <1>1, <2>2, <2>3
<1>6. ASSUME Brings(p, Rest(h)) PROVE Reaches(p[Rest(h)].store, st, Len(p) - Rest(h))
  <2>1. h = 2 /\ Rest(h) = 1
    BY <1>3, <1>6 DEF Rest
  <2>2. q[2].kind = "snapshot" /\ 1 \in 1 .. Len(p)
    BY <1>1, <1>2, <2>1 DEF Greets
  <2>3. Reaches(q[2].store, st, Len(q) - 2)
    BY <2>1, <2>2 DEF Follows, Brings
  <2>4. p[1] = q[1 + 1] /\ Len(p) - 1 = Len(q) - 2
    BY <1>1, <2>2
  <2> QED BY <2>1, <2>3, <2>4
<1>7. Follows(p, Rest(h), lg, st)
  BY <1>4, <1>5, <1>6 DEF Follows
<1> QED BY <1>3, <1>7 DEF p

\* PSYNC is answered with the end of the log,
LEMMA ContinuesFrom ==
  ASSUME NEW lg \in Seq(Cmd), NEW st, NEW rest \in Seq(Cmd), Len(rest) <= Len(lg),
         \A i \in 1 .. Len(rest) : rest[i] = lg[Len(lg) - Len(rest) + i],
         NEW q, q = <<Continue>> \o [i \in DOMAIN rest |-> Live(rest[i])]
  PROVE  /\ q \in Seq(MsgType) /\ Len(q) = Len(rest) + 1
         /\ Greets(q, 1) /\ Follows(q, 1, lg, st) /\ ~Brings(q, 1)
<1> DEFINE b == [i \in 1 .. Len(rest) |-> Live(rest[i])]
           a == <<Continue>>
<1>1. Len(rest) \in Nat /\ DOMAIN rest = 1 .. Len(rest) /\ \A i \in 1 .. Len(rest) : rest[i] \in Cmd
  BY LenProperties, ElementOfSeq
<1>2. \A i \in 1 .. Len(rest) : Live(rest[i]) \in MsgType
  BY <1>1, MessagesAre
<1>3. b \in Seq(MsgType)
  BY <1>1, <1>2, IsASeq
<1>4. Len(b) = Len(rest) /\ \A i \in 1 .. Len(rest) : b[i] = Live(rest[i])
  <2>1. DOMAIN b = 1 .. Len(rest)
    OBVIOUS
  <2>2. Len(b) \in Nat /\ DOMAIN b = 1 .. Len(b)
    BY <1>3, LenProperties
  <2> HIDE DEF b
  <2>3. Len(b) = Len(rest)
    BY <1>1, <2>1, <2>2
  <2> QED BY <2>3 DEF b
<1>5. q = a \o b
  BY <1>1
<1> HIDE DEF b
<1>6. a \in Seq(MsgType) /\ Len(a) = 1 /\ a[1] = Continue
  BY MessagesAre
<1> HIDE DEF a
<1>7. /\ q \in Seq(MsgType) /\ Len(q) = 1 + Len(rest)
      /\ \A i \in 1 .. 1 + Len(rest) : q[i] = IF i <= 1 THEN a[i] ELSE b[i - 1]
  <2>1. /\ a \o b \in Seq(MsgType) /\ Len(a \o b) = Len(a) + Len(b)
        /\ \A i \in 1 .. Len(a) + Len(b) : (a \o b)[i] = IF i <= Len(a) THEN a[i] ELSE b[i - Len(a)]
    BY <1>3, <1>6, ConcatProperties
  <2>2. Len(a) = 1 /\ Len(b) = Len(rest)
    BY <1>4, <1>6
  <2> QED BY <1>5, <2>1, <2>2
<1>8. q[1].kind = "CONTINUE"
  <2>1. 1 \in 1 .. 1 + Len(rest)
    BY <1>1
  <2>2. q[1] = a[1]
    BY <1>7, <2>1
  <2> QED BY <1>6, <2>2, MessagesAre
<1>9. ASSUME NEW i \in 1 .. Len(q), 1 < i
      PROVE  q[i].kind = "command" /\ q[i].cmd = lg[Len(lg) - Len(q) + i]
  <2>1. i - 1 \in 1 .. Len(rest) /\ ~(i <= 1) /\ i \in 1 .. 1 + Len(rest)
    BY <1>1, <1>7, <1>9
  <2>2. q[i] = Live(rest[i - 1]) /\ rest[i - 1] \in Cmd
    BY <1>1, <1>4, <1>7, <2>1
  <2>3. Len(lg) - Len(rest) + (i - 1) = Len(lg) - Len(q) + i
    BY <1>1, <1>7, LenProperties
  <2>4. rest[i - 1] = lg[Len(lg) - Len(rest) + (i - 1)]
    BY <2>1
  <2> QED BY <2>2, <2>3, <2>4, MessagesAre
<1>10. Greets(q, 1)
  <2>1. 1 <= Len(q)
    BY <1>1, <1>7
  <2>2. \A i \in 1 .. Len(q) : q[i].kind = "command" <=> 1 < i
    <3>1. TAKE i \in 1 .. Len(q)
    <3>2. i = 1 \/ 1 < i
      BY <1>1, <1>7
    <3> QED BY <1>8, <1>9, <3>2
  <2> QED BY <1>8, <2>1, <2>2 DEF Greets
<1>11. ~Brings(q, 1)
  BY <1>8 DEF Brings
<1>12. Follows(q, 1, lg, st)
  <2>1. Len(q) - 1 <= Len(lg)
    BY <1>1, <1>7, LenProperties
  <2> QED BY <1>9, <1>11, <2>1 DEF Follows
<1> QED BY <1>1, <1>7, <1>10, <1>11, <1>12

\* or with the whole store.
Resync(id, off, st) == <<Full(id, off), Snapshot(st)>>

LEMMA ResyncsFrom ==
  ASSUME NEW lg \in Seq(Cmd), NEW st \in StoreType, NEW id \in IdType, NEW off \in Nat
  PROVE  /\ Resync(id, off, st) \in Seq(MsgType) /\ Len(Resync(id, off, st)) = 2
         /\ Resync(id, off, st)[1].id = id /\ Resync(id, off, st)[1].off = off
         /\ Greets(Resync(id, off, st), 2) /\ Follows(Resync(id, off, st), 2, lg, st)
         /\ Brings(Resync(id, off, st), 2)
<1> DEFINE q == Resync(id, off, st)
           f == Full(id, off)
           s == Snapshot(st)
<1>1. /\ f \in MsgType /\ f.kind = "FULLRESYNC" /\ f.id = id /\ f.off = off
      /\ s \in MsgType /\ s.kind = "snapshot" /\ s.store = st
  BY FullIs, MessagesAre
<1> HIDE DEF f, s
<1>2. q \in Seq(MsgType) /\ Len(q) = 2 /\ q[1] = f /\ q[2] = s
  BY <1>1 DEF f, s, Resync
<1> HIDE DEF q
<1>3. Greets(q, 2)
  <2>1. \A i \in 1 .. 2 : i = 1 \/ i = 2
    OBVIOUS
  <2> QED BY <1>1, <1>2, <2>1 DEF Greets
<1>4. Brings(q, 2)
  BY <1>1, <1>2 DEF Brings
<1>5. Reaches(st, st, 0)
  <2>1. Len(st) \in Nat
    BY StoreIs
  <2> QED BY <2>1 DEF Reaches
<1>6. Follows(q, 2, lg, st)
  <2>1. Len(lg) \in Nat /\ Len(q) - 2 = 0
    BY <1>2, LenProperties
  <2>2. \A i \in 1 .. Len(q) : ~(2 < i)
    BY <1>2
  <2> QED BY <1>1, <1>2, <1>5, <2>1, <2>2 DEF Follows
<1> QED BY <1>1, <1>2, <1>3, <1>4, <1>6 DEF q
------------------------------------------------------------------------------
(* What the actions do *)

LEMMA InboxSet ==
  ASSUME NEW l \in LinkType, l.state = "streaming", NEW q \in Seq(MsgType)
  PROVE  [l EXCEPT !.inbox = q] = Streaming(l.to, l.fed, q)
<1>1. l = Streaming(l.to, l.fed, l.inbox)
  BY LinkKinds
<1> DEFINE t == l.to
           f == l.fed
           b == l.inbox
<1>2. l = [state |-> "streaming", to |-> t, fed |-> f, inbox |-> b]
  BY <1>1 DEF Streaming
<1> HIDE DEF t, f, b
<1>3. [l EXCEPT !.inbox = q] = [state |-> "streaming", to |-> t, fed |-> f, inbox |-> q]
  BY <1>2
<1> QED BY <1>3 DEF t, f, Streaming

\* A socket is either left alone or, a registered one of m, given the command.
LEMMA Written ==
  ASSUME TypeOK, NEW m \in Master, NEW c \in Cmd, Write(m, c), NEW k \in Link
  PROVE  /\ links'[k] \in LinkType
         /\ c \in Propagated /\ Fed(k) /\ links[k].to = m =>
              links'[k] = Streaming(m, TRUE, Append(links[k].inbox, Live(c)))
         /\ ~(c \in Propagated /\ Fed(k) /\ links[k].to = m) => links'[k] = links[k]
<1>1. links[k] \in LinkType
  BY Typed
<1>2. CASE c \in Propagated /\ Fed(k) /\ links[k].to = m
  <2> DEFINE q == Append(links[k].inbox, Live(c))
  <2>1. k \in StreamsOf(m)
    BY <1>2 DEF Fed, StreamsOf, In
  <2>2. links'[k] = [links[k] EXCEPT !.inbox = q]
    BY <1>2, <2>1 DEF Write
  <2>3. links[k].inbox \in Seq(MsgType) /\ Live(c) \in MsgType /\ links[k].state = "streaming"
    BY <1>1, <1>2, LinkKinds, MessagesAre DEF Fed
  <2>4. q \in Seq(MsgType)
    BY <2>3, AppendProperties
  <2> HIDE DEF q
  <2>5. links'[k] = Streaming(links[k].to, links[k].fed, q)
    BY <1>1, <2>2, <2>3, <2>4, InboxSet
  <2>6. links[k].fed = TRUE /\ links[k].to = m
    BY <1>2, <1>1, <2>3, LinkKinds DEF Fed
  <2>7. links'[k] = Streaming(m, TRUE, q)
    BY <2>5, <2>6
  <2> QED BY <1>2, <2>4, <2>7, StreamingIs DEF q
<1>3. CASE ~(c \in Propagated /\ Fed(k) /\ links[k].to = m)
  <2>1. links'[k] = links[k]
    BY <1>3 DEF Write, Fed, StreamsOf, In
  <2> QED BY <1>1, <1>3, <2>1
<1> QED BY <1>2, <1>3

\* What PSYNC may be answered with when the socket is registered.
Answers(m, id, off, q) ==
  \/ /\ CanContinue(m, id, off) /\ Len(q) = Len(log[m]) - off + 1 /\ off >= 0
     /\ Greets(q, 1) /\ ~Brings(q, 1) /\ Follows(q, 1, log[m], mstore[m])
  \/ /\ Len(q) = 2 /\ q[1].id = Id(m) /\ q[1].off = Len(log[m])
     /\ Greets(q, 2) /\ Brings(q, 2) /\ Follows(q, 2, log[m], mstore[m])

LEMMA Served ==
  ASSUME TypeOK, NEW k \in Link, ServePsync(k)
  PROVE  /\ links[k].state = "asking" /\ links[k].to \in Master
         /\ \E fed \in BOOLEAN, q \in Seq(MsgType) :
              /\ links' = [links EXCEPT ![k] = Streaming(links[k].to, fed, q)]
              /\ fed => Answers(links[k].to, links[k].id, links[k].off, q)
              /\ ~fed => ~CanSerialize(mstore[links[k].to])
              /\ \A i \in 1 .. Len(q) : q[i].kind = "snapshot" => q[i].store = mstore[links[k].to]
<1> DEFINE m    == links[k].to
           id   == links[k].id
           off  == links[k].off
           lg   == log[m]
           n    == Len(lg)
           bs   == BacklogStart(m)
           bl   == Backlog(m)
           skip == off + 1 - bs
           rest == SubSeq(bl, (IF skip > 0 THEN skip ELSE 0) + 1, Len(bl))
           full == Full(Id(m), n)
           q1   == <<Continue>> \o [i \in DOMAIN rest |-> Live(rest[i])]
           q2   == <<full, Snapshot(mstore[m])>>
           q3   == <<full, Failure>>
<1>1. links[k].state = "asking" /\ m \in Master /\ off \in Int /\ id \in IdType
  BY Typed, LinkKinds DEF ServePsync
<1>2. lg \in Seq(Cmd) /\ n \in Nat /\ mstore[m] \in StoreType /\ Id(m) \in IdType
  BY <1>1, Typed
<1>3. links' = [links EXCEPT ![k] =
        CASE CanContinue(m, id, off) -> Streaming(m, TRUE, q1)
          [] ~CanContinue(m, id, off) /\ CanSerialize(mstore[m]) -> Streaming(m, TRUE, q2)
          [] OTHER -> Streaming(m, FALSE, q3)]
  BY DEF ServePsync
<1>4. CASE CanContinue(m, id, off)
  <2>1. links' = [links EXCEPT ![k] = Streaming(m, TRUE, q1)]
    <3> HIDE DEF m, id, off, q1, q2, q3
    <3> QED BY <1>3, <1>4
  <2>2. bs \in Nat /\ bs >= 1 /\ bs <= n + 1 /\ off >= bs - 1 /\ off <= n
    <3>1. Given.backlog \in Nat \ {0}
      BY Typed
    <3>2. bs = IF n <= Given.backlog THEN 1 ELSE n - Given.backlog + 1
      BY DEF BacklogStart
    <3>3. off >= bs - 1 /\ off <= n
      BY <1>4 DEF CanContinue
    <3> HIDE DEF bs, n, off
    <3> QED BY <1>1, <1>2, <3>1, <3>2, <3>3
  <2>3. /\ bl \in Seq(Cmd) /\ Len(bl) = n - bs + 1
        /\ \A i \in 1 .. n - bs + 1 : bl[i] = lg[bs + i - 1]
    <3>1. bl = SubSeq(lg, bs, n)
      BY DEF Backlog
    <3>2. \A i \in bs .. n : lg[i] \in Cmd
      BY <1>2, <2>2, ElementOfSeq
    <3> HIDE DEF bs, bl, lg
    <3> QED BY <1>2, <2>2, <3>1, <3>2, SubSeqProperties
  <2>4. /\ rest \in Seq(Cmd) /\ Len(rest) = n - off
        /\ \A i \in 1 .. n - off : rest[i] = lg[off + i]
    <3>1. skip \in Nat /\ skip = off + 1 - bs
      <4> HIDE DEF bs, off
      <4> QED BY <1>1, <2>2
    <3>2. rest = SubSeq(bl, skip + 1, Len(bl))
      <4> HIDE DEF skip
      <4> QED BY <3>1
    <3> HIDE DEF skip, rest, bl, off, bs, n
    <3>3. Len(bl) \in Nat /\ Len(bl) - (skip + 1) + 1 = n - off /\ n - off >= 0
      BY <1>1, <1>2, <2>2, <2>3, <3>1
    <3>4. /\ rest \in Seq(Cmd) /\ Len(rest) = n - off
          /\ \A i \in 1 .. n - off : rest[i] = bl[skip + 1 + i - 1]
      <4>1. skip + 1 \in 1 .. Len(bl) + 1
        BY <1>1, <1>2, <3>1, <3>3
      <4>2. \A i \in skip + 1 .. Len(bl) : bl[i] \in Cmd
        BY <2>3, <3>1, ElementOfSeq
      <4> QED BY <2>3, <3>2, <3>3, <4>1, <4>2, SubSeqProperties
    <3>5. ASSUME NEW i \in 1 .. n - off PROVE rest[i] = lg[off + i]
      <4>1. skip + 1 + i - 1 \in 1 .. n - bs + 1 /\ bs + (skip + 1 + i - 1) - 1 = off + i
        BY <1>1, <1>2, <2>2, <3>1
      <4> QED BY <2>3, <3>4, <3>5, <4>1
    <3> QED BY <3>4, <3>5
  <2>5. /\ q1 \in Seq(MsgType) /\ Len(q1) = Len(rest) + 1
        /\ Greets(q1, 1) /\ Follows(q1, 1, lg, mstore[m]) /\ ~Brings(q1, 1)
    <3> HIDE DEF rest, off, lg
    <3>1. Len(rest) <= Len(lg) /\ \A i \in 1 .. Len(rest) : Len(lg) - Len(rest) + i = off + i
      BY <1>1, <1>2, <2>2, <2>4
    <3>2. \A i \in 1 .. Len(rest) : rest[i] = lg[Len(lg) - Len(rest) + i]
      BY <2>4, <3>1
    <3> HIDE DEF n
    <3> QED BY <1>2, <2>4, <3>1, <3>2, ContinuesFrom
  <2>6. Len(q1) = n - off + 1 /\ off >= 0
    <3> HIDE DEF rest, off, n, bs, q1
    <3> QED BY <1>1, <1>2, <2>2, <2>4, <2>5
  <2>7. Answers(m, id, off, q1)
    <3> HIDE DEF q1, off, id
    <3> QED BY <1>4, <2>5, <2>6 DEF Answers
  <2>8. ASSUME NEW i \in 1 .. Len(q1), q1[i].kind = "snapshot" PROVE FALSE
    <3> HIDE DEF q1
    <3>1. \A j \in 1 .. Len(q1) : q1[j].kind = "command" <=> 1 < j
      BY <2>5 DEF Greets
    <3>2. q1[1].kind # "snapshot"
      BY <2>5 DEF Brings
    <3>3. i = 1
      BY <2>8, <3>1
    <3> QED BY <2>8, <3>2, <3>3
  <2> HIDE DEF q1
  <2> QED BY <1>1, <2>1, <2>5, <2>7, <2>8
<1>5. CASE ~CanContinue(m, id, off) /\ CanSerialize(mstore[m])
  <2>1. links' = [links EXCEPT ![k] = Streaming(m, TRUE, q2)]
    <3> HIDE DEF m, id, off, q1, q2, q3
    <3> QED BY <1>3, <1>5
  <2>2. /\ q2 \in Seq(MsgType) /\ Len(q2) = 2 /\ q2[1].id = Id(m) /\ q2[1].off = n
        /\ Greets(q2, 2) /\ Follows(q2, 2, lg, mstore[m]) /\ Brings(q2, 2)
    <3>1. q2 = Resync(Id(m), n, mstore[m])
      BY DEF Resync
    <3> HIDE DEF n, lg, m, q2
    <3> QED BY <1>2, <3>1, ResyncsFrom
  <2>3. \A i \in 1 .. Len(q2) : q2[i].kind = "snapshot" => q2[i].store = mstore[m]
    <3> HIDE DEF n, m
    <3>1. q2[1].kind = "FULLRESYNC" /\ q2[2].store = mstore[m] /\ Len(q2) = 2
      BY DEF Full, Snapshot
    <3> HIDE DEF q2
    <3> QED BY <3>1
  <2> HIDE DEF q2
  <2>4. Answers(m, id, off, q2)
    BY <2>2 DEF Answers
  <2> QED BY <1>1, <2>1, <2>2, <2>3, <2>4
<1>6. CASE ~CanContinue(m, id, off) /\ ~CanSerialize(mstore[m])
  <2>1. links' = [links EXCEPT ![k] = Streaming(m, FALSE, q3)]
    <3> HIDE DEF m, id, off, q1, q2, q3
    <3> QED BY <1>3, <1>6
  <2>2. q3 \in Seq(MsgType)
    <3>1. full \in MsgType /\ Failure \in MsgType
      <4> HIDE DEF n, m
      <4> QED BY <1>2, FullIs, MessagesAre
    <3> HIDE DEF full
    <3> QED BY <3>1
  <2>3. \A i \in 1 .. Len(q3) : q3[i].kind # "snapshot"
    <3> HIDE DEF n, m
    <3>1. q3[1].kind = "FULLRESYNC" /\ q3[2].kind = "error" /\ Len(q3) = 2
      BY DEF Full, Failure
    <3> HIDE DEF q3
    <3> QED BY <3>1
  <2> HIDE DEF q3
  <2> QED BY <1>1, <1>6, <2>1, <2>2, <2>3
<1> QED BY <1>4, <1>5, <1>6

\* What handling the first message of k's inbox does to the follower.
Handled(msg) ==
  CASE msg.kind = "FULLRESYNC" ->
         masterRunId' = msg.id /\ applied' = msg.off /\ rstore' = rstore
    [] msg.kind \in {"CONTINUE", "error"} ->
         masterRunId' = masterRunId /\ applied' = applied /\ rstore' = rstore
    [] msg.kind = "snapshot" ->
         rstore' = msg.store /\ masterRunId' = masterRunId /\ applied' = applied
    [] msg.kind = "command" ->
         /\ rstore' = Append(rstore, Applied(msg.cmd, "raw"))
         /\ applied' = OffsetAfter /\ masterRunId' = masterRunId

LEMMA Delivered ==
  ASSUME TypeOK, NEW k \in Link, Deliver(k)
  PROVE  /\ links[k].state = "streaming" /\ links[k].to \in Master /\ links[k].fed \in BOOLEAN
         /\ links[k].inbox \in Seq(MsgType) /\ links[k].inbox # <<>>
         /\ links[k].inbox[1] \in MsgType /\ Tail(links[k].inbox) \in Seq(MsgType)
         /\ links' = [links EXCEPT ![k] =
              Streaming(links[k].to, links[k].fed, Tail(links[k].inbox))]
         /\ Handled(links[k].inbox[1])
<1> DEFINE l == links[k]
           q == links[k].inbox
<1>1. l.state = "streaming" /\ q # <<>> /\ l \in LinkType
  BY Typed DEF Deliver
<1>2. l.to \in Master /\ l.fed \in BOOLEAN /\ q \in Seq(MsgType)
  BY <1>1, LinkKinds
<1>3. Head(q) = q[1] /\ q[1] \in MsgType /\ Tail(q) \in Seq(MsgType)
  <2> HIDE DEF q
  <2> QED BY <1>1, <1>2, TailIs
<1>4. links' = [links EXCEPT ![k] = [l EXCEPT !.inbox = Tail(q)]]
  BY DEF Deliver
<1>5. [l EXCEPT !.inbox = Tail(q)] = Streaming(l.to, l.fed, Tail(q))
  BY <1>1, <1>3, InboxSet
<1>6. Handled(Head(q))
  <2> DEFINE msg == Head(q)
  <2>1. msg.kind \in {"FULLRESYNC", "snapshot", "CONTINUE", "error", "command"}
    BY <1>3, MessageKinds
  <2>2. CASE msg.kind = "FULLRESYNC"
    BY <2>2 DEF Deliver, Handled
  <2>3. CASE msg.kind = "snapshot"
    BY <2>3 DEF Deliver, Handled
  <2>4. CASE msg.kind \in {"CONTINUE", "error"}
    BY <2>4 DEF Deliver, Handled
  <2>5. CASE msg.kind = "command"
    BY <2>5 DEF Deliver, Handled
  <2> QED BY <2>1, <2>2, <2>3, <2>4, <2>5
<1> HIDE DEF l, q
<1>7. Handled(q[1])
  BY <1>3, <1>6
<1> QED BY <1>1, <1>2, <1>3, <1>4, <1>5, <1>7 DEF l, q

\* A connection that ends, or is found to have ended.
LEMMA Ended ==
  ASSUME TypeOK, NEW k \in Link, Lose(k) \/ DestroyedCloses(k)
  PROVE  /\ links[k] # Idle /\ links[k].to \in Master /\ links' = [links EXCEPT ![k] = Idle]
         /\ UNCHANGED <<masterVars, followerVars>>
         /\ \E n \in {0, 1, 2} : timers' = [timers EXCEPT ![links[k].to] = @ + n]
         /\ losses' \in Nat
<1> DEFINE m == links[k].to
<1>1. links[k] \in LinkType /\ timers \in [Master -> Nat] /\ losses \in Nat
  BY Typed DEF TypeOK
<1>2. links[k].state # "idle"
  BY DEF Lose, DestroyedCloses
<1>3. links[k] # Idle /\ m \in Master
  BY <1>1, <1>2, LinkKinds, LinksAre
<1>4. ScheduleReconnect(m, 1) \/ ScheduleReconnect(m, 2)
  BY DEF Lose, DestroyedCloses
<1>5. \E n \in {0, 1, 2} : timers' = [timers EXCEPT ![m] = @ + n]
  <2>1. CASE timers' = timers
    <3>1. timers' = [timers EXCEPT ![m] = @ + 0]
      BY <1>1, <1>3, <2>1
    <3> QED BY <3>1
  <2>2. CASE timers' = [timers EXCEPT ![m] = @ + 1]
    BY <2>2
  <2>3. CASE timers' = [timers EXCEPT ![m] = @ + 2]
    BY <2>3
  <2> QED BY <1>4, <2>1, <2>2, <2>3 DEF ScheduleReconnect
<1>6. losses' \in Nat
  BY <1>1 DEF Lose, DestroyedCloses
<1>7. links' = [links EXCEPT ![k] = Idle] /\ UNCHANGED <<masterVars, followerVars>>
  BY DEF Lose, DestroyedCloses
<1> QED BY <1>3, <1>5, <1>6, <1>7
------------------------------------------------------------------------------
(* The types of the variables *)

LEMMA InitTypes == Init => TypeOK
<1> SUFFICES ASSUME Init PROVE TypeOK
  OBVIOUS
<1>1. mstore \in [Master -> StoreType] /\ log \in [Master -> Seq(Cmd)] /\ rstore \in StoreType
  BY EmptySeq DEF Init, StoreType
<1>2. links \in [Link -> LinkType]
  BY LinksAre DEF Init
<1> QED BY <1>1, <1>2 DEF Init, TypeOK, IdType

LEMMA LinkPut ==
  ASSUME links \in [Link -> LinkType], NEW k \in Link, NEW l \in LinkType,
         links' = [links EXCEPT ![k] = l]
  PROVE  /\ links' \in [Link -> LinkType] /\ links'[k] = l
         /\ \A j \in Link : j # k => links'[j] = links[j]
OBVIOUS

LEMMA TypesKept ==
  ASSUME TypeOK, [Next]_vars
  PROVE  TypeOK' /\ setting' = setting
<1>0. links \in [Link -> LinkType]
  BY DEF TypeOK
<1>1. ASSUME NEW m \in Master, NEW c \in Cmd, Write(m, c) PROVE TypeOK' /\ setting' = setting
  <2>1. DOMAIN links' = Link /\ links' = [k \in Link |-> links'[k]]
    BY <1>0, <1>1 DEF Write
  <2>2. \A k \in Link : links'[k] \in LinkType
    BY <1>1, Written
  <2>3. links' \in [Link -> LinkType]
    <3> DEFINE L == links'
    <3>1. L = [k \in Link |-> L[k]] /\ \A k \in Link : L[k] \in LinkType
      BY <2>1, <2>2
    <3> HIDE DEF L
    <3>2. L \in [Link -> LinkType]
      BY <3>1
    <3> QED BY <3>2 DEF L
  <2>4. mstore[m] \in StoreType /\ log[m] \in Seq(Cmd)
    BY Typed
  <2>5. Append(mstore[m], Applied(c, "db0")) \in StoreType /\ Append(log[m], c) \in Seq(Cmd)
    BY <2>4, StoreGrows, LogGrows
  <2>6. mstore' \in [Master -> StoreType] /\ log' \in [Master -> Seq(Cmd)]
    BY <1>1, <2>5 DEF Write, TypeOK
  <2> QED BY <1>1, <2>3, <2>6 DEF Write, TypeOK, followerVars
<1>2. ASSUME NEW m \in Master, Restart(m) PROVE TypeOK' /\ setting' = setting
  <2>1. mstore[m] \in StoreType /\ Len(mstore[m]) \in Nat
    BY Typed
  <2>2. ASSUME NEW n \in {Len(mstore[m]) - 1, Len(mstore[m])} \cap Nat
        PROVE  SubSeq(mstore[m], 1, n) \in StoreType
    <3>1. n \in Int /\ \A i \in 1 .. n : mstore[m][i] \in [cmd : Cmd, space : {"db0", "raw"}]
      <4> DEFINE st == mstore[m]
      <4>1. \A i \in 1 .. n : i \in 1 .. Len(st)
        BY <2>1
      <4> HIDE DEF st
      <4>2. st \in Seq([cmd : Cmd, space : {"db0", "raw"}])
        BY <2>1 DEF st, StoreType
      <4>3. \A i \in 1 .. n : st[i] \in [cmd : Cmd, space : {"db0", "raw"}]
        BY <4>1, <4>2, ElementOfSeq
      <4> QED BY <2>1, <4>3 DEF st
    <3> QED BY <3>1, SubSeqProperties DEF StoreType
  <2>3. mstore' \in [Master -> StoreType]
    BY <1>2, <2>2 DEF Restart, TypeOK
  <2>4. log' \in [Master -> Seq(Cmd)]
    BY <1>2, EmptySeq DEF Restart, TypeOK
  <2>5. runId' \in [Master -> Nat]
    BY <1>2 DEF Restart, TypeOK
  <2> QED BY <1>2, <2>3, <2>4, <2>5 DEF Restart, TypeOK, followerVars
<1>3. ASSUME NEW m \in Master, ReplicaOf(m) \/ TimerFires(m) PROVE TypeOK' /\ setting' = setting
  <2>1. BecomeReplica(m) /\ UNCHANGED <<masterVars, rstore, masterRunId, applied, losses>>
    BY <1>3 DEF ReplicaOf, TimerFires
  <2>2. Connecting(m) \in LinkType
    BY LinksAre
  <2>3. links' \in [Link -> LinkType] /\ role' = "replica" /\ current' \in Link
    BY <1>0, <2>1, <2>2 DEF BecomeReplica, In
  <2>4. timers' \in [Master -> Nat]
    BY <1>3 DEF ReplicaOf, TimerFires, TypeOK
  <2> QED BY <2>1, <2>3, <2>4 DEF TypeOK, masterVars
<1>4. ASSUME NEW k \in Link, ServePsync(k) PROVE TypeOK' /\ setting' = setting
  <2>1. PICK fed \in BOOLEAN, q \in Seq(MsgType) :
          links' = [links EXCEPT ![k] = Streaming(links[k].to, fed, q)]
    BY <1>4, Served
  <2>2. Streaming(links[k].to, fed, q) \in LinkType
    BY <1>4, Served, StreamingIs
  <2>3. links' \in [Link -> LinkType]
    BY <1>0, <2>1, <2>2, LinkPut
  <2> QED BY <1>4, <2>3 DEF ServePsync, TypeOK, masterVars, followerVars
<1>5. ASSUME NEW k \in Link, Connected(k) PROVE TypeOK' /\ setting' = setting
  <2>1. links[k].to \in Master /\ masterRunId \in IdType /\ applied \in Int
    BY <1>5, Typed, LinkKinds DEF Connected, TypeOK
  <2>2. (IF applied >= 0 THEN applied ELSE -1) \in Int
    BY <2>1
  <2>3. Asking(links[k].to, masterRunId, IF applied >= 0 THEN applied ELSE -1) \in LinkType
    BY <2>1, <2>2, AskingIs
  <2>4. links' \in [Link -> LinkType]
    BY <1>0, <1>5, <2>3, LinkPut DEF Connected
  <2> QED BY <1>5, <2>4 DEF Connected, TypeOK, masterVars, followerVars
<1>6. ASSUME NEW k \in Link, Deliver(k) PROVE TypeOK' /\ setting' = setting
  <2> DEFINE l == links[k]
             msg == l.inbox[1]
  <2>1. /\ Streaming(l.to, l.fed, Tail(l.inbox)) \in LinkType /\ msg \in MsgType /\ Handled(msg)
        /\ links' = [links EXCEPT ![k] = Streaming(l.to, l.fed, Tail(l.inbox))]
    BY <1>6, Delivered, StreamingIs
  <2>2. links' \in [Link -> LinkType]
    BY <1>0, <2>1, LinkPut
  <2> HIDE DEF l, msg
  <2>3. rstore \in StoreType /\ masterRunId \in IdType /\ applied \in Int
    BY DEF TypeOK
  <2>4. rstore' \in StoreType /\ masterRunId' \in IdType /\ applied' \in Int
    <3>1. CASE msg.kind = "FULLRESYNC"
      BY <2>1, <2>3, <3>1, MessageKinds DEF Handled
    <3>2. CASE msg.kind = "snapshot"
      BY <2>1, <2>3, <3>2, MessageKinds DEF Handled
    <3>3. CASE msg.kind \in {"CONTINUE", "error"}
      BY <2>1, <2>3, <3>3 DEF Handled
    <3>4. CASE msg.kind = "command"
      <4>1. msg.cmd \in Cmd
        BY <2>1, <3>4, MessageKinds
      <4>2. Append(rstore, Applied(msg.cmd, "raw")) \in StoreType
        BY <2>3, <4>1, StoreGrows
      <4>3. OffsetAfter \in Int
        BY <2>3 DEF OffsetAfter
      <4> QED BY <2>1, <2>3, <3>4, <4>2, <4>3 DEF Handled
    <3> QED BY <2>1, <3>1, <3>2, <3>3, <3>4, MessageKinds
  <2> QED BY <1>6, <2>2, <2>4 DEF Deliver, TypeOK, masterVars
<1>7. ASSUME NEW k \in Link, Lose(k) \/ DestroyedCloses(k) PROVE TypeOK' /\ setting' = setting
  <2>1. PICK n \in {0, 1, 2} : timers' = [timers EXCEPT ![links[k].to] = @ + n]
    BY <1>7, Ended
  <2>2. timers' \in [Master -> Nat]
    <3> DEFINE m == links[k].to
    <3>1. timers \in [Master -> Nat] /\ m \in Master /\ n \in Nat
      BY <1>7, Ended DEF TypeOK
    <3> HIDE DEF m
    <3>2. timers[m] + n \in Nat
      BY <3>1
    <3> QED BY <2>1, <3>1, <3>2 DEF m
  <2>3. /\ links' \in [Link -> LinkType] /\ losses' \in Nat
        /\ UNCHANGED <<masterVars, followerVars>>
    BY <1>0, <1>7, Ended, LinksAre, LinkPut
  <2> QED BY <2>2, <2>3 DEF TypeOK, masterVars, followerVars
<1>8. CASE NoOne
  <2>1. ASSUME NEW j \in Link
        PROVE  (IF j = current /\ links[j] # Idle THEN Destroyed(links[j].to) ELSE links[j]) \in LinkType
    <3>1. links[j] \in LinkType
      BY Typed
    <3>2. links[j] # Idle => links[j].to \in Master
      BY <3>1, LinkKinds
    <3> QED BY <3>1, <3>2, LinksAre
  <2>2. links' \in [Link -> LinkType]
    BY <1>8, <2>1 DEF NoOne
  <2> QED BY <1>8, <2>2 DEF NoOne, TypeOK, masterVars, IdType
<1>9. CASE UNCHANGED vars
  BY <1>9 DEF vars, TypeOK
<1> QED BY <1>1, <1>2, <1>3, <1>4, <1>5, <1>6, <1>7, <1>8, <1>9 DEF Next

\* TypeOK: the variables have their types.
THEOREM ReplicationTypes == Spec => []TypeOK
<1>1. TypeOK /\ [Next]_vars => TypeOK'
  BY TypesKept
<1> QED BY InitTypes, <1>1, PTL DEF Spec
------------------------------------------------------------------------------
(* What is streamed *)

LEMMA LogsKept ==
  ASSUME TypeOK, AllLogged, \A m \in Master : LogGood(log[m], mstore[m]), [Next]_vars
  PROVE  \A m \in Master : LogGood(log'[m], mstore'[m])
<1>0. mstore \in [Master -> StoreType] /\ log \in [Master -> Seq(Cmd)]
  BY DEF TypeOK
<1>1. ASSUME NEW m \in Master, NEW c \in Cmd, Write(m, c), NEW n \in Master
      PROVE  LogGood(log'[n], mstore'[n])
  <2>1. /\ mstore' = [mstore EXCEPT ![m] = Append(@, Applied(c, "db0"))]
        /\ log' = [log EXCEPT ![m] = Append(@, c)]
    BY <1>1 DEF Write, AllLogged
  <2>2. CASE n = m
    <3>1. LogGood(log[m], mstore[m]) /\ log[m] \in Seq(Cmd) /\ mstore[m] \in StoreType
      BY Typed
    <3>2. LogGood(Append(log[m], c), Append(mstore[m], Applied(c, "db0")))
      BY <3>1, LogGoodGrows
    <3>3. log'[n] = Append(log[m], c) /\ mstore'[n] = Append(mstore[m], Applied(c, "db0"))
      BY <1>0, <2>1, <2>2
    <3> QED BY <3>2, <3>3
  <2>3. CASE n # m
    <3>1. log'[n] = log[n] /\ mstore'[n] = mstore[n]
      BY <1>0, <2>1, <2>3
    <3> QED BY <3>1
  <2> QED BY <2>2, <2>3
<1>2. ASSUME NEW m \in Master, Restart(m), NEW n \in Master
      PROVE  LogGood(log'[n], mstore'[n])
  <2>1. CASE n = m
    <3>1. log'[n] = <<>> /\ Len(log'[n]) = 0
      BY <1>0, <1>2, <2>1 DEF Restart
    <3>2. PICK i \in Nat : mstore'[n] = SubSeq(mstore[n], 1, i)
      BY <1>0, <1>2, <2>1 DEF Restart
    <3>3. mstore'[n] \in StoreType
      BY TypesKept, Typed DEF TypeOK
    <3>4. Len(mstore'[n]) \in Nat
      BY <3>3, StoreIs
    <3> QED BY <3>1, <3>4 DEF LogGood
  <2>2. CASE n # m
    <3>1. log'[n] = log[n] /\ mstore'[n] = mstore[n]
      BY <1>0, <1>2, <2>2 DEF Restart
    <3> QED BY <3>1
  <2> QED BY <2>1, <2>2
<1>3. CASE UNCHANGED masterVars
  BY <1>3 DEF masterVars
<1>4. ASSUME NEW k \in Link, Lose(k) \/ DestroyedCloses(k) PROVE UNCHANGED masterVars
  BY <1>4 DEF Lose, DestroyedCloses, masterVars
<1>5. UNCHANGED vars => UNCHANGED masterVars
  BY DEF vars, masterVars
<1> QED BY <1>1, <1>2, <1>3, <1>4, <1>5
      DEF Next, ReplicaOf, TimerFires, ServePsync, Connected, Deliver, NoOne

\* A registered socket that is not touched, of a master that is not.
Streams(k) ==
  \E h \in 0 .. 2 : /\ Greets(links[k].inbox, h)
                    /\ Follows(links[k].inbox, h, log[links[k].to], mstore[links[k].to])

LEMMA StreamsKept ==
  ASSUME TypeOK, AllLogged, StreamsGood, [Next]_vars
  PROVE  StreamsGood'
<1>0. /\ mstore \in [Master -> StoreType] /\ log \in [Master -> Seq(Cmd)]
      /\ links \in [Link -> LinkType]
  BY DEF TypeOK
<1> SUFFICES ASSUME NEW k \in Link, Fed(k)' PROVE Streams(k)'
  BY DEF StreamsGood, Streams
<1>1. ASSUME links'[k] = links[k], UNCHANGED masterVars PROVE Streams(k)'
  BY <1>1 DEF StreamsGood, Streams, Fed, masterVars
<1>2. ASSUME NEW m \in Master, NEW c \in Cmd, Write(m, c) PROVE Streams(k)'
  <2>1. /\ mstore' = [mstore EXCEPT ![m] = Append(@, Applied(c, "db0"))]
        /\ log' = [log EXCEPT ![m] = Append(@, c)] /\ c \in Propagated
    BY <1>2 DEF Write, AllLogged
  <2>2. CASE Fed(k) /\ links[k].to = m
    <3> DEFINE q == links[k].inbox
               p == Append(q, Live(c))
    <3>1. q \in Seq(MsgType) /\ log[m] \in Seq(Cmd) /\ mstore[m] \in StoreType
      BY <2>2, Typed, LinkKinds DEF Fed
    <3>2. PICK h \in 0 .. 2 : Greets(q, h) /\ Follows(q, h, log[m], mstore[m])
      BY <2>2 DEF StreamsGood
    <3>3. links'[k] = Streaming(m, TRUE, p)
      BY <1>2, <2>1, <2>2, Written
    <3> HIDE DEF q
    <3>4. /\ p \in Seq(MsgType) /\ Greets(p, h)
          /\ Follows(p, h, Append(log[m], c), Append(mstore[m], Applied(c, "db0")))
      BY <3>1, <3>2, GreetsOn, FollowsOn
    <3>5. log'[m] = Append(log[m], c) /\ mstore'[m] = Append(mstore[m], Applied(c, "db0"))
      BY <1>0, <2>1
    <3> HIDE DEF p
    <3>6. links'[k].inbox = p /\ links'[k].to = m
      <4>1. Streaming(m, TRUE, p).inbox = p /\ Streaming(m, TRUE, p).to = m
        BY <3>4, StreamingIs
      <4> QED BY <3>3, <4>1
    <3> QED BY <3>4, <3>5, <3>6 DEF Streams
  <2>3. CASE ~(Fed(k) /\ links[k].to = m)
    <3>1. links'[k] = links[k]
      BY <1>2, <2>1, <2>3, Written
    <3>2. Fed(k) /\ links[k].to # m
      BY <2>3, <3>1 DEF Fed
    <3>3. links[k].to \in Master
      BY <3>2, Typed, LinkKinds DEF Fed
    <3>4. log'[links[k].to] = log[links[k].to] /\ mstore'[links[k].to] = mstore[links[k].to]
      BY <1>0, <2>1, <3>2, <3>3
    <3> QED BY <3>1, <3>2, <3>4 DEF StreamsGood, Streams
  <2> QED BY <2>2, <2>3
<1>3. ASSUME NEW m \in Master, Restart(m) PROVE Streams(k)'
  <2>1. links'[k] = links[k] /\ Fed(k)
    BY <1>3 DEF Restart, Fed
  <2>2. links[k].to \in Master /\ links[k] # Idle
    BY <2>1, Typed, LinkKinds, LinksAre DEF Fed
  <2>3. links[k].to # m
    BY <1>3, <2>2 DEF Restart
  <2>4. log'[links[k].to] = log[links[k].to] /\ mstore'[links[k].to] = mstore[links[k].to]
    BY <1>0, <1>3, <2>2, <2>3 DEF Restart
  <2> QED BY <2>1, <2>4 DEF StreamsGood, Streams
<1>4. ASSUME NEW m \in Master, ReplicaOf(m) \/ TimerFires(m) PROVE Streams(k)'
  <2>1. BecomeReplica(m) /\ UNCHANGED masterVars
    BY <1>4 DEF ReplicaOf, TimerFires
  <2>2. PICK j \in In("idle") : links' = [links EXCEPT ![j] = Connecting(m)]
    BY <2>1 DEF BecomeReplica
  <2>3. links'[k] = links[k]
    <3>1. j = k => links'[k] = Connecting(m)
      BY <1>0, <2>2 DEF In
    <3>2. j # k
      BY <3>1, LinksAre DEF Fed
    <3> QED BY <1>0, <2>2, <3>2 DEF In
  <2> QED BY <1>1, <2>1, <2>3
<1>5. ASSUME NEW j \in Link, ServePsync(j) PROVE Streams(k)'
  <2>1. PICK fed \in BOOLEAN, q \in Seq(MsgType) :
          /\ links' = [links EXCEPT ![j] = Streaming(links[j].to, fed, q)]
          /\ fed => Answers(links[j].to, links[j].id, links[j].off, q)
    BY <1>5, Served
  <2>2. UNCHANGED masterVars /\ links[j].to \in Master
    BY <1>5, Served DEF ServePsync
  <2>3. CASE j = k
    <3>1. links'[k] = Streaming(links[j].to, fed, q)
      BY <1>0, <2>1, <2>3
    <3>2. links'[k].inbox = q /\ links'[k].to = links[j].to /\ links'[k].fed = fed
      BY <2>2, <3>1, StreamingIs
    <3>3. Answers(links[j].to, links[j].id, links[j].off, q)
      BY <2>1, <3>2 DEF Fed
    <3>4. \E h \in 0 .. 2 : Greets(q, h) /\ Follows(q, h, log[links[j].to], mstore[links[j].to])
      BY <3>3 DEF Answers
    <3> QED BY <2>2, <3>2, <3>4 DEF Streams, masterVars
  <2>4. CASE j # k
    <3>1. links'[k] = links[k]
      BY <1>0, <2>1, <2>4
    <3> QED BY <1>1, <2>2, <3>1
  <2> QED BY <2>3, <2>4
<1>6. ASSUME NEW j \in Link, Connected(j) PROVE Streams(k)'
  <2>1. /\ links' = [links EXCEPT ![j] =
             Asking(links[j].to, masterRunId, IF applied >= 0 THEN applied ELSE -1)]
        /\ UNCHANGED masterVars
    BY <1>6 DEF Connected
  <2>2. j # k
    <3>1. j = k => links'[k].state = "asking"
      BY <1>0, <2>1 DEF Asking
    <3> QED BY <3>1 DEF Fed
  <2> QED BY <1>0, <1>1, <2>1, <2>2
<1>7. ASSUME NEW j \in Link, Deliver(j) PROVE Streams(k)'
  <2> DEFINE l == links[j]
             q == l.inbox
  <2>1. /\ l.state = "streaming" /\ l.to \in Master /\ l.fed \in BOOLEAN
        /\ q \in Seq(MsgType) /\ q # <<>> /\ Tail(q) \in Seq(MsgType)
        /\ links' = [links EXCEPT ![j] = Streaming(l.to, l.fed, Tail(q))]
    BY <1>7, Delivered
  <2>2. UNCHANGED masterVars
    BY <1>7 DEF Deliver
  <2>3. CASE j = k
    <3>1. links'[k] = Streaming(l.to, l.fed, Tail(q))
      BY <1>0, <2>1, <2>3
    <3>2. links'[k].inbox = Tail(q) /\ links'[k].to = l.to /\ links'[k].fed = l.fed
      <4> DEFINE to == l.to
                 fed == l.fed
                 p == Tail(q)
      <4> HIDE DEF to, fed, p
      <4>1. to \in Master /\ fed \in BOOLEAN /\ p \in Seq(MsgType)
        BY <2>1 DEF to, fed, p
      <4>2. /\ Streaming(to, fed, p).inbox = p /\ Streaming(to, fed, p).to = to
            /\ Streaming(to, fed, p).fed = fed
        BY <4>1, StreamingIs
      <4> QED BY <3>1, <4>2 DEF to, fed, p
    <3>3. Fed(j)
      BY <2>1, <2>3, <3>2 DEF Fed
    <3>4. PICK h \in 0 .. 2 : Greets(q, h) /\ Follows(q, h, log[l.to], mstore[l.to])
      BY <3>3 DEF StreamsGood
    <3>5. log[l.to] \in Seq(Cmd)
      BY <2>1, Typed
    <3> HIDE DEF q, l
    <3>6. /\ Greets(Tail(q), Rest(h)) /\ Rest(h) \in 0 .. 2
          /\ Follows(Tail(q), Rest(h), log[l.to], mstore[l.to])
      BY <2>1, <3>4, <3>5, GreetsLess, FollowsLess
    <3> QED BY <2>2, <3>2, <3>6 DEF Streams, masterVars
  <2>4. CASE j # k
    <3>1. links'[k] = links[k]
      BY <1>0, <2>1, <2>4
    <3> QED BY <1>1, <2>2, <3>1
  <2> QED BY <2>3, <2>4
<1>8. ASSUME NEW j \in Link, Lose(j) \/ DestroyedCloses(j) PROVE Streams(k)'
  <2>1. links' = [links EXCEPT ![j] = Idle] /\ UNCHANGED masterVars
    BY <1>8, Ended
  <2>2. j # k
    BY <1>0, <2>1, LinksAre DEF Fed
  <2>3. links'[k] = links[k]
    BY <1>0, <2>1, <2>2
  <2> QED BY <1>1, <2>1, <2>3
<1>9. CASE NoOne
  <2>1. CASE k = current /\ links[k] # Idle
    <3>1. links'[k] = Destroyed(links[k].to)
      BY <1>9, <2>1 DEF NoOne
    <3>2. links'[k].state = "destroyed"
      BY <3>1 DEF Destroyed
    <3> QED BY <3>2 DEF Fed
  <2>2. CASE ~(k = current /\ links[k] # Idle)
    <3>1. links'[k] = links[k]
      BY <1>9, <2>2 DEF NoOne
    <3> QED BY <1>1, <1>9, <3>1 DEF NoOne
  <2> QED BY <2>1, <2>2
<1>10. CASE UNCHANGED vars
  <2>1. links'[k] = links[k] /\ UNCHANGED masterVars
    BY <1>10 DEF vars, masterVars
  <2> QED BY <1>1, <2>1
<1> QED BY <1>2, <1>3, <1>4, <1>5, <1>6, <1>7, <1>8, <1>9, <1>10 DEF Next
------------------------------------------------------------------------------
(* Where commands are applied *)

LEMMA SpacesOn ==
  ASSUME NEW s \in StoreType, NEW c \in Cmd
  PROVE  /\ AllDb0(s) => AllDb0(Append(s, Applied(c, "db0")))
         /\ Shaped(s) => Shaped(Append(s, Applied(c, "raw")))
<1>1. Len(s) \in Nat
  BY StoreIs
<1>2. ASSUME NEW space \in {"db0", "raw"}
      PROVE  LET t == Append(s, Applied(c, space)) IN
               /\ Len(t) = Len(s) + 1 /\ t[Len(s) + 1].space = space
               /\ \A i \in 1 .. Len(s) : t[i] = s[i]
  <2>1. s \in Seq([cmd : Cmd, space : {"db0", "raw"}])
    BY DEF StoreType
  <2>2. Applied(c, space) \in [cmd : Cmd, space : {"db0", "raw"}] /\ Applied(c, space).space = space
    BY AppliedIs DEF Applied
  <2> HIDE DEF Applied
  <2> QED BY <2>1, <2>2, AppendProperties
<1>3. ASSUME AllDb0(s) PROVE AllDb0(Append(s, Applied(c, "db0")))
  <2> DEFINE t == Append(s, Applied(c, "db0"))
  <2>1. Len(t) = Len(s) + 1 /\ t[Len(s) + 1].space = "db0" /\ \A i \in 1 .. Len(s) : t[i] = s[i]
    BY <1>2
  <2> HIDE DEF t
  <2>2. ASSUME NEW i \in 1 .. Len(t) PROVE t[i].space = "db0"
    <3>1. i \in 1 .. Len(s) \/ i = Len(s) + 1
      BY <1>1, <2>1
    <3> QED BY <1>3, <2>1, <3>1 DEF AllDb0
  <2>3. AllDb0(t)
    BY <2>2 DEF AllDb0
  <2> QED BY <2>3 DEF t
<1>4. ASSUME Shaped(s) PROVE Shaped(Append(s, Applied(c, "raw")))
  <2> DEFINE t == Append(s, Applied(c, "raw"))
  <2>1. Len(t) = Len(s) + 1 /\ t[Len(s) + 1].space = "raw" /\ \A i \in 1 .. Len(s) : t[i] = s[i]
    BY <1>2
  <2> HIDE DEF t
  <2>2. PICK n \in 0 .. Len(s) : \A i \in 1 .. Len(s) : s[i].space = IF i <= n THEN "db0" ELSE "raw"
    BY <1>4 DEF Shaped
  <2>3. ASSUME NEW i \in 1 .. Len(t) PROVE t[i].space = IF i <= n THEN "db0" ELSE "raw"
    <3>1. i \in 1 .. Len(s) \/ (i = Len(s) + 1 /\ ~(i <= n))
      BY <1>1, <2>1
    <3> QED BY <2>1, <2>2, <3>1
  <2>4. n \in 0 .. Len(t)
    BY <1>1, <2>1
  <2>5. Shaped(t)
    BY <2>3, <2>4 DEF Shaped
  <2> QED BY <2>5 DEF t
<1> QED BY <1>3, <1>4

LEMMA AllDb0IsShaped ==
  ASSUME NEW s \in StoreType, AllDb0(s)
  PROVE  Shaped(s)
<1>1. Len(s) \in Nat
  BY StoreIs
<1>2. Len(s) \in 0 .. Len(s) /\ \A i \in 1 .. Len(s) : i <= Len(s)
  BY <1>1
<1> QED BY <1>2 DEF AllDb0, Shaped

LEMMA SpacesKept ==
  ASSUME TypeOK, Spaces, [Next]_vars
  PROVE  Spaces'
<1>0. /\ mstore \in [Master -> StoreType] /\ links \in [Link -> LinkType] /\ rstore \in StoreType
      /\ \A m \in Master : mstore[m] \in StoreType
  BY DEF TypeOK
<1>1. ASSUME UNCHANGED masterVars, UNCHANGED rstore,
             \A k \in Link : links'[k] = links[k] \/ links'[k].state # "streaming"
      PROVE  Spaces'
  BY <1>1 DEF Spaces, masterVars
<1>2. ASSUME NEW m \in Master, NEW c \in Cmd, Write(m, c) PROVE Spaces'
  <2>1. UNCHANGED rstore /\ mstore' = [mstore EXCEPT ![m] = Append(@, Applied(c, "db0"))]
    BY <1>2 DEF Write, followerVars
  <2>2. ASSUME NEW n \in Master PROVE AllDb0(mstore'[n])
    <3>1. CASE n = m
      <4>1. mstore'[n] = Append(mstore[m], Applied(c, "db0"))
        BY <1>0, <2>1, <3>1
      <4>2. AllDb0(Append(mstore[m], Applied(c, "db0")))
        BY <1>0, SpacesOn DEF Spaces
      <4> QED BY <4>1, <4>2
    <3>2. CASE n # m
      <4>1. mstore'[n] = mstore[n]
        BY <1>0, <2>1, <3>2
      <4> QED BY <4>1 DEF Spaces
    <3> QED BY <3>1, <3>2
  <2>3. ASSUME NEW k \in Link, links'[k].state = "streaming" PROVE Brought(links'[k].inbox)
    <3>1. CASE c \in Propagated /\ Fed(k) /\ links[k].to = m
      <4> DEFINE q == links[k].inbox
                 p == Append(q, Live(c))
      <4>1. links'[k] = Streaming(m, TRUE, p) /\ q \in Seq(MsgType) /\ Brought(q)
        <5>1. links[k].state = "streaming" /\ links[k] \in LinkType
          BY <1>0, <3>1 DEF Fed
        <5>2. q \in Seq(MsgType) /\ Brought(q)
          BY <5>1, LinkKinds DEF Spaces
        <5>3. links'[k] = Streaming(m, TRUE, p)
          BY <1>2, <3>1, Written
        <5> QED BY <5>2, <5>3
      <4>2. Live(c) \in MsgType /\ Live(c).kind = "command"
        BY MessagesAre
      <4> HIDE DEF q
      <4>3. /\ p \in Seq(MsgType) /\ Len(p) = Len(q) + 1 /\ p[Len(q) + 1] = Live(c)
            /\ (\A i \in 1 .. Len(q) : p[i] = q[i]) /\ Len(q) \in Nat
        BY <4>1, <4>2, AppendProperties, InboxIs
      <4> HIDE DEF p
      <4>4. ASSUME NEW i \in 1 .. Len(p), p[i].kind = "snapshot" PROVE AllDb0(p[i].store)
        <5>1. i \in 1 .. Len(q) \/ i = Len(q) + 1
          BY <4>3
        <5>2. i \in 1 .. Len(q)
          BY <4>2, <4>3, <4>4, <5>1
        <5> QED BY <4>1, <4>3, <4>4, <5>2 DEF Brought
      <4>5. Brought(p)
        BY <4>4 DEF Brought
      <4>6. links'[k].inbox = p
        <5>1. TRUE \in BOOLEAN
          OBVIOUS
        <5>2. Streaming(m, TRUE, p).inbox = p
          BY <4>3, <5>1, StreamingIs
        <5> QED BY <4>1, <5>2
      <4> QED BY <4>5, <4>6
    <3>2. CASE ~(c \in Propagated /\ Fed(k) /\ links[k].to = m)
      BY <1>2, <2>3, <3>2, Written DEF Spaces
    <3> QED BY <3>1, <3>2
  <2> QED BY <2>1, <2>2, <2>3 DEF Spaces
<1>3. ASSUME NEW m \in Master, Restart(m) PROVE Spaces'
  <2>1. UNCHANGED <<rstore, links>>
    BY <1>3 DEF Restart, followerVars
  <2>2. PICK i \in Nat : i <= Len(mstore[m]) /\ mstore' = [mstore EXCEPT ![m] = SubSeq(@, 1, i)]
    <3>1. PICK i \in {Len(mstore[m]) - 1, Len(mstore[m])} \cap Nat :
            mstore' = [mstore EXCEPT ![m] = SubSeq(@, 1, i)]
      BY <1>3 DEF Restart
    <3>2. Len(mstore[m]) \in Nat
      BY <1>0, StoreIs
    <3>3. i \in Nat /\ i <= Len(mstore[m])
      BY <3>1, <3>2
    <3> QED BY <3>1, <3>3
  <2>3. ASSUME NEW n \in Master PROVE AllDb0(mstore'[n])
    <3>1. CASE n = m
      <4>1. mstore'[n] = SubSeq(mstore[m], 1, i)
        BY <1>0, <2>2, <3>1
      <4>2. Len(mstore[m]) \in Nat /\ mstore[m] \in Seq([cmd : Cmd, space : {"db0", "raw"}])
        BY <1>0, StoreIs DEF StoreType
      <4>3. \A j \in 1 .. i : mstore[m][j] \in [cmd : Cmd, space : {"db0", "raw"}]
        <5>1. \A j \in 1 .. i : j \in 1 .. Len(mstore[m])
          BY <2>2, <4>2
        <5> QED BY <4>2, <5>1, ElementOfSeq
      <4>4. Len(SubSeq(mstore[m], 1, i)) = i /\ \A j \in 1 .. i : SubSeq(mstore[m], 1, i)[j] = mstore[m][j]
        BY <2>2, <4>2, <4>3, SubSeqProperties
      <4>5. \A j \in 1 .. i : j \in 1 .. Len(mstore[m])
        BY <2>2, <4>2
      <4> QED BY <4>1, <4>4, <4>5 DEF AllDb0, Spaces
    <3>2. CASE n # m
      <4>1. mstore'[n] = mstore[n]
        BY <1>0, <2>2, <3>2
      <4> QED BY <4>1 DEF Spaces
    <3> QED BY <3>1, <3>2
  <2> QED BY <2>1, <2>3 DEF Spaces
<1>4. ASSUME NEW m \in Master, ReplicaOf(m) \/ TimerFires(m) PROVE Spaces'
  <2>1. BecomeReplica(m) /\ UNCHANGED masterVars /\ UNCHANGED rstore
    BY <1>4 DEF ReplicaOf, TimerFires
  <2>2. PICK j \in In("idle") : links' = [links EXCEPT ![j] = Connecting(m)]
    BY <2>1 DEF BecomeReplica
  <2>3. ASSUME NEW k \in Link PROVE links'[k] = links[k] \/ links'[k].state # "streaming"
    <3>1. Connecting(m).state = "connecting"
      BY DEF Connecting
    <3> QED BY <1>0, <2>2, <3>1 DEF In
  <2> QED BY <1>1, <2>1, <2>3
<1>5. ASSUME NEW j \in Link, ServePsync(j) PROVE Spaces'
  <2>1. PICK fed \in BOOLEAN, q \in Seq(MsgType) :
          /\ links' = [links EXCEPT ![j] = Streaming(links[j].to, fed, q)]
          /\ \A i \in 1 .. Len(q) : q[i].kind = "snapshot" => q[i].store = mstore[links[j].to]
    BY <1>5, Served
  <2>2. UNCHANGED masterVars /\ UNCHANGED rstore /\ links[j].to \in Master
    BY <1>5, Served DEF ServePsync, followerVars
  <2>3. ASSUME NEW k \in Link, links'[k].state = "streaming" PROVE Brought(links'[k].inbox)
    <3>1. CASE k = j
      <4>1. links'[k].inbox = q
        BY <1>0, <2>1, <2>2, <3>1, StreamingIs
      <4>2. Brought(q)
        BY <2>1, <2>2 DEF Brought, Spaces
      <4> QED BY <4>1, <4>2
    <3>2. CASE k # j
      <4>1. links'[k] = links[k]
        BY <1>0, <2>1, <3>2
      <4> QED BY <2>3, <4>1 DEF Spaces
    <3> QED BY <3>1, <3>2
  <2> QED BY <2>2, <2>3 DEF Spaces, masterVars
<1>6. ASSUME NEW j \in Link, Connected(j) PROVE Spaces'
  <2> DEFINE a == Asking(links[j].to, masterRunId, IF applied >= 0 THEN applied ELSE -1)
  <2>1. links' = [links EXCEPT ![j] = a] /\ UNCHANGED masterVars /\ UNCHANGED rstore
    BY <1>6 DEF Connected, followerVars
  <2>2. a.state = "asking"
    BY DEF Asking
  <2> HIDE DEF a
  <2> QED BY <1>0, <1>1, <2>1, <2>2
<1>7. ASSUME NEW j \in Link, Deliver(j) PROVE Spaces'
  <2> DEFINE l == links[j]
             q == l.inbox
  <2>1. /\ l.state = "streaming" /\ l.to \in Master /\ l.fed \in BOOLEAN
        /\ q \in Seq(MsgType) /\ q # <<>> /\ q[1] \in MsgType /\ Tail(q) \in Seq(MsgType)
        /\ links' = [links EXCEPT ![j] = Streaming(l.to, l.fed, Tail(q))] /\ Handled(q[1])
    BY <1>7, Delivered
  <2>2. UNCHANGED masterVars /\ Brought(q)
    BY <1>7, <2>1 DEF Deliver, Spaces
  <2> HIDE DEF q
  <2>3. /\ Len(Tail(q)) = Len(q) - 1 /\ Len(q) \in Nat /\ 1 \in 1 .. Len(q)
        /\ \A i \in 1 .. Len(q) - 1 : Tail(q)[i] = q[i + 1]
    BY <2>1, TailIs
  <2>4. Brought(Tail(q))
    <3> SUFFICES ASSUME NEW i \in 1 .. Len(Tail(q)), Tail(q)[i].kind = "snapshot"
                 PROVE  AllDb0(Tail(q)[i].store)
      BY DEF Brought
    <3>1. i + 1 \in 1 .. Len(q) /\ i \in 1 .. Len(q) - 1
      BY <2>3
    <3> QED BY <2>2, <2>3, <3>1 DEF Brought
  <2>5. ASSUME NEW k \in Link, links'[k].state = "streaming" PROVE Brought(links'[k].inbox)
    <3>1. CASE k = j
      <4>1. links'[k] = Streaming(l.to, l.fed, Tail(q))
        BY <1>0, <2>1, <3>1
      <4> DEFINE to == l.to
                 fed == l.fed
                 r == Tail(q)
      <4>2. to \in Master /\ fed \in BOOLEAN /\ r \in Seq(MsgType)
        BY <2>1
      <4> HIDE DEF l, to, fed, r
      <4>3. Streaming(to, fed, r).inbox = r
        BY <4>2, StreamingIs
      <4>4. links'[k].inbox = Tail(q)
        BY <4>1, <4>3 DEF to, fed, r
      <4> QED BY <2>4, <4>4
    <3>2. CASE k # j
      <4>1. links'[k] = links[k]
        BY <1>0, <2>1, <3>2
      <4> QED BY <2>5, <4>1 DEF Spaces
    <3> QED BY <3>1, <3>2
  <2>6. Shaped(rstore')
    <3> DEFINE msg == q[1]
    <3>1. msg.kind \in {"FULLRESYNC", "snapshot", "CONTINUE", "error", "command"} /\ msg \in MsgType
      BY <2>1, MessageKinds
    <3>2. Handled(msg)
      BY <2>1
    <3>3. msg.kind = "snapshot" => AllDb0(msg.store)
      BY <2>2, <2>3 DEF Brought
    <3> HIDE DEF msg
    <3>4. CASE msg.kind \in {"FULLRESYNC", "CONTINUE", "error"}
      <4>1. rstore' = rstore
        BY <3>2, <3>4 DEF Handled
      <4> QED BY <4>1 DEF Spaces
    <3>5. CASE msg.kind = "snapshot"
      <4>1. rstore' = msg.store
        BY <3>2, <3>5 DEF Handled
      <4> QED BY <3>1, <3>3, <3>5, <4>1, AllDb0IsShaped, MessageKinds
    <3>6. CASE msg.kind = "command"
      <4>1. rstore' = Append(rstore, Applied(msg.cmd, "raw")) /\ msg.cmd \in Cmd
        BY <3>1, <3>2, <3>6, MessageKinds DEF Handled
      <4> QED BY <1>0, <4>1, SpacesOn DEF Spaces
    <3> QED BY <3>1, <3>4, <3>5, <3>6
  <2> QED BY <2>2, <2>5, <2>6 DEF Spaces, masterVars
<1>8. ASSUME NEW j \in Link, Lose(j) \/ DestroyedCloses(j) PROVE Spaces'
  <2>1. links' = [links EXCEPT ![j] = Idle] /\ UNCHANGED masterVars /\ UNCHANGED rstore
    BY <1>8, Ended DEF followerVars
  <2>2. Idle.state # "streaming"
    BY DEF Idle
  <2> QED BY <1>0, <1>1, <2>1, <2>2
<1>9. CASE NoOne
  <2>1. UNCHANGED masterVars /\ UNCHANGED rstore
    BY <1>9 DEF NoOne
  <2>2. ASSUME NEW k \in Link PROVE links'[k] = links[k] \/ links'[k].state # "streaming"
    <3>1. CASE k = current /\ links[k] # Idle
      <4>1. links'[k] = Destroyed(links[k].to) /\ Destroyed(links[k].to).state = "destroyed"
        BY <1>9, <3>1 DEF NoOne, Destroyed
      <4> QED BY <4>1
    <3>2. CASE ~(k = current /\ links[k] # Idle)
      BY <1>9, <3>2 DEF NoOne
    <3> QED BY <3>1, <3>2
  <2> QED BY <1>1, <2>1, <2>2
<1>10. CASE UNCHANGED vars
  BY <1>10 DEF vars, Spaces
<1> QED BY <1>2, <1>3, <1>4, <1>5, <1>6, <1>7, <1>8, <1>9, <1>10 DEF Next
------------------------------------------------------------------------------
(* What is streamed, as sequences of commands *)

LEMMA PrefixIs ==
  ASSUME NEW S, NEW s \in Seq(S), NEW t \in Seq(S), Len(s) <= Len(t),
         \A i \in 1 .. Len(s) : s[i] = t[i]
  PROVE  IsPrefix(s, t)
<1> DEFINE n == Len(s)
<1>1. n \in Nat /\ Len(t) \in Nat /\ n <= Len(t)
  BY LenProperties
<1>2. \A i \in 1 .. n : i \in 1 .. Len(t) /\ s[i] \in S /\ t[i] \in S /\ s[i] = t[i]
  BY <1>1, ElementOfSeq
<1> HIDE DEF n
<1>3. /\ SubSeq(s, 1, n) \in Seq(S) /\ Len(SubSeq(s, 1, n)) = IF 1 <= n THEN n - 1 + 1 ELSE 0
      /\ \A i \in 1 .. n - 1 + 1 : SubSeq(s, 1, n)[i] = s[1 + i - 1]
  BY <1>1, <1>2, SubSeqProperties
<1>4. /\ SubSeq(t, 1, n) \in Seq(S) /\ Len(SubSeq(t, 1, n)) = IF 1 <= n THEN n - 1 + 1 ELSE 0
      /\ \A i \in 1 .. n - 1 + 1 : SubSeq(t, 1, n)[i] = t[1 + i - 1]
  BY <1>1, <1>2, SubSeqProperties
<1> DEFINE a == SubSeq(s, 1, n)
           b == SubSeq(t, 1, n)
<1>5. /\ a \in Seq(S) /\ b \in Seq(S) /\ Len(a) = n /\ Len(b) = n
      /\ \A i \in 1 .. n : a[i] = b[i]
  <2>1. /\ a \in Seq(S) /\ Len(a) = IF 1 <= n THEN n - 1 + 1 ELSE 0
        /\ \A i \in 1 .. n - 1 + 1 : a[i] = s[1 + i - 1]
    BY <1>3
  <2>2. /\ b \in Seq(S) /\ Len(b) = IF 1 <= n THEN n - 1 + 1 ELSE 0
        /\ \A i \in 1 .. n - 1 + 1 : b[i] = t[1 + i - 1]
    BY <1>4
  <2> HIDE DEF a, b
  <2> QED BY <1>1, <1>2, <2>1, <2>2
<1> HIDE DEF a, b
<1>6. a = b
  BY <1>5, SeqEqual
<1> QED BY <1>1, <1>6 DEF IsPrefix, a, b, n

LEMMA ReverseIs ==
  ASSUME NEW S, NEW s \in Seq(S)
  PROVE  /\ Reverse(s) \in Seq(S) /\ Len(Reverse(s)) = Len(s)
         /\ \A i \in 1 .. Len(s) : Reverse(s)[i] = s[(Len(s) - i) + 1]
<1> DEFINE n == Len(s)
           r == [i \in 1 .. n |-> s[(n - i) + 1]]
<1>1. n \in Nat
  BY LenProperties
<1>2. \A i \in 1 .. n : s[(n - i) + 1] \in S
  <2>1. \A i \in 1 .. n : (n - i) + 1 \in 1 .. n
    BY <1>1
  <2> QED BY <2>1, ElementOfSeq
<1>3. r = Reverse(s)
  BY DEF Reverse
<1> HIDE DEF n
<1>4. r \in Seq(S)
  BY <1>1, <1>2, IsASeq
<1>5. DOMAIN r = 1 .. n /\ \A i \in 1 .. n : r[i] = s[(n - i) + 1]
  OBVIOUS
<1> HIDE DEF r
<1>6. Len(r) = n
  BY <1>1, <1>4, <1>5, LenProperties
<1> QED BY <1>3, <1>4, <1>5, <1>6 DEF n

LEMMA SuffixIs ==
  ASSUME NEW S, NEW s \in Seq(S), NEW t \in Seq(S), Len(s) <= Len(t),
         \A i \in 1 .. Len(s) : s[i] = t[Len(t) - Len(s) + i]
  PROVE  IsSuffix(s, t)
<1>1. Len(s) \in Nat /\ Len(t) \in Nat
  BY LenProperties
<1>2. \A i \in 1 .. Len(s) : Reverse(s)[i] = Reverse(t)[i]
  <2> TAKE i \in 1 .. Len(s)
  <2>1. /\ i \in 1 .. Len(t) /\ (Len(s) - i) + 1 \in 1 .. Len(s)
        /\ Len(t) - Len(s) + ((Len(s) - i) + 1) = (Len(t) - i) + 1
    BY <1>1
  <2>2. Reverse(s)[i] = s[(Len(s) - i) + 1] /\ Reverse(t)[i] = t[(Len(t) - i) + 1]
    BY <2>1, ReverseIs
  <2> QED BY <2>1, <2>2
<1>3. /\ Reverse(s) \in Seq(S) /\ Len(Reverse(s)) = Len(s)
      /\ Reverse(t) \in Seq(S) /\ Len(Reverse(t)) = Len(t)
  BY ReverseIs
<1> DEFINE a == Reverse(s)
           b == Reverse(t)
<1>4. /\ a \in Seq(S) /\ b \in Seq(S) /\ Len(a) <= Len(b)
      /\ \A i \in 1 .. Len(a) : a[i] = b[i]
  BY <1>2, <1>3
<1> HIDE DEF a, b
<1>5. IsPrefix(a, b)
  BY <1>4, PrefixIs
<1> QED BY <1>5 DEF a, b, IsSuffix

LEMMA CmdsAre ==
  ASSUME NEW s \in StoreType
  PROVE  Cmds(s) \in Seq(Cmd) /\ Len(Cmds(s)) = Len(s) /\ \A i \in 1 .. Len(s) : Cmds(s)[i] = s[i].cmd
<1> DEFINE n == Len(s)
           r == [i \in 1 .. n |-> s[i].cmd]
<1>1. n \in Nat /\ DOMAIN s = 1 .. n /\ \A i \in 1 .. n : s[i].cmd \in Cmd
  BY StoreIs
<1>2. r = Cmds(s)
  BY <1>1 DEF Cmds
<1> HIDE DEF n
<1>3. r \in Seq(Cmd)
  BY <1>1, IsASeq
<1>4. DOMAIN r = 1 .. n /\ \A i \in 1 .. n : r[i] = s[i].cmd
  OBVIOUS
<1> HIDE DEF r
<1>5. Len(r) = n
  BY <1>1, <1>3, <1>4, LenProperties
<1> QED BY <1>2, <1>3, <1>4, <1>5 DEF n

LEMMA GreetingIs ==
  ASSUME NEW q \in Seq(MsgType), NEW h, Greets(q, h)
  PROVE  Greeting(q) = h
<1> DEFINE S == {0} \cup {i \in DOMAIN q : q[i].kind # "command"}
<1>1. Len(q) \in Nat /\ DOMAIN q = 1 .. Len(q) /\ h \in 0 .. 2 /\ h <= Len(q)
  BY InboxIs DEF Greets
<1>2. \A i \in 1 .. Len(q) : q[i].kind # "command" <=> i <= h
  <2>1. \A i \in 1 .. Len(q) : h < i <=> ~(i <= h)
    BY <1>1
  <2> QED BY <2>1 DEF Greets
<1>3. \A x \in S : x \in Nat /\ x <= h
  BY <1>1, <1>2
<1>4. h \in S
  <2>1. h = 0 \/ h \in 1 .. Len(q)
    BY <1>1
  <2>2. h <= h
    BY <1>1
  <2> QED BY <1>1, <1>2, <2>1, <2>2
<1>5. Greeting(q) = CHOOSE x \in S : \A y \in S : x >= y
  BY DEF Greeting, Max
<1> HIDE DEF S
<1>6. \A y \in S : h >= y
  BY <1>1, <1>3
<1>7. \A x \in S : (\A y \in S : x >= y) => x = h
  BY <1>1, <1>3, <1>4
<1> QED BY <1>4, <1>5, <1>6, <1>7

LEMMA LiveIs ==
  ASSUME NEW q \in Seq(MsgType), NEW h, Greets(q, h)
  PROVE  /\ LiveCmds(q) \in Seq(Cmd) /\ Len(LiveCmds(q)) = Len(q) - h /\ Len(q) - h \in Nat
         /\ \A i \in 1 .. Len(q) - h : LiveCmds(q)[i] = q[h + i].cmd
<1> DEFINE n == Len(q) - h
           r == [i \in 1 .. n |-> q[h + i].cmd]
<1>1. Len(q) \in Nat /\ h \in 0 .. 2 /\ h <= Len(q)
  BY InboxIs DEF Greets
<1>2. n \in Nat
  BY <1>1
<1>3. \A i \in 1 .. n : q[h + i].cmd \in Cmd
  <2> TAKE i \in 1 .. n
  <2>1. h + i \in 1 .. Len(q) /\ h < h + i
    BY <1>1
  <2>2. q[h + i] \in MsgType /\ q[h + i].kind = "command"
    BY <2>1, InboxIs DEF Greets
  <2> QED BY <2>2, MessageKinds
<1>4. r = LiveCmds(q)
  BY GreetingIs DEF LiveCmds
<1> HIDE DEF n
<1>5. r \in Seq(Cmd)
  BY <1>2, <1>3, IsASeq
<1>6. DOMAIN r = 1 .. n /\ \A i \in 1 .. n : r[i] = q[h + i].cmd
  OBVIOUS
<1> HIDE DEF r
<1>7. Len(r) = n
  BY <1>2, <1>5, <1>6, LenProperties
<1> QED BY <1>2, <1>4, <1>5, <1>6, <1>7 DEF n

\* A store that is all but the commands that follow on the socket.
LEMMA Joined ==
  ASSUME NEW q \in Seq(MsgType), NEW lg \in Seq(Cmd), NEW st \in StoreType, LogGood(lg, st),
         NEW h, Greets(q, h), Follows(q, h, lg, st), NEW s \in StoreType, Reaches(s, st, Len(q) - h)
  PROVE  Cmds(s) \o LiveCmds(q) = Cmds(st)
<1> DEFINE n == Len(q) - h
           a == Cmds(s)
           b == LiveCmds(q)
           c == Cmds(st)
<1>1. /\ Len(q) \in Nat /\ h \in 0 .. 2 /\ h <= Len(q) /\ Len(s) \in Nat /\ Len(st) \in Nat
      /\ Len(lg) \in Nat
  BY InboxIs, StoreIs, LenProperties DEF Greets
<1>2. Len(s) + n = Len(st) /\ \A j \in 1 .. Len(s) : s[j].cmd = st[j].cmd
  BY DEF Reaches
<1>3. a \in Seq(Cmd) /\ Len(a) = Len(s) /\ \A i \in 1 .. Len(s) : a[i] = s[i].cmd
  BY CmdsAre
<1>4. b \in Seq(Cmd) /\ Len(b) = n /\ n \in Nat /\ \A i \in 1 .. n : b[i] = q[h + i].cmd
  BY LiveIs
<1>5. c \in Seq(Cmd) /\ Len(c) = Len(st) /\ \A i \in 1 .. Len(st) : c[i] = st[i].cmd
  BY CmdsAre
<1> HIDE DEF a, b, c
<1>6. /\ a \o b \in Seq(Cmd) /\ Len(a \o b) = Len(a) + Len(b)
      /\ \A i \in 1 .. Len(a) + Len(b) : (a \o b)[i] = IF i <= Len(a) THEN a[i] ELSE b[i - Len(a)]
  <2>1. a \in Seq(Cmd) /\ b \in Seq(Cmd)
    BY <1>3, <1>4
  <2> QED BY <2>1, ConcatProperties
<1>7. \A i \in 1 .. n : q[h + i].cmd = st[Len(s) + i].cmd
  <2> TAKE i \in 1 .. n
  <2>1. h + i \in 1 .. Len(q) /\ h < h + i /\ n <= Len(lg) /\ Len(lg) <= Len(st)
    BY <1>1 DEF Follows, LogGood
  <2>2. q[h + i].cmd = lg[Len(lg) - Len(q) + (h + i)]
    BY <2>1 DEF Follows
  <2>3. Len(lg) - Len(q) + (h + i) \in 1 .. Len(lg)
    BY <1>1, <2>1
  <2>4. lg[Len(lg) - Len(q) + (h + i)] = st[Len(st) - Len(lg) + (Len(lg) - Len(q) + (h + i))].cmd
    BY <2>3 DEF LogGood
  <2>5. Len(st) - Len(lg) + (Len(lg) - Len(q) + (h + i)) = Len(s) + i
    BY <1>1, <1>2
  <2> QED BY <2>2, <2>4, <2>5
<1>8. Len(a \o b) = Len(c)
  BY <1>2, <1>3, <1>4, <1>5, <1>6
<1>9. ASSUME NEW i \in 1 .. Len(a \o b) PROVE (a \o b)[i] = c[i]
  <2>1. i \in 1 .. Len(a) + Len(b) /\ i \in 1 .. Len(st)
    BY <1>1, <1>3, <1>4, <1>5, <1>6, <1>8
  <2>2. CASE i <= Len(a)
    <3>1. i \in 1 .. Len(s)
      BY <1>1, <1>3, <2>1, <2>2
    <3> QED BY <1>2, <1>3, <1>5, <1>6, <2>1, <2>2, <3>1
  <2>3. CASE ~(i <= Len(a))
    <3>1. i - Len(a) \in 1 .. n /\ Len(s) + (i - Len(a)) = i
      BY <1>1, <1>3, <1>4, <2>1, <2>3
    <3>2. b[i - Len(a)] = st[i].cmd
      BY <1>4, <1>7, <3>1
    <3> QED BY <1>5, <1>6, <2>1, <2>3, <3>2
  <2> QED BY <2>2, <2>3
<1>10. a \o b = c
  BY <1>5, <1>6, <1>8, <1>9, SeqEqual
<1> QED BY <1>10 DEF a, b, c

\* With the spaces known, the commands are the store moved.
LEMMA IsMirror ==
  ASSUME NEW s \in StoreType, Shaped(s), NEW q \in Seq(MsgType), NEW h, Greets(q, h),
         NEW t \in StoreType, AllDb0(t), Cmds(s) \o LiveCmds(q) = Cmds(t)
  PROVE  Mirrors(s \o Streamed(q), t)
<1> DEFINE b == LiveCmds(q)
           m == Len(s)
           w == Streamed(q)
<1>1. m \in Nat /\ Len(t) \in Nat /\ DOMAIN t = 1 .. Len(t)
  BY StoreIs
<1>2. b \in Seq(Cmd) /\ Len(b) \in Nat
  BY LiveIs, LenProperties
<1>3. w = [i \in 1 .. Len(b) |-> Applied(b[i], "raw")]
  BY <1>2, LenProperties DEF Streamed
<1>4. PICK n \in 0 .. m : \A i \in 1 .. m : s[i].space = IF i <= n THEN "db0" ELSE "raw"
  BY DEF Shaped
<1>5. Cmds(s) \in Seq(Cmd) /\ Len(Cmds(s)) = m /\ \A i \in 1 .. m : Cmds(s)[i] = s[i].cmd
  BY CmdsAre
<1>6. Cmds(t) \in Seq(Cmd) /\ Len(Cmds(t)) = Len(t) /\ \A i \in 1 .. Len(t) : Cmds(t)[i] = t[i].cmd
  BY CmdsAre
<1> DEFINE cs == Cmds(s)
           ct == Cmds(t)
<1> HIDE DEF b, w, cs, ct
<1>7. cs \o b = ct
  BY DEF cs, b, ct
<1>8. Len(t) = m + Len(b) /\ \A i \in 1 .. Len(t) : t[i].cmd = IF i <= m THEN cs[i] ELSE b[i - m]
  <2>0. cs \in Seq(Cmd)
    BY <1>5 DEF cs
  <2>1. /\ Len(cs \o b) = Len(cs) + Len(b)
        /\ \A i \in 1 .. Len(cs) + Len(b) : (cs \o b)[i] = IF i <= Len(cs) THEN cs[i] ELSE b[i - Len(cs)]
    BY <1>2, <2>0, ConcatProperties
  <2> QED BY <1>5, <1>6, <1>7, <2>1 DEF cs, ct
<1>9. /\ w \in Seq([cmd : Cmd, space : {"db0", "raw"}]) /\ Len(w) = Len(b)
      /\ \A i \in 1 .. Len(b) : w[i] = Applied(b[i], "raw")
  <2>1. \A i \in 1 .. Len(b) : b[i] \in Cmd
    BY <1>2, ElementOfSeq
  <2>2. \A i \in 1 .. Len(b) : Applied(b[i], "raw") \in [cmd : Cmd, space : {"db0", "raw"}]
    BY <2>1, AppliedIs
  <2>3. w \in Seq([cmd : Cmd, space : {"db0", "raw"}])
    BY <1>2, <1>3, <2>2, IsASeq
  <2>4. DOMAIN w = 1 .. Len(b)
    BY <1>3
  <2>5. Len(w) = Len(b)
    BY <1>2, <2>3, <2>4, LenProperties
  <2> QED BY <1>3, <2>3, <2>5
<1>10. s \in Seq([cmd : Cmd, space : {"db0", "raw"}])
  BY DEF StoreType
<1> DEFINE u == s \o w
           v == Moved(t, n)
<1>11. /\ u \in Seq([cmd : Cmd, space : {"db0", "raw"}]) /\ Len(u) = m + Len(b)
       /\ \A i \in 1 .. m + Len(b) : u[i] = IF i <= m THEN s[i] ELSE w[i - m]
  <2> DEFINE R == [cmd : Cmd, space : {"db0", "raw"}]
  <2> HIDE DEF R
  <2>1. s \in Seq(R) /\ w \in Seq(R)
    BY <1>9, <1>10 DEF R
  <2>2. /\ s \o w \in Seq(R) /\ Len(s \o w) = Len(s) + Len(w)
        /\ \A i \in 1 .. Len(s) + Len(w) : (s \o w)[i] = IF i <= Len(s) THEN s[i] ELSE w[i - Len(s)]
    BY <2>1, ConcatProperties
  <2> QED BY <1>9, <2>2 DEF R
<1>12. v = [i \in 1 .. Len(t) |-> IF i <= n THEN t[i] ELSE Applied(t[i].cmd, "raw")]
  BY <1>1 DEF Moved
<1> HIDE DEF u, v
<1>13. \A i \in 1 .. Len(t) : t[i] = [cmd |-> t[i].cmd, space |-> "db0"]
  <2>1. \A i \in 1 .. Len(t) : t[i] \in [cmd : Cmd, space : {"db0", "raw"}] /\ t[i].space = "db0"
    BY ElementOfSeq DEF StoreType, AllDb0
  <2> QED BY <2>1
<1>14. \A i \in 1 .. m : s[i] = [cmd |-> s[i].cmd, space |-> s[i].space]
  <2>1. \A i \in 1 .. m : s[i] \in [cmd : Cmd, space : {"db0", "raw"}]
    BY <1>10, ElementOfSeq
  <2> QED BY <2>1
<1>15. ASSUME NEW i \in 1 .. Len(t) PROVE u[i] = v[i]
  <2>1. CASE i <= n
    <3>1. i \in 1 .. m /\ i <= m /\ i \in 1 .. m + Len(b)
      BY <1>1, <1>4, <1>8, <2>1
    <3>2. u[i] = s[i] /\ s[i].space = "db0" /\ t[i].cmd = s[i].cmd
      BY <1>4, <1>5, <1>8, <1>11, <2>1, <3>1 DEF cs
    <3>3. v[i] = t[i]
      BY <1>12, <2>1
    <3> QED BY <1>13, <1>14, <3>1, <3>2, <3>3
  <2>2. CASE ~(i <= n) /\ i <= m
    <3>1. i \in 1 .. m /\ i \in 1 .. m + Len(b)
      BY <1>1, <1>8, <2>2
    <3>2. u[i] = s[i] /\ s[i].space = "raw" /\ t[i].cmd = s[i].cmd
      BY <1>4, <1>5, <1>8, <1>11, <2>2, <3>1 DEF cs
    <3>3. v[i] = Applied(s[i].cmd, "raw")
      BY <1>12, <2>2, <3>2
    <3> QED BY <1>14, <3>1, <3>2, <3>3 DEF Applied
  <2>3. CASE ~(i <= n) /\ ~(i <= m)
    <3>1. i - m \in 1 .. Len(b) /\ i \in 1 .. m + Len(b)
      BY <1>1, <1>2, <1>8, <2>3
    <3>2. u[i] = Applied(b[i - m], "raw")
      BY <1>9, <1>11, <2>3, <3>1
    <3>3. t[i].cmd = b[i - m]
      BY <1>8, <2>3
    <3>4. v[i] = Applied(t[i].cmd, "raw")
      BY <1>12, <2>3
    <3> QED BY <3>2, <3>3, <3>4
  <2>4. i <= n => i <= m
    BY <1>1, <1>4, <1>8
  <2> QED BY <2>1, <2>2, <2>3
<1>16. u = [i \in 1 .. Len(t) |-> u[i]] /\ v = [i \in 1 .. Len(t) |-> v[i]]
  <2>1. u = [i \in 1 .. Len(u) |-> u[i]]
    BY <1>11, LenProperties
  <2> QED BY <1>8, <1>11, <1>12, <2>1
<1>17. u = v
  BY <1>15, <1>16
<1>18. n \in 0 .. Len(t)
  BY <1>1, <1>2, <1>4, <1>8
<1> QED BY <1>17, <1>18 DEF Mirrors, u, v, w

\* Snapshots are found where the greeting ends.
LEMMA SnapshotIs ==
  ASSUME NEW q \in Seq(MsgType), NEW h, Greets(q, h)
  PROVE  /\ \A i \in SnapshotsIn(q) : i = h /\ Brings(q, h)
         /\ Resyncing(q) <=> Brings(q, h)
<1>1. Len(q) \in Nat /\ DOMAIN q = 1 .. Len(q) /\ h \in 0 .. 2 /\ h <= Len(q)
  BY InboxIs DEF Greets
<1>2. ASSUME NEW i \in SnapshotsIn(q) PROVE i = h /\ Brings(q, h)
  <2>1. i \in 1 .. Len(q) /\ q[i].kind = "snapshot"
    BY <1>1 DEF SnapshotsIn
  <2>2. ~(h < i)
    BY <2>1 DEF Greets
  <2>3. h = 2 => i # 1
    BY <2>1 DEF Greets
  <2>4. i = h
    BY <1>1, <2>1, <2>2, <2>3
  <2>5. h # 0
    BY <1>1, <2>1, <2>4
  <2> QED BY <2>1, <2>4, <2>5 DEF Brings
<1>3. Brings(q, h) => h \in SnapshotsIn(q)
  BY <1>1 DEF Brings, SnapshotsIn
<1> QED BY <1>2, <1>3 DEF Resyncing

LEMMA StreamsExact ==
  ASSUME TypeOK, AllLogged => (\A m \in Master : LogGood(log[m], mstore[m])) /\ StreamsGood
  PROVE  StreamIsExact
<1> SUFFICES ASSUME NEW k \in In("streaming"), links[k].fed, Given.cmds \subseteq Propagated
             PROVE  LET q == links[k].inbox
                        m == links[k].to
                    IN  IF Resyncing(q)
                        THEN \A i \in SnapshotsIn(q) : Cmds(q[i].store) \o LiveCmds(q) = Cmds(mstore[m])
                        ELSE IsSuffix(LiveCmds(q), log[m])
  BY DEF StreamIsExact
<1> DEFINE q == links[k].inbox
           m == links[k].to
<1>1. k \in Link /\ links[k].state = "streaming" /\ Fed(k) /\ AllLogged
  BY DEF In, Fed, AllLogged
<1>2. q \in Seq(MsgType) /\ m \in Master
  BY <1>1, Typed, LinkKinds
<1>3. PICK h \in 0 .. 2 : Greets(q, h) /\ Follows(q, h, log[m], mstore[m])
  BY <1>1 DEF StreamsGood
<1>4. log[m] \in Seq(Cmd) /\ mstore[m] \in StoreType /\ LogGood(log[m], mstore[m])
  BY <1>1, <1>2, Typed
<1> HIDE DEF q, m
<1>5. ASSUME NEW i \in SnapshotsIn(q) PROVE Cmds(q[i].store) \o LiveCmds(q) = Cmds(mstore[m])
  <2>1. i = h /\ Brings(q, h)
    BY <1>2, <1>3, SnapshotIs
  <2>2. h \in 1 .. Len(q)
    BY <1>2, <1>3, <2>1, InboxIs DEF Greets, Brings
  <2>3. q[h].store \in StoreType
    BY <1>2, <2>1, <2>2, InboxIs, MessageKinds DEF Brings
  <2>4. Reaches(q[h].store, mstore[m], Len(q) - h)
    BY <1>3, <2>1 DEF Follows
  <2> QED BY <1>2, <1>3, <1>4, <2>1, <2>3, <2>4, Joined
<1>6. IsSuffix(LiveCmds(q), log[m])
  <2> DEFINE b == LiveCmds(q)
             lg == log[m]
             n == Len(q) - h
  <2>1. b \in Seq(Cmd) /\ Len(b) = n /\ n \in Nat /\ \A i \in 1 .. n : b[i] = q[h + i].cmd
    BY <1>2, <1>3, LiveIs
  <2>2. n <= Len(lg) /\ \A i \in 1 .. Len(q) : h < i => q[i].cmd = lg[Len(lg) - Len(q) + i]
    BY <1>3 DEF Follows
  <2>3. Len(q) \in Nat /\ Len(lg) \in Nat /\ h \in 0 .. 2
    BY <1>2, <1>3, <1>4, InboxIs, LenProperties
  <2>4. lg \in Seq(Cmd)
    BY <1>4
  <2> HIDE DEF b, lg
  <2>5. \A i \in 1 .. n : b[i] = lg[Len(lg) - n + i]
    <3> TAKE i \in 1 .. n
    <3>1. h + i \in 1 .. Len(q) /\ h < h + i /\ Len(lg) - Len(q) + (h + i) = Len(lg) - n + i
      BY <2>3
    <3> QED BY <2>1, <2>2, <3>1
  <2>6. IsSuffix(b, lg)
    <3> HIDE DEF n
    <3> QED BY <2>1, <2>2, <2>4, <2>5, SuffixIs
  <2> QED BY <2>6 DEF b, lg
<1> QED BY <1>5, <1>6 DEF q, m
------------------------------------------------------------------------------
(* The settings that are graceful *)

\* What holds before a step in such a setting.
Steady ==
  /\ TypeOK /\ Graceful
  /\ (\A m \in Master : LogGood(log[m], mstore[m])) /\ StreamsGood
  /\ GracefulInv

LEMMA GracefulMeans ==
  ASSUME TypeOK, Graceful
  PROVE  /\ Given.events \subseteq {"close", "restart"}
         /\ AllLogged /\ \A c \in Given.cmds : c \notin Unserializable
BY DEF Graceful, GracefulSettings, AllLogged, Given

\* A link is between FULLRESYNC and its snapshot.
Between(l) == l.state = "streaming" /\ l.inbox # <<>> /\ Head(l.inbox).kind = "snapshot"

LEMMA BetweenIs ==
  ASSUME NEW l \in LinkType, l.state = "streaming", NEW h, Greets(l.inbox, h)
  PROVE  Between(l) <=> h = 1 /\ Brings(l.inbox, h)
<1> DEFINE q == l.inbox
<1>1. q \in Seq(MsgType)
  BY LinkKinds
<1>2. Len(q) \in Nat /\ h \in 0 .. 2 /\ h <= Len(q)
  BY <1>1, InboxIs DEF Greets
<1>3. CASE q = <<>>
  <2>1. Len(q) = 0 /\ h # 1
    BY <1>2, <1>3
  <2> QED BY <1>3, <2>1 DEF Between
<1>4. CASE q # <<>>
  <2>1. Head(q) = q[1] /\ 1 \in 1 .. Len(q)
    BY <1>1, <1>4, TailIs
  <2>2. CASE h = 0
    <3>1. q[1].kind = "command"
      BY <2>1, <2>2 DEF Greets
    <3> QED BY <2>1, <2>2, <3>1 DEF Between
  <2>3. CASE h = 1
    BY <1>4, <2>1, <2>3 DEF Between, Brings
  <2>4. CASE h = 2
    <3>1. q[1].kind = "FULLRESYNC"
      BY <2>4 DEF Greets
    <3> QED BY <2>1, <2>4, <3>1 DEF Between
  <2> QED BY <1>2, <2>2, <2>3, <2>4
<1> QED BY <1>3, <1>4

LEMMA BetweenResyncIs == \A k \in Link : BetweenResync(k) <=> Between(links[k])
BY DEF BetweenResync, Between

\* A link that is not idle is the only one, and no timer is set.
LEMMA OnlyLink ==
  ASSUME Steady, NEW k \in Link, links[k].state # "idle"
  PROVE  /\ \A j \in Link : j # k => links[j] = Idle
         /\ \A m \in Master : timers[m] = 0
         /\ current # NoLink
<1>1. k \in Open
  BY LinksAre DEF Open
<1>2. SingleLink /\ KnownMaster
  BY DEF Steady, GracefulInv
<1>3. \A j \in Link : j # k => links[j] = Idle
  BY <1>1, <1>2 DEF SingleLink, Open
<1>4. ASSUME NEW m \in Master PROVE timers[m] = 0
  <2>1. m \notin Due /\ timers[m] \in Nat
    BY <1>1, <1>2, Typed DEF SingleLink, Steady
  <2> QED BY <2>1 DEF Due
<1>5. current # NoLink
  BY <1>1, <1>2 DEF KnownMaster
<1> QED BY <1>3, <1>4, <1>5

\* A step that moves no commands.
LEMMA Unmoved ==
  ASSUME Steady, UNCHANGED <<masterVars, rstore, masterRunId, applied>>,
         \A j \in Link : links'[j].state = "streaming" => links'[j] = links[j],
         \A j \in Link : BetweenResync(j) => links'[j] = links[j]
  PROVE  Serializable' /\ ReadsGood' /\ Resumes'
<1>0. Serializable /\ ReadsGood /\ Resumes
  BY DEF Steady, GracefulInv
<1>1. \A m \in Master : Id(m)' = Id(m) /\ log'[m] = log[m] /\ mstore'[m] = mstore[m]
  BY DEF Id, masterVars
<1>2. Serializable'
  BY <1>0, <1>1 DEF Serializable
<1>3. ReadsGood'
  <2> SUFFICES ASSUME NEW k \in Link, links'[k].state = "streaming", NEW h \in 0 .. 2,
                      Greets(links'[k].inbox, h)
               PROVE  Reads(links[k].inbox, h, links[k].to)'
    BY DEF ReadsGood
  <2>1. links'[k] = links[k] /\ links[k].to \in Master
    BY Typed, LinkKinds DEF Steady
  <2>2. Reads(links[k].inbox, h, links[k].to)
    BY <1>0, <2>1 DEF ReadsGood
  <2> QED BY <1>1, <2>1, <2>2 DEF Reads
<1>4. Resumes'
  <2> SUFFICES ASSUME NEW m \in Master, masterRunId' = Id(m)',
                      \A k \in Link : BetweenResync(k)' => links'[k].to # m
               PROVE  Reaches(rstore, mstore[m], Len(log[m]) - applied)'
    BY DEF Resumes
  <2>1. ASSUME NEW k \in Link, BetweenResync(k) PROVE links[k].to # m
    <3>1. links'[k] = links[k]
      BY <2>1
    <3>2. BetweenResync(k)'
      BY <2>1, <3>1 DEF BetweenResync
    <3> QED BY <3>1, <3>2
  <2>2. Reaches(rstore, mstore[m], Len(log[m]) - applied)
    BY <1>0, <1>1, <2>1 DEF Resumes
  <2>3. mstore'[m] = mstore[m] /\ log'[m] = log[m] /\ rstore' = rstore /\ applied' = applied
    BY <1>1
  <2> QED BY <2>2, <2>3
<1> QED BY <1>2, <1>3, <1>4

\* A connection is started.
LEMMA StartsGracefully ==
  ASSUME Steady, NEW m \in Master, ReplicaOf(m) \/ TimerFires(m)
  PROVE  GracefulInv'
<1>0. /\ SingleLink /\ KnownMaster /\ AsksForItsOwn
      /\ links \in [Link -> LinkType] /\ timers \in [Master -> Nat]
  BY DEF Steady, GracefulInv, TypeOK
<1>1. BecomeReplica(m) /\ UNCHANGED <<masterVars, rstore, masterRunId, applied>>
  BY DEF ReplicaOf, TimerFires
<1>2. PICK k \in In("idle") :
        links' = [links EXCEPT ![k] = Connecting(m)] /\ current' = k
  BY <1>1 DEF BecomeReplica
<1>3. k \in Link /\ links[k].state = "idle"
  BY <1>2 DEF In
<1>4. /\ links'[k] = Connecting(m) /\ Connecting(m).state = "connecting" /\ Connecting(m) # Idle
      /\ \A j \in Link : j # k => links'[j] = links[j]
  BY <1>0, <1>2, <1>3, LinksAre
<1>5. Open = {} /\ (\A n \in Master : timers'[n] = 0)
  <2>1. CASE ReplicaOf(m)
    <3>1. current = NoLink /\ timers' = timers
      BY <2>1, GracefulMeans DEF ReplicaOf, Steady
    <3>2. Open = {} /\ Due = {}
      BY <1>0, <3>1 DEF KnownMaster
    <3> QED BY <1>0, <3>1, <3>2 DEF Due
  <2>2. CASE TimerFires(m)
    <3>1. m \in Due /\ timers' = [timers EXCEPT ![m] = @ - 1]
      BY <2>2 DEF TimerFires, Due
    <3>2. Open = {} /\ timers[m] = 1 /\ \A n \in Due : n = m
      BY <1>0, <3>1 DEF SingleLink
    <3>3. ASSUME NEW n \in Master PROVE timers'[n] = 0
      <4>1. CASE n = m
        BY <1>0, <3>1, <3>2, <4>1
      <4>2. CASE n # m
        <5>1. n \notin Due /\ timers'[n] = timers[n] /\ timers[n] \in Nat
          BY <1>0, <3>1, <3>2, <4>2
        <5> QED BY <5>1 DEF Due
      <4> QED BY <4>1, <4>2
    <3> QED BY <3>2, <3>3
  <2> QED BY <2>1, <2>2
<1>6. Due' = {} /\ \A j \in Open' : j = k
  BY <1>4, <1>5 DEF Due, Open
<1>7. SingleLink'
  BY <1>6 DEF SingleLink
<1>8. KnownMaster'
  <2>1. current' # NoLink /\ runId' = runId
    BY <1>1, <1>2, <1>3, NoLinkIsNone DEF masterVars
  <2> QED BY <1>0, <1>1, <2>1 DEF KnownMaster
<1>9. AsksForItsOwn'
  BY <1>0, <1>1, <1>4 DEF AsksForItsOwn
<1>10. \A j \in Link : /\ links'[j].state = "streaming" => links'[j] = links[j]
                       /\ BetweenResync(j) => links'[j] = links[j]
  BY <1>3, <1>4 DEF BetweenResync
<1>11. Serializable' /\ ReadsGood' /\ Resumes'
  BY <1>1, <1>10, Unmoved
<1> QED BY <1>7, <1>8, <1>9, <1>11 DEF GracefulInv

\* It asks.
LEMMA AsksGracefully ==
  ASSUME Steady, NEW k \in Link, Connected(k)
  PROVE  GracefulInv'
<1> DEFINE off == IF applied >= 0 THEN applied ELSE -1
           l   == Asking(links[k].to, masterRunId, off)
<1>0. /\ SingleLink /\ KnownMaster /\ AsksForItsOwn /\ applied \in Int /\ masterRunId \in IdType
      /\ links \in [Link -> LinkType]
  BY DEF Steady, GracefulInv, TypeOK
<1>1. /\ links[k].state = "connecting" /\ links' = [links EXCEPT ![k] = l]
      /\ UNCHANGED <<masterVars, followerVars, timers, losses>>
  BY DEF Connected
<1>2. links[k].to \in Master /\ off \in Int
  BY <1>0, <1>1, LinkKinds
<1>3. l.state = "asking" /\ l.id = masterRunId /\ l.off = off /\ l # Idle /\ links[k] # Idle
  <2>1. Asking(links[k].to, masterRunId, off).state = "asking"
    BY DEF Asking
  <2>2. l.id = masterRunId /\ l.off = off
    BY DEF Asking
  <2> QED BY <1>1, <2>1, <2>2, LinksAre
<1> HIDE DEF l, off
<1>4. links'[k] = l /\ \A j \in Link : j # k => links'[j] = links[j]
  BY <1>0, <1>1
<1>5. Open' = Open /\ Due' = Due
  BY <1>1, <1>3, <1>4 DEF Open, Due
<1>6. SingleLink' /\ KnownMaster'
  BY <1>0, <1>1, <1>5 DEF SingleLink, KnownMaster, masterVars, followerVars
<1>7. AsksForItsOwn'
  <2>1. off = (IF applied >= 0 THEN applied ELSE -1)
    BY DEF off
  <2>2. masterRunId' = masterRunId /\ applied' = applied
    BY <1>1 DEF followerVars
  <2> QED BY <1>0, <1>3, <1>4, <2>1, <2>2 DEF AsksForItsOwn
<1>8. \A j \in Link : /\ links'[j].state = "streaming" => links'[j] = links[j]
                      /\ BetweenResync(j) => links'[j] = links[j]
  BY <1>1, <1>3, <1>4 DEF BetweenResync
<1>9. Serializable' /\ ReadsGood' /\ Resumes'
  BY <1>1, <1>8, Unmoved DEF followerVars
<1> QED BY <1>6, <1>7, <1>9 DEF GracefulInv

\* It ends.
LEMMA EndsGracefully ==
  ASSUME Steady, NEW k \in Link, Lose(k) \/ DestroyedCloses(k)
  PROVE  GracefulInv'
<1> DEFINE m == links[k].to
<1>0. /\ SingleLink /\ KnownMaster /\ AsksForItsOwn
      /\ links \in [Link -> LinkType] /\ timers \in [Master -> Nat]
  BY DEF Steady, GracefulInv, TypeOK
<1>1. /\ links[k] # Idle /\ m \in Master /\ links' = [links EXCEPT ![k] = Idle]
      /\ UNCHANGED <<masterVars, followerVars>>
  BY Ended DEF Steady
<1>2. links[k].state # "idle"
  BY <1>0, <1>1, LinkKinds
<1>3. ScheduleReconnect(m, 1)
  BY GracefulMeans DEF Steady, Lose, DestroyedCloses
<1>4. \A n \in Master : timers[n] = 0
  BY <1>2, OnlyLink
<1>5. \A j \in Link : links'[j] = Idle
  BY <1>0, <1>1, <1>2, OnlyLink
<1>6. Open' = {}
  BY <1>5 DEF Open
<1>7. \A n \in Due' : n = m /\ timers'[n] = 1
  <2>1. CASE timers' = timers
    <3>1. Due' = {}
      BY <1>4, <2>1 DEF Due
    <3> QED BY <3>1
  <2>2. CASE timers' = [timers EXCEPT ![m] = @ + 1]
    <3>1. timers'[m] = 1 /\ \A n \in Master : n # m => timers'[n] = 0
      BY <1>0, <1>1, <1>4, <2>2
    <3> QED BY <3>1 DEF Due
  <2> QED BY <1>3, <2>1, <2>2 DEF ScheduleReconnect
<1>8. SingleLink'
  BY <1>6, <1>7 DEF SingleLink
<1>9. KnownMaster'
  <2>1. current' # NoLink /\ masterRunId' = masterRunId /\ runId' = runId
    BY <1>1, <1>2, OnlyLink DEF masterVars, followerVars
  <2> QED BY <1>0, <2>1 DEF KnownMaster
<1>10. AsksForItsOwn'
  BY <1>5, LinksAre DEF AsksForItsOwn
<1>11. ~BetweenResync(k)
  <2>1. CASE Lose(k)
    BY <2>1, GracefulMeans DEF Steady, Lose
  <2>2. CASE DestroyedCloses(k)
    BY <2>2 DEF DestroyedCloses, BetweenResync
  <2> QED BY <2>1, <2>2
<1>12. \A j \in Link : /\ links'[j].state = "streaming" => links'[j] = links[j]
                       /\ BetweenResync(j) => links'[j] = links[j]
  BY <1>0, <1>1, <1>5, <1>11, LinksAre
<1>13. Serializable' /\ ReadsGood' /\ Resumes'
  BY <1>1, <1>12, Unmoved DEF followerVars
<1> QED BY <1>8, <1>9, <1>10, <1>13 DEF GracefulInv

\* It is answered.
LEMMA ServesGracefully ==
  ASSUME Steady, NEW k \in Link, ServePsync(k)
  PROVE  GracefulInv'
<1> DEFINE id  == links[k].id
           off == links[k].off
<1>0. /\ SingleLink /\ KnownMaster /\ Serializable /\ AsksForItsOwn /\ Resumes
      /\ links \in [Link -> LinkType] /\ applied \in Int
  BY DEF Steady, GracefulInv, TypeOK
<1>1. PICK m \in Master : links[k].state = "asking" /\ m = links[k].to
  BY Served DEF Steady
<1>2. PICK fed \in BOOLEAN, q \in Seq(MsgType) :
        /\ links' = [links EXCEPT ![k] = Streaming(m, fed, q)]
        /\ fed => Answers(m, id, off, q)
        /\ ~fed => ~CanSerialize(mstore[m])
  BY <1>1, Served DEF Steady
<1>3. fed = TRUE /\ Answers(m, id, off, q)
  BY <1>0, <1>1, <1>2 DEF Serializable
<1>4. UNCHANGED <<masterVars, followerVars, timers, losses>>
  BY DEF ServePsync
<1> DEFINE l == Streaming(m, TRUE, q)
<1>5. l.state = "streaming" /\ l.inbox = q /\ l.to = m /\ l.fed = TRUE /\ l \in LinkType
  <2>1. TRUE \in BOOLEAN
    OBVIOUS
  <2> QED BY <2>1, StreamingIs
<1>6. /\ \A j \in Link : j # k => links[j] = Idle
      /\ links[k] # Idle /\ l # Idle
  BY <1>1, <1>5, OnlyLink, LinksAre
<1> HIDE DEF l
<1>7. links'[k] = l /\ \A j \in Link : j # k => links'[j] = Idle
  BY <1>0, <1>2, <1>3, <1>6 DEF l
<1>8. Open' = Open /\ Due' = Due
  BY <1>4, <1>6, <1>7 DEF Open, Due
<1>9. SingleLink' /\ KnownMaster'
  BY <1>0, <1>4, <1>8 DEF SingleLink, KnownMaster, masterVars, followerVars
<1>10. AsksForItsOwn'
  BY <1>5, <1>7, LinksAre DEF AsksForItsOwn
<1>11. Serializable'
  <2>1. \A j \in Link : links'[j].state = "streaming" => links'[j].fed
    BY <1>5, <1>7, LinksAre
  <2> QED BY <1>0, <1>4, <2>1 DEF Serializable, masterVars
<1>12. \A n \in Master : Id(n)' = Id(n) /\ log'[n] = log[n] /\ mstore'[n] = mstore[n]
  BY <1>4 DEF Id, masterVars
<1>13. \A n \in Master : masterRunId = Id(n) => Reaches(rstore, mstore[n], Len(log[n]) - applied)
  <2>1. \A j \in Link : ~BetweenResync(j)
    BY <1>1, <1>6, LinksAre DEF BetweenResync
  <2> QED BY <1>0, <2>1 DEF Resumes
<1>14. ReadsGood'
  <2> SUFFICES ASSUME NEW j \in Link, links'[j].state = "streaming", NEW h \in 0 .. 2,
                      Greets(links'[j].inbox, h)
               PROVE  Reads(links[j].inbox, h, links[j].to)'
    BY DEF ReadsGood
  <2>1. j = k
    BY <1>7, LinksAre
  <2>2. links'[j].inbox = q /\ links'[j].to = m /\ Greets(q, h)
    BY <1>5, <1>7, <2>1
  <2>3. masterRunId' = masterRunId /\ applied' = applied /\ rstore' = rstore
    BY <1>4 DEF followerVars
  <2>4. Reads(q, h, m)
    <3>1. CASE /\ CanContinue(m, id, off) /\ Len(q) = Len(log[m]) - off + 1 /\ off >= 0
               /\ Greets(q, 1) /\ ~Brings(q, 1)
      <4>1. h = 1
        BY <2>2, <3>1, OneGreeting
      <4>2. id = masterRunId /\ off = (IF applied >= 0 THEN applied ELSE -1)
        BY <1>0, <1>1 DEF AsksForItsOwn
      <4>3. off = applied /\ applied >= 0
        <5> HIDE DEF off
        <5> QED BY <1>0, <3>1, <4>2
      <4>4. masterRunId = Id(m)
        BY <3>1, <4>2 DEF CanContinue
      <4>5. Reaches(rstore, mstore[m], Len(log[m]) - applied)
        BY <1>1, <1>13, <4>4
      <4>6. Len(log[m]) - applied = Len(q) - 1
        <5>1. Len(log[m]) \in Nat
          BY <1>1, Typed DEF Steady
        <5> HIDE DEF off
        <5> QED BY <1>0, <3>1, <4>3, <5>1
      <4>7. Reaches(rstore, mstore[m], Len(q) - 1)
        BY <4>5, <4>6
      <4> QED BY <3>1, <4>1, <4>3, <4>4, <4>7 DEF Reads
    <3>2. CASE /\ Len(q) = 2 /\ q[1].id = Id(m) /\ q[1].off = Len(log[m])
               /\ Greets(q, 2) /\ Brings(q, 2)
      <4>1. h = 2
        BY <2>2, <3>2, OneGreeting
      <4>2. Len(log[m]) - (Len(q) - 2) = Len(log[m])
        <5>1. Len(log[m]) \in Nat
          BY <1>1, Typed DEF Steady
        <5> QED BY <3>2, <5>1
      <4> QED BY <3>2, <4>1, <4>2 DEF Reads
    <3> QED BY <1>3, <3>1, <3>2 DEF Answers
  <2>5. Id(m)' = Id(m) /\ log'[m] = log[m] /\ mstore'[m] = mstore[m]
    BY <1>1, <1>12
  <2> QED BY <2>2, <2>3, <2>4, <2>5 DEF Reads
<1>15. Resumes'
  <2> SUFFICES ASSUME NEW n \in Master, masterRunId' = Id(n)'
               PROVE  Reaches(rstore, mstore[n], Len(log[n]) - applied)'
    BY DEF Resumes
  <2>1. masterRunId' = masterRunId /\ applied' = applied /\ rstore' = rstore
    BY <1>4 DEF followerVars
  <2> QED BY <1>12, <1>13, <2>1
<1> QED BY <1>9, <1>10, <1>11, <1>14, <1>15 DEF GracefulInv

\* Its master restarts.
LEMMA RestartsGracefully ==
  ASSUME Steady, NEW m \in Master, Restart(m)
  PROVE  GracefulInv'
<1>0. /\ SingleLink /\ KnownMaster /\ Serializable /\ AsksForItsOwn /\ ReadsGood /\ Resumes
      /\ links \in [Link -> LinkType] /\ mstore \in [Master -> StoreType]
      /\ log \in [Master -> Seq(Cmd)] /\ runId \in [Master -> Nat]
  BY DEF Steady, GracefulInv, TypeOK
<1>1. /\ UNCHANGED <<followerVars, timers, links, losses>>
      /\ runId' = [runId EXCEPT ![m] = @ + 1] /\ log' = [log EXCEPT ![m] = <<>>]
      /\ \A k \in Link : links[k] # Idle => links[k].to # m
  BY DEF Restart
<1>2. PICK n \in {Len(mstore[m]) - 1, Len(mstore[m])} \cap Nat :
        mstore' = [mstore EXCEPT ![m] = SubSeq(@, 1, n)]
  BY DEF Restart
<1>3. \A p \in Master : p # m => /\ Id(p)' = Id(p) /\ log'[p] = log[p] /\ mstore'[p] = mstore[p]
                                 /\ runId'[p] = runId[p]
  BY <1>0, <1>1, <1>2 DEF Id
<1>4. SingleLink'
  BY <1>0, <1>1 DEF SingleLink, Open, Due
<1>5. KnownMaster'
  <2>1. ASSUME NEW p \in Master, masterRunId \in {p} \X Nat PROVE masterRunId[2] <= runId'[p]
    <3>1. masterRunId[2] <= runId[p] /\ masterRunId[2] \in Nat /\ runId[p] \in Nat
      BY <1>0, <2>1 DEF KnownMaster
    <3>2. runId'[p] = runId[p] \/ runId'[p] = runId[p] + 1
      BY <1>0, <1>1
    <3> QED BY <3>1, <3>2
  <2> QED BY <1>0, <1>1, <2>1 DEF KnownMaster, Open, Due, followerVars
<1>6. Serializable'
  <2>1. ASSUME NEW p \in Master PROVE CanSerialize(mstore'[p])
    <3>1. CASE p = m
      <4> DEFINE st == mstore[m]
                 s2 == SubSeq(st, 1, n)
      <4>1. st \in StoreType /\ CanSerialize(st) /\ n \in Nat
        BY <1>0 DEF Serializable
      <4>2. Len(st) \in Nat /\ n <= Len(st)
        <5>1. Len(st) \in Nat
          BY <4>1, StoreIs
        <5> QED BY <5>1
      <4> HIDE DEF st
      <4>3. \A i \in 1 .. n : i \in 1 .. Len(st) /\ st[i] \in [cmd : Cmd, space : {"db0", "raw"}]
        <5>1. \A i \in 1 .. n : i \in 1 .. Len(st)
          BY <4>1, <4>2
        <5> QED BY <4>1, <5>1, ElementOfSeq DEF StoreType
      <4>4. /\ s2 \in Seq([cmd : Cmd, space : {"db0", "raw"}]) /\ Len(s2) = IF 1 <= n THEN n - 1 + 1 ELSE 0
            /\ \A i \in 1 .. n - 1 + 1 : s2[i] = st[1 + i - 1]
        BY <4>1, <4>3, SubSeqProperties
      <4>5. mstore'[p] = s2
        BY <1>0, <1>2, <3>1 DEF st
      <4> HIDE DEF s2
      <4>6. Len(s2) = n /\ \A i \in 1 .. n : s2[i] = st[i]
        BY <4>1, <4>4
      <4>7. DOMAIN s2 = 1 .. n /\ DOMAIN st = 1 .. Len(st)
        BY <4>1, <4>4, <4>6, LenProperties DEF StoreType
      <4> QED BY <4>1, <4>3, <4>5, <4>6, <4>7 DEF CanSerialize
    <3>2. CASE p # m
      BY <1>0, <1>3, <3>2 DEF Serializable
    <3> QED BY <3>1, <3>2
  <2> QED BY <1>0, <1>1, <2>1 DEF Serializable
<1>7. AsksForItsOwn'
  BY <1>0, <1>1 DEF AsksForItsOwn, followerVars
<1>8. ReadsGood'
  <2> SUFFICES ASSUME NEW k \in Link, links'[k].state = "streaming", NEW h \in 0 .. 2,
                      Greets(links'[k].inbox, h)
               PROVE  Reads(links[k].inbox, h, links[k].to)'
    BY DEF ReadsGood
  <2>1. links'[k] = links[k] /\ links[k].to \in Master /\ links[k].to # m
    BY <1>0, <1>1, LinkKinds, LinksAre
  <2>2. Reads(links[k].inbox, h, links[k].to)
    BY <1>0, <2>1 DEF ReadsGood
  <2>3. masterRunId' = masterRunId /\ applied' = applied /\ rstore' = rstore
    BY <1>1 DEF followerVars
  <2> QED BY <1>3, <2>1, <2>2, <2>3 DEF Reads
<1>9. Resumes'
  <2> SUFFICES ASSUME NEW p \in Master, masterRunId' = Id(p)',
                      \A k \in Link : BetweenResync(k)' => links'[k].to # p
               PROVE  Reaches(rstore, mstore[p], Len(log[p]) - applied)'
    BY DEF Resumes
  <2>1. masterRunId' = masterRunId /\ applied' = applied /\ rstore' = rstore /\ links' = links
    BY <1>1 DEF followerVars
  <2>2. p # m
    <3>1. SUFFICES ASSUME p = m PROVE FALSE
      OBVIOUS
    <3>2. masterRunId = <<m, runId[m] + 1>> /\ runId[m] \in Nat
      BY <1>0, <1>1, <2>1, <3>1 DEF Id
    <3>3. masterRunId \in {m} \X Nat /\ masterRunId[2] = runId[m] + 1
      BY <3>2
    <3>4. masterRunId[2] <= runId[m]
      BY <1>0, <3>3 DEF KnownMaster
    <3> QED BY <3>2, <3>3, <3>4
  <2>3. \A k \in Link : BetweenResync(k) => links[k].to # p
    BY <2>1 DEF BetweenResync
  <2>4. Reaches(rstore, mstore[p], Len(log[p]) - applied)
    BY <1>0, <1>3, <2>1, <2>2, <2>3 DEF Resumes
  <2> QED BY <1>3, <2>1, <2>2, <2>4
<1> QED BY <1>4, <1>5, <1>6, <1>7, <1>8, <1>9 DEF GracefulInv

\* Its master takes a write.
LEMMA WritesGracefully ==
  ASSUME Steady, NEW m \in Master, NEW c \in Cmd, Write(m, c)
  PROVE  GracefulInv'
<1> DEFINE st2 == Append(mstore[m], Applied(c, "db0"))
           lg2 == Append(log[m], c)
<1>0. /\ SingleLink /\ KnownMaster /\ Serializable /\ AsksForItsOwn /\ ReadsGood /\ Resumes
      /\ links \in [Link -> LinkType] /\ mstore \in [Master -> StoreType]
      /\ log \in [Master -> Seq(Cmd)] /\ rstore \in StoreType /\ applied \in Int
  BY DEF Steady, GracefulInv, TypeOK
<1>1. c \in Propagated /\ c \notin Unserializable
  BY GracefulMeans DEF Steady, Write, AllLogged
<1>2. /\ mstore' = [mstore EXCEPT ![m] = st2] /\ log' = [log EXCEPT ![m] = lg2]
      /\ UNCHANGED <<setting, runId, followerVars, timers, losses>>
  BY <1>1 DEF Write
<1>3. /\ mstore'[m] = st2 /\ log'[m] = lg2
      /\ \A n \in Master : n # m => mstore'[n] = mstore[n] /\ log'[n] = log[n]
  BY <1>0, <1>2
<1>4. /\ masterRunId' = masterRunId /\ applied' = applied /\ rstore' = rstore
      /\ \A n \in Master : Id(n)' = Id(n)
  BY <1>2 DEF followerVars, Id
<1>5. mstore[m] \in StoreType /\ log[m] \in Seq(Cmd) /\ Len(log[m]) \in Nat
  BY <1>0, LenProperties
<1>6. Len(lg2) = Len(log[m]) + 1
  BY <1>5, LogGrows
\* What a socket of m that is streamed to gets.
<1>7. ASSUME NEW k \in Link, links[k].state = "streaming", links[k].to = m
      PROVE  \E h \in 0 .. 2 :
        LET q == links[k].inbox
            p == links'[k].inbox
        IN  /\ q \in Seq(MsgType) /\ p \in Seq(MsgType) /\ links'[k].to = m
            /\ links'[k].state = "streaming" /\ links'[k].fed
            /\ Greets(q, h) /\ Greets(p, h) /\ Len(p) = Len(q) + 1
            /\ \A i \in 1 .. Len(q) : p[i] = q[i]
            /\ Brings(p, h) <=> Brings(q, h)
  <2> DEFINE q == links[k].inbox
             p == Append(q, Live(c))
  <2>1. Fed(k) /\ q \in Seq(MsgType)
    BY <1>0, <1>7, LinkKinds DEF Serializable, Fed
  <2>2. links'[k] = Streaming(m, TRUE, p)
    BY <1>1, <1>7, <2>1, Written DEF Steady
  <2>3. PICK h \in 0 .. 2 : Greets(q, h)
    BY <2>1 DEF Steady, StreamsGood
  <2> HIDE DEF q
  <2>4. /\ p \in Seq(MsgType) /\ Len(p) = Len(q) + 1 /\ Greets(p, h)
        /\ \A i \in 1 .. Len(q) : p[i] = q[i]
        /\ Brings(p, h) <=> Brings(q, h)
    BY <2>1, <2>3, GreetsOn
  <2> HIDE DEF p
  <2>5. TRUE \in BOOLEAN /\ p \in Seq(MsgType)
    BY <2>4
  <2>6. /\ Streaming(m, TRUE, p).state = "streaming" /\ Streaming(m, TRUE, p).to = m
        /\ Streaming(m, TRUE, p).fed = TRUE /\ Streaming(m, TRUE, p).inbox = p
    BY <2>5, StreamingIs
  <2>7. /\ links'[k].state = "streaming" /\ links'[k].to = m /\ links'[k].fed
        /\ links'[k].inbox = p
    BY <2>2, <2>6
  <2> QED BY <2>1, <2>3, <2>4, <2>7 DEF q
\* Every other one is as it was.
<1>8. ASSUME NEW k \in Link, ~(links[k].state = "streaming" /\ links[k].to = m)
      PROVE  links'[k] = links[k]
  BY <1>8, Written DEF Steady, Fed
<1>9. \A k \in Link : /\ links'[k].state = links[k].state
                      /\ links[k] = Idle <=> links'[k] = Idle
                      /\ links[k] # Idle => links'[k].to = links[k].to
  BY <1>7, <1>8, LinksAre
<1>10. Open' = Open /\ Due' = Due
  BY <1>2, <1>9 DEF Open, Due
<1>11. SingleLink' /\ KnownMaster'
  BY <1>0, <1>2, <1>10 DEF SingleLink, KnownMaster, followerVars
<1>12. AsksForItsOwn'
  <2>1. \A k \in Link : links'[k].state = "asking" => links'[k] = links[k]
    BY <1>8, <1>9
  <2> QED BY <1>0, <1>4, <1>9, <2>1 DEF AsksForItsOwn
<1>13. Serializable'
  <2>1. CanSerialize(st2)
    <3> DEFINE st == mstore[m]
    <3>1. st \in StoreType /\ CanSerialize(st)
      BY <1>0 DEF Serializable
    <3> HIDE DEF st
    <3> DEFINE s2 == Append(st, Applied(c, "db0"))
    <3>2. /\ s2 \in StoreType /\ Len(s2) = Len(st) + 1 /\ \A i \in 1 .. Len(st) : s2[i] = st[i]
          /\ s2[Len(st) + 1].cmd = c
      BY <3>1, StoreGrows
    <3> HIDE DEF s2
    <3>3. DOMAIN s2 = 1 .. Len(s2) /\ DOMAIN st = 1 .. Len(st) /\ Len(st) \in Nat
      BY <3>1, <3>2, StoreIs
    <3>4. \A i \in 1 .. Len(s2) : i \in 1 .. Len(st) \/ i = Len(st) + 1
      BY <3>2, <3>3
    <3>5. CanSerialize(s2)
      BY <1>1, <3>1, <3>2, <3>3, <3>4 DEF CanSerialize
    <3> QED BY <3>5 DEF s2, st
  <2>2. \A n \in Master : CanSerialize(mstore'[n])
    BY <1>0, <1>3, <2>1 DEF Serializable
  <2>3. \A k \in Link : links'[k].state = "streaming" => links'[k].fed
    BY <1>0, <1>7, <1>8, <1>9 DEF Serializable
  <2> QED BY <2>2, <2>3 DEF Serializable
<1>14. ReadsGood'
  <2> SUFFICES ASSUME NEW k \in Link, links'[k].state = "streaming", NEW g \in 0 .. 2,
                      Greets(links'[k].inbox, g)
               PROVE  Reads(links[k].inbox, g, links[k].to)'
    BY DEF ReadsGood
  <2>1. CASE links[k].to = m
    <3> DEFINE q == links[k].inbox
               p == links'[k].inbox
    <3>1. PICK h \in 0 .. 2 :
            /\ q \in Seq(MsgType) /\ p \in Seq(MsgType) /\ links'[k].to = m
            /\ Greets(q, h) /\ Greets(p, h) /\ Len(p) = Len(q) + 1
            /\ \A i \in 1 .. Len(q) : p[i] = q[i]
            /\ Brings(p, h) <=> Brings(q, h)
      BY <1>7, <1>9, <2>1
    <3>2. Reads(q, h, m)
      BY <1>0, <1>9, <2>1, <3>1 DEF ReadsGood
    <3>3. Greets(p, g)
      OBVIOUS
    <3> HIDE DEF q, p
    <3>4. g = h
      BY <3>1, <3>3, OneGreeting
    <3>5. Len(q) \in Nat /\ h <= Len(q)
      BY <3>1, InboxIs DEF Greets
    <3>6. h = 2 => p[1].id = Id(m) /\ p[1].off = Len(lg2) - (Len(p) - 2)
      <4>1. h = 2 => 1 \in 1 .. Len(q)
        BY <3>5
      <4>2. Len(lg2) - (Len(p) - 2) = Len(log[m]) - (Len(q) - 2)
        <5> HIDE DEF lg2
        <5> QED BY <1>5, <1>6, <3>1, <3>5
      <4> QED BY <3>1, <3>2, <4>1, <4>2 DEF Reads
    <3>7. h < 2 => masterRunId = Id(m) /\ applied >= 0
      BY <3>2 DEF Reads
    <3>8. h = 1 /\ Brings(p, h) => applied = Len(lg2) - (Len(p) - 1)
      <4>1. Len(lg2) - (Len(p) - 1) = Len(log[m]) - (Len(q) - 1)
        <5> HIDE DEF lg2
        <5> QED BY <1>5, <1>6, <3>1, <3>5
      <4> QED BY <3>1, <3>2, <4>1 DEF Reads
    <3>9. ~Brings(p, h) => Reaches(rstore, st2, Len(p) - h)
      <4> SUFFICES ASSUME ~Brings(p, h) PROVE Reaches(rstore, st2, Len(p) - h)
        OBVIOUS
      <4>1. Reaches(rstore, mstore[m], Len(q) - h) /\ Len(q) - h \in Int
        BY <3>1, <3>2, <3>5 DEF Reads
      <4>2. Reaches(rstore, st2, (Len(q) - h) + 1)
        BY <1>0, <1>5, <4>1, ReachesOn
      <4>3. (Len(q) - h) + 1 = Len(p) - h
        BY <3>1, <3>5
      <4> HIDE DEF st2
      <4> QED BY <4>2, <4>3
    <3> HIDE DEF st2, lg2
    <3>10. /\ h = 2 => p[1].id = Id(m)' /\ p[1].off = Len(log'[m]) - (Len(p) - 2)
           /\ h < 2 => masterRunId' = Id(m)' /\ applied' >= 0
           /\ h = 1 /\ Brings(p, h) => applied' = Len(log'[m]) - (Len(p) - 1)
           /\ ~Brings(p, h) => Reaches(rstore', mstore'[m], Len(p) - h)
      BY <1>3, <1>4, <3>6, <3>7, <3>8, <3>9
    <3> QED BY <3>1, <3>4, <3>10 DEF Reads, p
  <2>2. CASE links[k].to # m
    <3>1. links'[k] = links[k] /\ links[k].to \in Master /\ links[k].state = "streaming"
      BY <1>0, <1>8, <1>9, <2>2, LinkKinds
    <3>2. Reads(links[k].inbox, g, links[k].to)
      BY <1>0, <3>1 DEF ReadsGood
    <3> QED BY <1>3, <1>4, <2>2, <3>1, <3>2 DEF Reads
  <2> QED BY <2>1, <2>2
<1>15. Resumes'
  <2> SUFFICES ASSUME NEW n \in Master, masterRunId' = Id(n)',
                      \A k \in Link : BetweenResync(k)' => links'[k].to # n
               PROVE  Reaches(rstore, mstore[n], Len(log[n]) - applied)'
    BY DEF Resumes
  <2>1. ASSUME NEW k \in Link, BetweenResync(k) PROVE links[k].to # n
    <3>1. links[k].state = "streaming" /\ links[k] # Idle /\ links[k] \in LinkType
      BY <1>0, <2>1, LinksAre DEF BetweenResync
    <3>2. CASE links[k].to = m
      <4> DEFINE q == links[k].inbox
                 p == links'[k].inbox
      <4>1. PICK h \in 0 .. 2 :
              /\ q \in Seq(MsgType) /\ p \in Seq(MsgType) /\ links'[k].to = m
              /\ links'[k].state = "streaming"
              /\ Greets(q, h) /\ Greets(p, h)
              /\ Brings(p, h) <=> Brings(q, h)
        BY <1>7, <3>1, <3>2
      <4>2. h = 1 /\ Brings(q, h)
        BY <2>1, <3>1, <4>1, BetweenIs, BetweenResyncIs
      <4>3. links'[k] \in LinkType
        BY Written DEF Steady
      <4>4. Between(links'[k])
        BY <4>1, <4>2, <4>3, BetweenIs
      <4>5. BetweenResync(k)'
        BY <4>4 DEF Between, BetweenResync
      <4> QED BY <3>2, <4>1, <4>5
    <3>3. CASE links[k].to # m
      <4>1. links'[k] = links[k]
        BY <1>8, <3>3
      <4> QED BY <2>1, <4>1 DEF BetweenResync
    <3> QED BY <3>2, <3>3
  <2>2. Reaches(rstore, mstore[n], Len(log[n]) - applied)
    BY <1>0, <1>4, <2>1 DEF Resumes
  <2>3. CASE n = m
    <3>1. Reaches(rstore, st2, (Len(log[m]) - applied) + 1)
      BY <1>0, <1>5, <2>2, <2>3, ReachesOn
    <3>2. (Len(log[m]) - applied) + 1 = Len(lg2) - applied
      <4> HIDE DEF lg2
      <4> QED BY <1>0, <1>5, <1>6
    <3> HIDE DEF st2, lg2
    <3> QED BY <1>3, <1>4, <2>3, <3>1, <3>2
  <2>4. CASE n # m
    BY <1>3, <1>4, <2>2, <2>4
  <2> QED BY <2>3, <2>4
<1> QED BY <1>11, <1>12, <1>13, <1>14, <1>15 DEF GracefulInv

\* The follower takes a command that its store was lacking.
LEMMA ReachesNext ==
  ASSUME NEW s \in StoreType, NEW t \in StoreType, NEW n \in Nat, n > 0, Reaches(s, t, n),
         NEW c \in Cmd, NEW space \in {"db0", "raw"}, c = t[Len(t) - n + 1].cmd
  PROVE  Reaches(Append(s, Applied(c, space)), t, n - 1)
<1> DEFINE u == Append(s, Applied(c, space))
<1>1. Len(s) \in Nat /\ Len(t) \in Nat
  BY StoreIs
<1>2. Len(u) = Len(s) + 1 /\ (\A i \in 1 .. Len(s) : u[i] = s[i]) /\ u[Len(s) + 1].cmd = c
  BY StoreGrows
<1>3. Len(s) + n = Len(t) /\ \A j \in 1 .. Len(s) : s[j].cmd = t[j].cmd
  BY DEF Reaches
<1> HIDE DEF u
<1>4. Len(t) - n + 1 = Len(s) + 1 /\ n - 1 >= 0 /\ Len(u) + (n - 1) = Len(t)
  BY <1>1, <1>2, <1>3
<1>5. \A j \in 1 .. Len(u) : j \in 1 .. Len(s) \/ j = Len(s) + 1
  BY <1>1, <1>2
<1>6. \A j \in 1 .. Len(u) : u[j].cmd = t[j].cmd
  BY <1>2, <1>3, <1>4, <1>5
<1>7. Reaches(u, t, n - 1)
  BY <1>4, <1>6 DEF Reaches
<1> QED BY <1>7 DEF u

\* It takes what is on its connection.
LEMMA DeliversGracefully ==
  ASSUME Steady, NEW k \in Link, Deliver(k)
  PROVE  GracefulInv'
<1>0. /\ SingleLink /\ KnownMaster /\ Serializable /\ ReadsGood /\ Resumes
      /\ links \in [Link -> LinkType] /\ rstore \in StoreType /\ applied \in Int
  BY DEF Steady, GracefulInv, TypeOK
<1>1. PICK m \in Master, q \in Seq(MsgType) :
        /\ links[k].state = "streaming" /\ links[k].to = m /\ links[k].inbox = q /\ q # <<>>
        /\ links' = [links EXCEPT ![k] = Streaming(m, links[k].fed, Tail(q))]
        /\ Handled(q[1])
  BY Delivered DEF Steady
<1>2. UNCHANGED <<masterVars, role, current, timers, losses>>
  BY DEF Deliver
<1> DEFINE p == Tail(q)
           lg == log[m]
           st == mstore[m]
<1>3. /\ q[1] \in MsgType /\ 1 \in 1 .. Len(q) /\ p \in Seq(MsgType) /\ Len(p) = Len(q) - 1
      /\ Len(q) \in Nat
  BY <1>1, TailIs
<1>4. lg \in Seq(Cmd) /\ Len(lg) \in Nat /\ st \in StoreType /\ LogGood(lg, st)
  BY Typed DEF Steady
<1>5. links[k].fed /\ Fed(k)
  BY <1>0, <1>1 DEF Serializable, Fed
<1>6. PICK h \in 0 .. 2 : Greets(q, h) /\ Follows(q, h, lg, st)
  BY <1>1, <1>5 DEF Steady, StreamsGood
<1> DEFINE g == Rest(h)
<1>7. g \in 0 .. 2 /\ Greets(p, g) /\ (Brings(p, g) <=> h = 2) /\ (h = 2 => g = 1) /\ (h < 2 => g = 0)
  BY <1>1, <1>4, <1>6, GreetsLess, FollowsLess DEF Rest
<1> HIDE DEF lg, st
<1>8. Reads(q, h, m)
  BY <1>0, <1>1, <1>6 DEF ReadsGood
<1>9. \A j \in Link : j # k => links[j] = Idle
  BY <1>1, OnlyLink
<1>10. links[k] \in LinkType /\ (BetweenResync(k) <=> h = 1 /\ Brings(q, h))
  <2>1. links[k] \in LinkType
    BY <1>0
  <2>2. Between(links[k]) <=> h = 1 /\ Brings(q, h)
    BY <1>1, <1>6, <2>1, BetweenIs
  <2> QED BY <2>1, <2>2, BetweenResyncIs
\* The pair it remembers, before.
<1>11. h < 2 => masterRunId = Id(m) /\ applied >= 0 /\ applied = Len(lg) - (Len(q) - h)
  <2> SUFFICES ASSUME h < 2
               PROVE  masterRunId = Id(m) /\ applied >= 0 /\ applied = Len(lg) - (Len(q) - h)
    OBVIOUS
  <2>1. masterRunId = Id(m) /\ applied >= 0
    BY <1>8 DEF Reads
  <2>2. CASE h = 1 /\ Brings(q, h)
    BY <1>8, <2>1, <2>2 DEF Reads, lg
  <2>3. CASE ~(h = 1 /\ Brings(q, h))
    <3>1. \A j \in Link : BetweenResync(j) => j = k
      BY <1>9, LinksAre DEF BetweenResync
    <3>2. Reaches(rstore, st, Len(lg) - applied)
      BY <1>0, <1>10, <2>1, <2>3, <3>1 DEF Resumes, st, lg
    <3>3. ~Brings(q, h)
      <4>1. h = 0 \/ h = 1
        OBVIOUS
      <4> QED BY <2>3, <4>1 DEF Brings
    <3>4. Reaches(rstore, st, Len(q) - h)
      BY <1>8, <3>3 DEF Reads, st
    <3>5. Len(rstore) + (Len(lg) - applied) = Len(rstore) + (Len(q) - h)
      BY <3>2, <3>4 DEF Reaches
    <3>6. Len(rstore) \in Nat
      BY <1>0, StoreIs
    <3> QED BY <1>0, <1>3, <1>4, <2>1, <3>5, <3>6
  <2> QED BY <2>2, <2>3
\* And after.
<1>12. /\ masterRunId' = Id(m) /\ applied' >= 0 /\ applied' = Len(lg) - (Len(p) - g)
       /\ h # 2 => Reaches(rstore', st, Len(p) - g)
  <2>1. CASE h = 2
    <3>1. q[1].kind = "FULLRESYNC" /\ q[1].id = Id(m) /\ q[1].off = Len(lg) - (Len(q) - 2)
      BY <1>6, <1>8, <2>1 DEF Greets, Reads, lg
    <3>2. masterRunId' = q[1].id /\ applied' = q[1].off
      BY <1>1, <3>1 DEF Handled
    <3>3. Len(q) - 2 <= Len(lg)
      BY <1>6, <2>1 DEF Follows
    <3>4. Len(lg) - (Len(q) - 2) = Len(lg) - (Len(p) - g) /\ Len(lg) - (Len(q) - 2) >= 0
      BY <1>3, <1>4, <1>7, <2>1, <3>3
    <3> QED BY <2>1, <3>1, <3>2, <3>4
  <2>2. CASE h = 1 /\ ~Brings(q, h)
    <3>1. q[1].kind = "CONTINUE"
      BY <1>6, <2>2 DEF Greets, Brings
    <3>2. masterRunId' = masterRunId /\ applied' = applied /\ rstore' = rstore
      BY <1>1, <3>1 DEF Handled
    <3>3. Reaches(rstore, st, Len(q) - 1)
      BY <1>8, <2>2 DEF Reads, st
    <3>4. Len(q) - 1 = Len(p) - g /\ Len(lg) - (Len(q) - 1) = Len(lg) - (Len(p) - g)
      BY <1>3, <1>7, <2>2
    <3> QED BY <1>11, <2>2, <3>2, <3>3, <3>4
  <2>3. CASE h = 1 /\ Brings(q, h)
    <3>1. q[1].kind = "snapshot"
      BY <2>3 DEF Brings
    <3>2. masterRunId' = masterRunId /\ applied' = applied /\ rstore' = q[1].store
      BY <1>1, <3>1 DEF Handled
    <3>3. Reaches(q[1].store, st, Len(q) - 1)
      BY <1>6, <2>3 DEF Follows
    <3>4. Len(q) - 1 = Len(p) - g /\ Len(lg) - (Len(q) - 1) = Len(lg) - (Len(p) - g)
      BY <1>3, <1>7, <2>3
    <3> QED BY <1>11, <2>3, <3>2, <3>3, <3>4
  <2>4. CASE h = 0
    <3> DEFINE c == q[1].cmd
               n == Len(q)
    <3>1. q[1].kind = "command" /\ c \in Cmd
      <4>1. q[1].kind = "command"
        BY <1>3, <1>6, <2>4 DEF Greets
      <4> QED BY <1>3, <4>1, MessageKinds
    <3>2. masterRunId' = masterRunId /\ applied' = OffsetAfter /\ rstore' = Append(rstore, Applied(c, "raw"))
      BY <1>1, <3>1 DEF Handled
    <3>3. n \in Nat /\ n > 0 /\ n <= Len(lg)
      BY <1>3, <1>6, <2>4 DEF Follows
    <3>4. Reaches(rstore, st, n)
      <4>1. ~Brings(q, h) /\ Len(q) - h = n
        BY <1>3, <2>4 DEF Brings
      <4>2. Reaches(rstore, st, Len(q) - h)
        BY <1>8, <4>1 DEF Reads, st
      <4> QED BY <4>1, <4>2
    <3>5. c = st[Len(st) - n + 1].cmd
      <4>1. c = lg[Len(lg) - n + 1]
        BY <1>3, <1>6, <2>4 DEF Follows
      <4>2. Len(lg) - n + 1 \in 1 .. Len(lg) /\ Len(st) \in Nat
        BY <1>4, <3>3, StoreIs
      <4>3. lg[Len(lg) - n + 1] = st[Len(st) - Len(lg) + (Len(lg) - n + 1)].cmd
        BY <1>4, <4>2 DEF LogGood
      <4>4. Len(st) - Len(lg) + (Len(lg) - n + 1) = Len(st) - n + 1
        BY <1>4, <3>3, <4>2
      <4> QED BY <4>1, <4>3, <4>4
    <3> HIDE DEF c, n
    <3>6. Reaches(rstore', st, n - 1)
      BY <1>0, <1>4, <3>1, <3>2, <3>3, <3>4, <3>5, ReachesNext
    <3>7. applied >= 0 /\ applied = Len(lg) - n /\ masterRunId = Id(m)
      <4>1. Len(q) - h = n
        BY <1>3, <2>4 DEF n
      <4> QED BY <1>11, <2>4, <4>1
    <3>8. n - 1 = Len(p) - g /\ OffsetAfter = applied + 1
      BY <1>3, <1>7, <2>4, <3>7 DEF n, OffsetAfter
    <3>9. applied + 1 >= 0 /\ applied + 1 = Len(lg) - (Len(p) - g)
      BY <1>0, <1>4, <3>3, <3>7, <3>8
    <3> QED BY <3>2, <3>6, <3>7, <3>8, <3>9
  <2> QED BY <2>1, <2>2, <2>3, <2>4
<1> HIDE DEF p, g
<1> DEFINE l == Streaming(m, TRUE, p)
<1>13. l.state = "streaming" /\ l.inbox = p /\ l.to = m /\ l.fed = TRUE /\ l \in LinkType
  <2>1. TRUE \in BOOLEAN
    OBVIOUS
  <2> QED BY <1>3, <2>1, StreamingIs
<1>14. links' = [links EXCEPT ![k] = l]
  <2>1. links[k].fed = TRUE
    <3>1. links[k].fed \in BOOLEAN
      BY <1>1, <1>10, LinkKinds
    <3> QED BY <1>5, <3>1
  <2> QED BY <1>1, <2>1 DEF p
<1> HIDE DEF l
<1>15. /\ links'[k] = l /\ (\A j \in Link : j # k => links'[j] = Idle)
       /\ l # Idle /\ links[k] # Idle
  BY <1>0, <1>1, <1>9, <1>13, <1>14, LinksAre
<1>16. Open' = Open /\ Due' = Due
  BY <1>2, <1>9, <1>15 DEF Open, Due
<1>17. SingleLink'
  BY <1>0, <1>2, <1>16 DEF SingleLink
<1>18. \A n \in Master : /\ Id(n)' = Id(n) /\ log'[n] = log[n] /\ mstore'[n] = mstore[n]
                         /\ Id(n) = Id(m) => n = m
  BY <1>2 DEF Id, masterVars
<1>19. KnownMaster'
  <2>1. current' # NoLink
    BY <1>1, <1>2, OnlyLink
  <2>2. ASSUME NEW n \in Master, masterRunId' \in {n} \X Nat PROVE masterRunId'[2] <= runId'[n]
    <3>1. masterRunId' = <<m, runId[m]>> /\ runId' = runId
      BY <1>2, <1>12 DEF Id, masterVars
    <3>2. n = m /\ masterRunId'[2] = runId[m]
      BY <2>2, <3>1
    <3>3. runId[m] \in Nat
      BY Typed DEF Steady
    <3> QED BY <3>1, <3>2, <3>3
  <2> QED BY <2>1, <2>2 DEF KnownMaster
<1>20. Serializable'
  <2>1. \A j \in Link : links'[j].state = "streaming" => links'[j].fed
    BY <1>13, <1>15, LinksAre
  <2> QED BY <1>0, <1>18, <2>1 DEF Serializable
<1>21. AsksForItsOwn'
  BY <1>13, <1>15, LinksAre DEF AsksForItsOwn
<1>22. ReadsGood'
  <2> SUFFICES ASSUME NEW j \in Link, links'[j].state = "streaming", NEW e \in 0 .. 2,
                      Greets(links'[j].inbox, e)
               PROVE  Reads(links[j].inbox, e, links[j].to)'
    BY DEF ReadsGood
  <2>1. j = k
    BY <1>15, LinksAre
  <2>2. links'[j].inbox = p /\ links'[j].to = m
    BY <1>13, <1>15, <2>1
  <2>3. e = g
    BY <1>3, <1>7, <2>2, OneGreeting
  <2>4. g # 2 /\ (~Brings(p, g) => h # 2)
    BY <1>7
  <2>5. g = 1 => Len(p) - g = Len(p) - 1
    OBVIOUS
  <2>6. /\ g < 2 => masterRunId' = Id(m)' /\ applied' >= 0
        /\ g = 1 /\ Brings(p, g) => applied' = Len(log'[m]) - (Len(p) - 1)
        /\ ~Brings(p, g) => Reaches(rstore', mstore'[m], Len(p) - g)
    BY <1>12, <1>18, <2>4, <2>5 DEF lg, st
  <2> QED BY <2>2, <2>3, <2>4, <2>6 DEF Reads
<1>23. Resumes'
  <2> SUFFICES ASSUME NEW n \in Master, masterRunId' = Id(n)',
                      \A j \in Link : BetweenResync(j)' => links'[j].to # n
               PROVE  Reaches(rstore, mstore[n], Len(log[n]) - applied)'
    BY DEF Resumes
  <2>1. n = m
    BY <1>12, <1>18
  <2>2. h # 2
    <3>1. SUFFICES ASSUME h = 2 PROVE FALSE
      OBVIOUS
    <3>2. Between(l)
      BY <1>7, <1>13, <3>1, BetweenIs
    <3>3. BetweenResync(k)'
      BY <1>15, <3>2 DEF Between, BetweenResync
    <3> QED BY <1>13, <1>15, <2>1, <3>3
  <2>3. Reaches(rstore', st, Len(p) - g) /\ applied' = Len(lg) - (Len(p) - g)
    BY <1>12, <2>2
  <2>4. Len(lg) - applied' = Len(p) - g
    <3>1. Len(p) \in Nat /\ g \in 0 .. 2
      BY <1>3, <1>7
    <3> QED BY <1>4, <2>3, <3>1
  <2>5. mstore'[n] = st /\ log'[n] = lg
    BY <1>18, <2>1 DEF st, lg
  <2> QED BY <2>3, <2>4, <2>5
<1> QED BY <1>17, <1>19, <1>20, <1>21, <1>22, <1>23 DEF GracefulInv

LEMMA GracefulKept ==
  ASSUME Steady, [Next]_vars
  PROVE  GracefulInv'
<1>1. ~NoOne
  BY GracefulMeans DEF Steady, NoOne
<1>2. UNCHANGED vars => GracefulInv'
  <2> SUFFICES ASSUME UNCHANGED vars PROVE GracefulInv'
    OBVIOUS
  <2>1. GracefulInv
    BY DEF Steady
  <2>2. SingleLink' /\ KnownMaster' /\ Serializable' /\ AsksForItsOwn'
    BY <2>1 DEF GracefulInv, SingleLink, KnownMaster, Serializable, AsksForItsOwn, Open, Due, vars
  <2>3. ReadsGood' /\ Resumes'
    BY Unmoved DEF vars, masterVars
  <2> QED BY <2>2, <2>3 DEF GracefulInv
<1> QED BY <1>1, <1>2, WritesGracefully, RestartsGracefully, StartsGracefully, ServesGracefully,
         AsksGracefully, DeliversGracefully, EndsGracefully
      DEF Next
------------------------------------------------------------------------------
(* The invariant *)

LEMMA InitIInv == Init => IInv
<1> SUFFICES ASSUME Init PROVE IInv
  OBVIOUS
<1>1. TypeOK
  BY InitTypes
<1>2. \A m \in Master : mstore[m] = <<>> /\ log[m] = <<>> /\ timers[m] = 0 /\ runId[m] = 1
  BY DEF Init
<1>3. \A k \in Link : links[k] = Idle /\ links[k].state = "idle"
  BY LinksAre DEF Init
<1>4. (\A m \in Master : LogGood(log[m], mstore[m])) /\ StreamsGood
  <2>1. LogGood(<<>>, <<>>)
    BY DEF LogGood
  <2>2. StreamsGood
    BY <1>3 DEF StreamsGood, Fed
  <2> QED BY <1>2, <2>1, <2>2
<1>5. Open = {} /\ Due = {}
  BY <1>2, <1>3 DEF Open, Due
<1>6. masterRunId = NullId
  BY DEF Init
<1>7. \A m \in Master : masterRunId # Id(m) /\ masterRunId \notin {m} \X Nat
  BY <1>6 DEF NullId, Id
<1>8. SingleLink /\ KnownMaster
  BY <1>5, <1>7 DEF SingleLink, KnownMaster
<1>9. Serializable /\ AsksForItsOwn /\ ReadsGood
  BY <1>2, <1>3 DEF Serializable, AsksForItsOwn, ReadsGood, CanSerialize
<1>10. Resumes
  BY <1>7 DEF Resumes
<1>11. Spaces
  <2>1. AllDb0(<<>>) /\ rstore = <<>>
    BY DEF AllDb0, Init
  <2>2. Shaped(<<>>)
    BY DEF Shaped
  <2> QED BY <1>2, <1>3, <2>1, <2>2 DEF Spaces
<1> QED BY <1>1, <1>4, <1>8, <1>9, <1>10, <1>11 DEF IInv, GracefulInv

LEMMA IInvKept == IInv /\ [Next]_vars => IInv'
<1> SUFFICES ASSUME IInv, [Next]_vars PROVE IInv'
  OBVIOUS
<1>1. TypeOK' /\ setting' = setting
  BY TypesKept DEF IInv
<1>2. (AllLogged' <=> AllLogged) /\ (Graceful' <=> Graceful)
  BY <1>1 DEF AllLogged, Graceful, Given
<1>3. ASSUME AllLogged PROVE (\A m \in Master : LogGood(log'[m], mstore'[m])) /\ StreamsGood'
  BY <1>3, LogsKept, StreamsKept DEF IInv
<1>4. ASSUME Graceful PROVE GracefulInv'
  <2>1. AllLogged
    BY <1>4, GracefulMeans DEF IInv
  <2>2. Steady
    BY <1>4, <2>1 DEF IInv, Steady
  <2> QED BY <2>2, GracefulKept
<1>5. Spaces'
  BY SpacesKept DEF IInv
<1> QED BY <1>1, <1>2, <1>3, <1>4, <1>5 DEF IInv

LEMMA AlwaysIInv == Spec => []IInv
BY InitIInv, IInvKept, PTL DEF Spec

\* StreamIsExact: in every setting in which only logged commands are sent, and for every
\* backlog, a registered socket carries the end of its master's log, or a snapshot
\* and exactly the writes after it.
THEOREM StreamsAreExact == Spec => []StreamIsExact
<1>1. IInv => StreamIsExact
  BY StreamsExact DEF IInv
<1> QED BY AlwaysIInv, <1>1, PTL

LEMMA FollowerExact ==
  ASSUME IInv
  PROVE  FollowerIsExactWhenGraceful
<1> SUFFICES ASSUME Graceful PROVE InStep /\ ResumePointIsExact /\ SingleLink
  BY DEF FollowerIsExactWhenGraceful
<1>1. /\ TypeOK /\ (\A m \in Master : LogGood(log[m], mstore[m])) /\ StreamsGood
      /\ SingleLink /\ Serializable /\ ReadsGood /\ Resumes /\ Spaces
      /\ rstore \in StoreType /\ applied \in Int
  BY GracefulMeans DEF IInv, GracefulInv, TypeOK
<1>2. ASSUME NEW k \in Link, links[k].state = "streaming"
      PROVE  /\ links[k].fed /\ links[k].to \in Master /\ links[k].inbox \in Seq(MsgType)
             /\ \E h \in 0 .. 2 : /\ Greets(links[k].inbox, h)
                                  /\ Follows(links[k].inbox, h, log[links[k].to], mstore[links[k].to])
                                  /\ Reads(links[k].inbox, h, links[k].to)
  <2>1. Fed(k)
    BY <1>1, <1>2 DEF Serializable, Fed
  <2>2. PICK h \in 0 .. 2 : /\ Greets(links[k].inbox, h)
                            /\ Follows(links[k].inbox, h, log[links[k].to], mstore[links[k].to])
    BY <1>1, <2>1 DEF StreamsGood
  <2>3. Reads(links[k].inbox, h, links[k].to)
    BY <1>1, <1>2, <2>2 DEF ReadsGood
  <2>4. links[k].to \in Master /\ links[k].inbox \in Seq(MsgType)
    BY <1>1, <1>2, Typed, LinkKinds
  <2> QED BY <2>1, <2>2, <2>3, <2>4 DEF Fed
<1>3. InStep
  <2> SUFFICES ASSUME NEW k \in In("streaming"), ~Resyncing(links[k].inbox)
               PROVE  Mirrors(rstore \o Streamed(links[k].inbox), mstore[links[k].to])
    BY DEF InStep
  <2> DEFINE q == links[k].inbox
             m == links[k].to
  <2>1. PICK h \in 0 .. 2 : Greets(q, h) /\ Follows(q, h, log[m], mstore[m]) /\ Reads(q, h, m)
    BY <1>2 DEF In
  <2>2. q \in Seq(MsgType) /\ m \in Master
    BY <1>2 DEF In
  <2>3. log[m] \in Seq(Cmd) /\ mstore[m] \in StoreType /\ LogGood(log[m], mstore[m])
    BY <1>1, <2>2, Typed
  <2>4. ~Resyncing(q)
    OBVIOUS
  <2> HIDE DEF q, m
  <2>5. ~Brings(q, h)
    BY <2>1, <2>2, <2>4, SnapshotIs
  <2>6. Reaches(rstore, mstore[m], Len(q) - h)
    BY <2>1, <2>5 DEF Reads
  <2>7. Cmds(rstore) \o LiveCmds(q) = Cmds(mstore[m])
    BY <1>1, <2>1, <2>2, <2>3, <2>6, Joined
  <2>8. Shaped(rstore) /\ AllDb0(mstore[m])
    BY <1>1, <2>2 DEF Spaces
  <2>9. Mirrors(rstore \o Streamed(q), mstore[m])
    BY <1>1, <2>1, <2>2, <2>3, <2>7, <2>8, IsMirror
  <2> QED BY <2>9 DEF q, m
<1>4. ResumePointIsExact
  <2> SUFFICES ASSUME NEW m \in Master, masterRunId = Id(m),
                      \A k \in StreamsOf(m) : ~Resyncing(links[k].inbox)
               PROVE  /\ IsPrefix(Cmds(rstore), Cmds(mstore[m]))
                      /\ Len(rstore) = Len(mstore[m]) - Len(log[m]) + applied
    BY DEF ResumePointIsExact
  <2>1. ASSUME NEW k \in Link, BetweenResync(k), links[k].to = m PROVE FALSE
    <3>1. links[k].state = "streaming" /\ links[k] \in LinkType
      BY <1>1, <2>1, Typed DEF BetweenResync
    <3>2. PICK h \in 0 .. 2 : Greets(links[k].inbox, h)
      BY <1>2, <3>1
    <3>3. Brings(links[k].inbox, h)
      BY <2>1, <3>1, <3>2, BetweenIs, BetweenResyncIs
    <3>4. links[k].inbox \in Seq(MsgType) /\ k \in StreamsOf(m)
      BY <1>2, <2>1, <3>1 DEF StreamsOf, In
    <3> QED BY <3>2, <3>3, <3>4, SnapshotIs
  <2>2. Reaches(rstore, mstore[m], Len(log[m]) - applied)
    BY <1>1, <2>1 DEF Resumes
  <2> DEFINE st == mstore[m]
             a  == Cmds(rstore)
             b  == Cmds(st)
  <2>3. st \in StoreType /\ Len(log[m]) \in Nat
    BY <1>1, Typed
  <2> HIDE DEF st
  <2>4. Len(rstore) \in Nat /\ Len(st) \in Nat
    BY <1>1, <2>3, StoreIs
  <2>5. /\ Len(log[m]) - applied >= 0 /\ Len(rstore) + (Len(log[m]) - applied) = Len(st)
        /\ \A j \in 1 .. Len(rstore) : rstore[j].cmd = st[j].cmd
    BY <2>2 DEF Reaches, st
  <2>6. Len(rstore) = Len(st) - Len(log[m]) + applied /\ Len(rstore) <= Len(st)
    BY <1>1, <2>3, <2>4, <2>5
  <2>7. a \in Seq(Cmd) /\ Len(a) = Len(rstore) /\ \A i \in 1 .. Len(rstore) : a[i] = rstore[i].cmd
    BY <1>1, CmdsAre
  <2>8. b \in Seq(Cmd) /\ Len(b) = Len(st) /\ \A i \in 1 .. Len(st) : b[i] = st[i].cmd
    BY <2>3, CmdsAre
  <2> HIDE DEF a, b
  <2>9. \A i \in 1 .. Len(a) : i \in 1 .. Len(st)
    BY <2>4, <2>6, <2>7
  <2>10. Len(a) <= Len(b) /\ \A i \in 1 .. Len(a) : a[i] = b[i]
    BY <2>5, <2>6, <2>7, <2>8, <2>9
  <2>11. IsPrefix(a, b)
    BY <2>7, <2>8, <2>10, PrefixIs
  <2> QED BY <2>6, <2>11 DEF a, b, st
<1> QED BY <1>1, <1>3, <1>4

\* FollowerIsExactWhenGraceful: when connections end with `close' and only masters
\* restart, the follower's store and what is on its way to it hold every write of the
\* master once and in order, from its snapshot under their keys and from the stream under
\* raw ones; the run id and offset it will ask with say which writes it has; and it has
\* one connection or one timer.
THEOREM FollowerStaysExact == Spec => []FollowerIsExactWhenGraceful
<1>1. IInv => FollowerIsExactWhenGraceful
  BY FollowerExact
<1> QED BY AlwaysIInv, <1>1, PTL
==============================================================================
