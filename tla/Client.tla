-------------------------------- MODULE Client --------------------------------
(***************************************************************************)
(* client/sdk.js, RedisClient: a client that keeps one connection, gives   *)
(* each answer to the oldest pending call, keeps the calls made while it   *)
(* has no connection for later, and opens the next connection when a timer *)
(* says so.  Node calls `close' after every loss, and `end' before it when *)
(* the server ended the connection: both run handleEnd.                    *)
(*                                                                         *)
(* The server runs what arrives on a connection in order and answers each  *)
(* call; its answers are bytes and arrive in chunks cut anywhere.  How     *)
(* long a timer runs (the doubling backoff) is left out: it fires at some  *)
(* time.  `error' has a listener, without which Node ends the process.     *)
(***************************************************************************)
EXTENDS Parser, FiniteSets

CONSTANTS Call,         \* the calls made, numbered in the order they are made
          Pipeline,     \* those made with pipeline().exec()
          Socket,       \* the sockets it may open, numbered
          Surroundings, \* the sets of faults to consider
          Left,         \* bound: how many bytes of what was sent a chunk may leave behind
          MaxTrouble    \* bound: faults in a behaviour

Faults == {"refuse",        \* a connection attempt may fail
           "lose",          \* a connection may break, between two answers
           "tear",          \* ... or in the middle of one
           "end",           \* the server may end a connection
           "between",       \* `close' may come late: calls and timers before it
           "push",          \* the server may publish to this client
           "password",      \* the client has a password
           "bad password",  \* ... and the server refuses it
           "disconnect"}    \* disconnect() may be called

ASSUME ConstantsAssumption ==
  /\ Call \in SUBSET (1 .. 9) /\ Pipeline \subseteq Call /\ Socket \subseteq Nat
  /\ Surroundings \subseteq SUBSET Faults /\ MaxTrouble \in Nat
  /\ Left \subseteq Nat /\ 0 \in Left

VARIABLES
  faults,   \* the surroundings of this behaviour
  client,   \* the fields of the RedisClient
  socket,   \* the sockets, the client's handlers on them and the server's side
  outcome,  \* per call: what its promise came to
  made,     \* the last call made
  trouble   \* faults so far

vars == <<faults, client, socket, outcome, made, trouble>>

Nobody == 0     \* no call; no socket

Auth == 0       \* the AUTH that is sent when the client has a password

\* The promise of a call; the same for the node of an answer.
Unmade   == [state |-> "unmade", node |-> Incomplete.node]
Waiting  == [state |-> "waiting", node |-> Incomplete.node]
Rejected == [state |-> "rejected", node |-> Incomplete.node]
Resolved(node) == [state |-> "resolved", node |-> node]

HasPassword == faults \cap {"password", "bad password"} # {}

\* What the server answers, and the node it is.
Text(id) == <<96 + id>>
Encoded(id) ==
  CASE id = Auth     -> IF "bad password" \in faults THEN EncodeError(<<>>) ELSE EncodeSimple(<<>>)
    [] id % 3 = 1    -> EncodeInteger(id)
    [] id % 3 = 2    -> EncodeBulk(Text(id))
    [] OTHER         -> EncodeArray(<<Text(id)>>)
NodeOf(id) ==
  CASE id % 3 = 1 -> [type |-> "integer", value |-> <<id>>]
    [] id % 3 = 2 -> [type |-> "bulk", value |-> Text(id)]
    [] OTHER      -> [type |-> "array", value |-> <<[type |-> "bulk", value |-> Text(id)]>>]
------------------------------------------------------------------------------
(* The client's functions.  t is what they change: the client, the sockets, the *)
(* outcomes.                                                                     *)

Settle(t, id, result) == [t EXCEPT !.outcome[id] = IF @ = Waiting THEN result ELSE @]

\* A promise that was given as the reject of a connect().
RejectOwner(t, id) == IF id = Nobody THEN t ELSE Settle(t, id, Rejected)

\* What is written before a socket opened is sent when it does.
WriteFor(t, id, attempt) ==
  [t EXCEPT !.client.pending = Append(@, [call |-> id, attempt |-> attempt]),
            !.socket[t.client.current].wrote = Append(@, id)]

\* _writeAndTrack
WriteAndTrack(t, id) == WriteFor(t, id, Nobody)

\* Bug: the queue is not emptied.
FlushKeepsQueue(t) == FoldLeft(WriteAndTrack, t, t.client.offline)

\* Not when the connection has ended, or disconnect() was called, before AUTH was answered.
FlushOfflineQueue(t) ==
  IF ~t.client.connected THEN t
  ELSE FoldLeft(WriteAndTrack, [t EXCEPT !.client.offline = <<>>], t.client.offline)

\* connect() is done: the queue, then the pipelines that waited for it.
AnnounceConnect(t, owner) ==
  LET flushed == FlushOfflineQueue(t)
      waiting == flushed.client.waiting \o (IF owner \in Pipeline THEN <<owner>> ELSE <<>>)
  IN  FoldLeft(WriteAndTrack, [flushed EXCEPT !.client.waiting = <<>>], waiting)

\* connect(), when there is neither a connection nor an attempt: _openSocket.  owner is
\* the call whose promise is rejected when the attempt fails.
Connect(t, owner) ==
  LET s == Cardinality({x \in Socket : t.socket[x].state # "none"}) + 1
  IN  [t EXCEPT !.client.connecting = TRUE, !.client.current = s,
                !.socket[s] = [@ EXCEPT !.state = "connecting", !.owner = owner]]

Idle(t) == ~t.client.connected /\ ~t.client.connecting

\* The rejected promise of an AUTH rejects the connect() it belongs to.
RejectPending(t) ==
  LET RejectOne(u, p) ==
        IF p.call = Auth THEN RejectOwner(u, u.socket[p.attempt].owner) ELSE Settle(u, p.call, Rejected)
  IN  FoldLeft(RejectOne, [t EXCEPT !.client.pending = <<>>], t.client.pending)

\* Bug: nothing is tried again before the first connection.
ScheduleOnceConnected(t) ==
  IF t.client.reconnect /\ t.client.connected THEN [t EXCEPT !.client.timers = @ + 1] ELSE t

ScheduleReconnect(t) ==
  IF t.client.reconnect THEN [t EXCEPT !.client.timers = @ + 1] ELSE t

HandleEnd(t) ==
  RejectPending([ScheduleReconnect(t) EXCEPT !.client.connected = FALSE])

\* call(), with the offline queue.
CallNow(t, id) ==
  IF t.client.connected THEN WriteAndTrack(t, id)
  ELSE LET kept == [t EXCEPT !.client.offline = Append(@, id)]
       IN  IF t.client.connecting THEN kept ELSE Connect(kept, id)

\* pipeline().exec() does not use the queue: it waits for the connection itself.
ExecPipeline(t, id) ==
  IF t.client.connected THEN WriteAndTrack(t, id)
  ELSE IF t.client.connecting THEN [t EXCEPT !.client.waiting = Append(@, id)]
  ELSE Connect(t, id)

\* One message of a chunk goes to the oldest pending call; with none, it is a
\* publication.  The answer to AUTH is looked at once the chunk is done.
HandOut(t, node) ==
  IF t.client.pending = <<>> THEN t
  ELSE LET first == Head(t.client.pending)
           taken == [t EXCEPT !.client.pending = Tail(@)]
       IN  IF first.call = Auth
           THEN [taken EXCEPT !.authenticated = Append(@, [attempt |-> first.attempt, node |-> node])]
           ELSE Settle(taken, first.call, Resolved(node))

AfterAuth(t, a) ==
  LET owner == t.socket[a.attempt].owner
  IN  IF a.node.type = "error" THEN RejectOwner(t, owner) ELSE AnnounceConnect(t, owner)

\* `data': what the parser made of a chunk.
OnData(t, fed) ==
  LET handed == FoldLeft(HandOut, [t EXCEPT !.client.buffer = fed.buffer], fed.messages)
  IN  FoldLeft(AfterAuth, handed, handed.authenticated)

\* onConnect, of an attempt that was not given up.
OnConnect(t, s) ==
  LET connected == [t EXCEPT !.client.connected = TRUE, !.client.connecting = FALSE]
  IN  IF HasPassword THEN WriteFor(connected, Auth, s)
      ELSE AnnounceConnect(connected, t.socket[s].owner)
------------------------------------------------------------------------------
(* Events *)

State == [client |-> client, socket |-> socket, outcome |-> outcome, authenticated |-> <<>>]
Becomes(t) ==
  \E u \in {t} : client' = u.client /\ socket' = u.socket /\ outcome' = u.outcome

Gone == {"refused", "closed"}
Unused == {s \in Socket : socket[s].state = "none"}

\* Node reports `close' soon after `end': before the application or a timer gets to
\* run, unless the surroundings say otherwise.
Quiet == "between" \in faults \/ \A s \in Socket : socket[s].state # "ended"

Trouble(fault) == fault \in faults /\ trouble < MaxTrouble /\ trouble' = trouble + 1

MakeCall ==
  /\ made + 1 \in Call /\ made' = made + 1
  /\ Quiet
  /\ Idle(State) => Unused # {}
  /\ LET t == [State EXCEPT !.outcome[made'] = Waiting]
     IN  Becomes(IF made' \in Pipeline THEN ExecPipeline(t, made') ELSE CallNow(t, made'))
  /\ UNCHANGED <<faults, trouble>>

Opens(s) ==
  /\ socket[s].state = "connecting"
  /\ Becomes(OnConnect([State EXCEPT !.socket[s].state = "open"], s))
  /\ UNCHANGED <<faults, made, trouble>>

\* `error' runs onError and `close' then handleEnd, in one turn.
Refused(s) ==
  /\ socket[s].state = "connecting" /\ Trouble("refuse")
  /\ LET gone == [State EXCEPT !.socket[s].state = "refused", !.client.connecting = FALSE]
     IN  Becomes(HandleEnd(RejectOwner(gone, socket[s].owner)))
  /\ UNCHANGED <<faults, made>>

\* What is left on the server's side of a connection is run even when the client has
\* seen it break; the answers go nowhere then.
Serve(s) ==
  /\ socket[s].state \notin {"none", "connecting", "refused"}
  /\ socket[s].served < Len(socket[s].wrote)
  /\ socket' = [socket EXCEPT ![s].served = @ + 1,
       ![s].in = IF socket[s].state \in {"open", "closing"}
                 THEN @ \o Encoded(socket[s].wrote[socket[s].served + 1]) ELSE @]
  /\ UNCHANGED <<faults, client, outcome, made, trouble>>

Data(s) ==
  \E left \in {n \in Left : n < Len(socket[s].in)} :
    LET n == Len(socket[s].in) - left
        t == [State EXCEPT !.socket[s].in = SubSeq(@, n + 1, Len(@))]
    IN  /\ \E fed \in {Feed(client.buffer, SubSeq(socket[s].in, 1, n))} : Becomes(OnData(t, fed))
        /\ UNCHANGED <<faults, made, trouble>>

\* A publication on a channel this connection subscribed.
Push(s) ==
  /\ socket[s].state = "open" /\ Trouble("push")
  /\ socket' = [socket EXCEPT ![s].in = @ \o EncodeSimple(<<>>)]
  /\ UNCHANGED <<faults, client, outcome, made>>

\* `close', after an error or after both sides ended.  The `error' and `close' listeners
\* of the attempt that opened the socket are still there.
Closed(t, s) ==
  HandleEnd([t EXCEPT !.socket[s].state = "closed", !.socket[s].in = <<>>,
                      !.client.connecting = FALSE])

Lose(s) ==
  /\ socket[s].state = "open"
  /\ \/ Trouble("lose") /\ client.buffer = <<>>
     \/ Trouble("tear")
  /\ Becomes(Closed(State, s))
  /\ UNCHANGED <<faults, made>>

\* `end': what the server sent before has arrived.
Ends(s) ==
  /\ socket[s].in = <<>>
  /\ \/ socket[s].state = "open" /\ Trouble("end")
     \/ socket[s].state = "closing" /\ UNCHANGED trouble
  /\ Becomes(HandleEnd([State EXCEPT !.socket[s].state = "ended"]))
  /\ UNCHANGED <<faults, made>>

Closes(s) ==
  /\ socket[s].state = "ended"
  /\ Becomes(Closed(State, s))
  /\ UNCHANGED <<faults, made, trouble>>

\* connect(): a timer has no promise anybody looks at.
TimerFires ==
  /\ client.timers > 0 /\ Quiet
  /\ Idle(State) => Unused # {}
  /\ LET t == [State EXCEPT !.client.timers = @ - 1]
     IN  Becomes(IF Idle(t) THEN Connect(t, Nobody) ELSE t)
  /\ UNCHANGED <<faults, made, trouble>>

\* disconnect(), between connections or on an open one.
Disconnect ==
  /\ Trouble("disconnect") /\ client.current # Nobody /\ ~client.connecting
  /\ client' = [client EXCEPT !.reconnect = FALSE, !.connected = FALSE]
  /\ socket' = [socket EXCEPT ![client.current].state = IF @ = "open" THEN "closing" ELSE @]
  /\ UNCHANGED <<faults, outcome, made>>
------------------------------------------------------------------------------
Init ==
  /\ faults \in Surroundings
  /\ client = [connected |-> FALSE, connecting |-> FALSE, reconnect |-> TRUE, current |-> Nobody,
               pending |-> <<>>, offline |-> <<>>, waiting |-> <<>>, buffer |-> <<>>, timers |-> 0]
  /\ socket = [s \in Socket |->
       [state |-> "none", owner |-> Nobody, wrote |-> <<>>, served |-> 0, in |-> <<>>]]
  /\ outcome = [id \in Call |-> Unmade]
  /\ made = 0 /\ trouble = 0

Next ==
  \/ MakeCall \/ TimerFires \/ Disconnect
  \/ \E s \in Socket : \/ Opens(s) \/ Refused(s) \/ Serve(s) \/ Data(s) \/ Push(s)
                       \/ Lose(s) \/ Ends(s) \/ Closes(s)

\* WF_vars(Data(s)), with the guard and the effect of Data in its place: bytes do not stay
\* on their way for ever.
Delivery(s) ==
  <>[](socket[s].in # <<>>) => []<><<Len(socket'[s].in) < Len(socket[s].in)>>_socket

\* Timers fire, connections are made in the end, the server serves, bytes arrive.
Fairness ==
  /\ WF_vars(TimerFires)
  /\ \A s \in Socket : WF_vars(Opens(s)) /\ WF_vars(Serve(s)) /\ Delivery(s) /\ WF_vars(Closes(s))

Spec == Init /\ [][Next]_vars /\ Fairness
------------------------------------------------------------------------------
(* Properties *)

SocketStates == {"none", "connecting", "refused", "open", "closing", "ended", "closed"}
Ids == Call \cup {Auth}

\* The types of the variables.
TypeOK ==
  /\ faults \in SUBSET Faults
  /\ client \in [connected : BOOLEAN, connecting : BOOLEAN, reconnect : BOOLEAN,
                 current : Socket \cup {Nobody}, pending : Seq([call : Ids, attempt : Socket \cup {Nobody}]),
                 offline : Seq(Call), waiting : Seq(Pipeline), buffer : Seq(0 .. 255), timers : Nat]
  /\ socket \in [Socket -> [state : SocketStates, owner : Call \cup {Nobody}, wrote : Seq(Ids),
                            served : Nat, in : Seq(0 .. 255)]]
  /\ \A id \in Call : outcome[id].state \in {"unmade", "waiting", "rejected", "resolved"}
  /\ made \in Nat /\ trouble \in Nat

\* A call gets the answer the server gave to it, however the answers were cut into
\* chunks and however often the connection broke.  It does not when the parser kept half
\* an answer of a broken connection, a publication came while a call was pending, the
\* application called again between `end' and `close', or after disconnect() before the
\* old connection was closed.
AnswersMatchCalls ==
  faults \cap {"tear", "push", "between", "disconnect"} = {} =>
    \A id \in Call : outcome[id].state = "resolved" => outcome[id].node = NodeOf(id)

\* A call whose promise is not settled is in exactly one of the places that will
\* settle it: on a connection, in the offline queue, or waiting for the connection.
\* A rejected call may still be in the offline queue.
NoCallIsForgotten ==
  LET owners == {socket[s].owner : s \in {x \in Socket : socket[x].state = "connecting"
                    \/ \E i \in DOMAIN client.pending : client.pending[i] = [call |-> Auth, attempt |-> x]}}
      Times(id) ==
          Cardinality({i \in DOMAIN client.pending : client.pending[i].call = id})
        + Cardinality({i \in DOMAIN client.offline : client.offline[i] = id})
        + Cardinality({i \in DOMAIN client.waiting : client.waiting[i] = id})
        + (IF id \in Pipeline \cap owners THEN 1 ELSE 0)
  IN  \A id \in Call : outcome[id] = Waiting => Times(id) = 1

\* No call is sent twice, whatever happens to the connections it was made over.
SentOnce ==
  LET Sent == FlattenSeq([s \in 1 .. Cardinality(Socket) |-> socket[s].wrote])
      IsCall(id) == id # Auth
  IN  IsInjective(SelectSeq(Sent, IsCall))

\* The calls of one connection are sent in the order they were made, those that waited
\* in the offline queue included.  A client with a password does not keep that order: a
\* call made while AUTH is being answered overtakes the queue.  Nor do pipelines made
\* without a connection, which come after the queue.
SentInOrder ==
  (~HasPassword /\ faults \cap {"between", "disconnect"} = {}) =>
    \A s \in Socket :
      LET IsCall(id) == id \notin Pipeline
          calls == SelectSeq(socket[s].wrote, IsCall)
      IN  \A i, j \in DOMAIN calls : i < j => calls[i] < calls[j]

\* Every call's promise is settled in the end, when attempts fail a few times and
\* connections break between answers.  It is not when the server refuses the
\* password: the queue of that client is never flushed.
EveryCallIsSettled ==
  (faults \subseteq {"refuse", "lose", "end", "password"}) =>
    \A id \in Call : outcome[id] = Waiting ~> outcome[id] # Waiting

\* Together: from the call to its answer a call is in one place, is sent once at most, and
\* not before those made earlier.
CallsAreKeptInOrder == TypeOK /\ NoCallIsForgotten /\ SentOnce /\ SentInOrder
==============================================================================
