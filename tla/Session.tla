------------------------------- MODULE Session -------------------------------
(***************************************************************************)
(* Server.js, _handleConnection: what a connection keeps (the selected     *)
(* database, MULTI's queue) and how the chunks that arrive on it are       *)
(* served.  A chunk holds as many pipelined commands as TCP put together;  *)
(* its `data' handler serves them in one turn of the event loop, and an    *)
(* exception ends the chunk.  SAVE, REPLICAOF, BLPOP and XREAD BLOCK       *)
(* answer in a later turn.                                                 *)
(*                                                                         *)
(* A client matches answers to calls in the order it sent them, as sdk.js  *)
(* does.  The store is the sequence of the writes applied to it.           *)
(***************************************************************************)
EXTENDS Integers, Sequences, FiniteSets, SequencesExt

CONSTANTS Conn,        \* connections
          Db,          \* the databases
          Selected,    \* those clients select
          Kind,        \* the kinds of commands clients send
          Roles,       \* what this.role is during a behaviour
          MaxSent,     \* bound: commands in a behaviour
          MaxCloses    \* bound: connections that end

Kinds == {"SELECT", "MULTI", "EXEC", "DISCARD",
          "write",     \* a data command of _writeCommands
          "read",      \* any other data command
          "throw",     \* a write whose handler throws: LPUSH on a string
          "later"}     \* SAVE, REPLICAOF, BLPOP, XREAD BLOCK

ASSUME ConstantsAssumption ==
  /\ Db \subseteq Nat /\ 0 \in Db /\ Selected \subseteq Db /\ Kind \subseteq Kinds
  /\ Roles \subseteq {"master", "replica"} /\ Roles # {}
  /\ MaxSent \in Nat /\ MaxCloses \in Nat

VARIABLES
  role,     \* this.role
  state,    \* per connection: inMulti, queue, db
  later,    \* per connection: the commands that will be answered later
  store,    \* the writes applied
  wire,     \* per connection: commands on their way to the server
  sent,     \* per connection: the calls its client made
  answers,  \* per connection: the calls answered, in the order of the answers
  issued,   \* calls made so far: the number of the last one
  closes

vars == <<role, state, later, store, wire, sent, answers, issued, closes>>

Fresh == [inMulti |-> FALSE, queue |-> <<>>, db |-> 0]
------------------------------------------------------------------------------
(* Serving one command.  t is the turn: the connection's state, what is shared, *)
(* what was answered, and whether an exception ended it.                        *)

Answer(t, x) == [t EXCEPT !.answers = Append(@, x.id)]

\* Bug: databases are numbered from one.
SelectNext(t, x) == Answer([t EXCEPT !.state.db = x.db + 1], x)
Select(t, x) == Answer([t EXCEPT !.state.db = x.db], x)

\* A nested MULTI is an error and changes nothing.
Multi(t, x) ==
  IF t.state.inMulti THEN Answer(t, x)
  ELSE Answer([t EXCEPT !.state.inMulti = TRUE, !.state.queue = <<>>], x)

Discard(t, x) ==
  Answer([t EXCEPT !.state.inMulti = FALSE, !.state.queue = <<>>], x)

Apply(t, x) ==
  [t EXCEPT !.store = Append(@, [conn |-> x.conn, id |-> x.id, db |-> t.state.db])]

\* What dispatch does with a data command.
Run(t, x) ==
  CASE x.kind = "write" -> Apply(t, x)
    [] x.kind = "read"  -> t
    [] x.kind = "throw" -> [t EXCEPT !.thrown = TRUE]

\* One command of the queue: the exception of an earlier one has left the loop.
RunQueued(t, x) == IF t.thrown THEN t ELSE Run(t, x)

\* Bug: the queue is kept after it ran.
ExecKeepsQueue(t, x) ==
  IF ~t.state.inMulti THEN Answer(t, x) ELSE Answer(FoldLeft(RunQueued, t, t.state.queue), x)

\* EXEC looks at neither the role nor the databases the commands were queued in.
\* The state is reset after the loop, which an exception skips.
Exec(t, x) ==
  IF ~t.state.inMulti THEN Answer(t, x)
  ELSE LET done == FoldLeft(RunQueued, t, t.state.queue)
       IN  Answer(IF done.thrown THEN done
                  ELSE [done EXCEPT !.state.inMulti = FALSE, !.state.queue = <<>>], x)

\* Bug: the answer of a queued command comes in a later turn.
EnqueueSilent(t, x) == [t EXCEPT !.state.queue = Append(@, x), !.later = @ \cup {x.id}]

Enqueue(t, x) == Answer([t EXCEPT !.state.queue = Append(@, x)], x)

\* A data command outside MULTI; a replica refuses writes.
Execute(t, x) ==
  IF role = "replica" /\ x.kind \in {"write", "throw"} THEN Answer(t, x)
  ELSE Answer(Run(t, x), x)

\* The commands with a branch of their own are served at once, inside MULTI too.
Serve(t, x) ==
  IF t.thrown THEN t ELSE
  CASE x.kind = "SELECT"  -> Select(t, x)
    [] x.kind = "MULTI"   -> Multi(t, x)
    [] x.kind = "DISCARD" -> Discard(t, x)
    [] x.kind = "EXEC"    -> Exec(t, x)
    [] x.kind = "later"   -> [t EXCEPT !.later = @ \cup {x.id}]
    [] OTHER -> IF t.state.inMulti THEN Enqueue(t, x) ELSE Execute(t, x)
------------------------------------------------------------------------------
(* Events *)

Send(c, kind, db) ==
  /\ issued < MaxSent
  /\ issued' = issued + 1
  /\ sent' = [sent EXCEPT ![c] = Append(@, [id |-> issued', kind |-> kind])]
  /\ wire' = [wire EXCEPT ![c] =
       Append(@, [kind |-> kind, conn |-> c, id |-> issued', db |-> db])]
  /\ UNCHANGED <<role, state, later, store, answers, closes>>

\* On `data': the next n commands have come in one chunk.
ServeChunk(c) ==
  \E n \in 1 .. Len(wire[c]) :
    LET turn == [state |-> state[c], later |-> later[c], answers |-> answers[c],
                 store |-> store, thrown |-> FALSE]
        end  == FoldLeft(Serve, turn, SubSeq(wire[c], 1, n))
    IN  /\ state'   = [state EXCEPT ![c] = end.state]
        /\ later'   = [later EXCEPT ![c] = end.later]
        /\ answers' = [answers EXCEPT ![c] = end.answers]
        /\ store' = end.store
        /\ wire' = [wire EXCEPT ![c] = SubSeq(@, n + 1, Len(@))]
        /\ UNCHANGED <<role, sent, issued, closes>>

\* A promise settles or a timer fires.
AnswerLater(c) ==
  /\ \E id \in later[c] :
       /\ later' = [later EXCEPT ![c] = @ \ {id}]
       /\ answers' = [answers EXCEPT ![c] = Append(@, id)]
  /\ UNCHANGED <<role, state, store, wire, sent, issued, closes>>

\* A connection ends and its client opens another; its calls are rejected.
Close(c) ==
  /\ closes < MaxCloses /\ closes' = closes + 1
  /\ state'   = [state EXCEPT ![c] = Fresh]
  /\ later'   = [later EXCEPT ![c] = {}]
  /\ wire'    = [wire EXCEPT ![c] = <<>>]
  /\ sent'    = [sent EXCEPT ![c] = <<>>]
  /\ answers' = [answers EXCEPT ![c] = <<>>]
  /\ UNCHANGED <<role, store, issued>>

\* REPLICAOF, from an operator: connections keep what they are in the middle of.
RoleChanges ==
  /\ role' \in Roles \ {role}
  /\ UNCHANGED <<state, later, store, wire, sent, answers, issued, closes>>
------------------------------------------------------------------------------
Init ==
  /\ role \in Roles
  /\ state = [c \in Conn |-> Fresh] /\ later = [c \in Conn |-> {}]
  /\ store = <<>>
  /\ wire = [c \in Conn |-> <<>>] /\ sent = [c \in Conn |-> <<>>]
  /\ answers = [c \in Conn |-> <<>>] /\ issued = 0 /\ closes = 0

Next ==
  \/ \E c \in Conn, kind \in Kind \ {"SELECT"} : Send(c, kind, 0)
  \/ \E c \in Conn, db \in Selected : "SELECT" \in Kind /\ Send(c, "SELECT", db)
  \/ \E c \in Conn : ServeChunk(c) \/ AnswerLater(c) \/ Close(c)
  \/ RoleChanges

Spec == Init /\ [][Next]_vars
------------------------------------------------------------------------------
(* Properties *)

Command == [kind : Kind, conn : Conn, id : Nat, db : Db]

\* The types of the variables.
TypeOK ==
  /\ role \in Roles
  /\ state \in [Conn -> [inMulti : BOOLEAN, queue : Seq(Command), db : Db]]
  /\ later \in [Conn -> SUBSET Nat]
  /\ store \in Seq([conn : Conn, id : Nat, db : Db])
  /\ wire \in [Conn -> Seq(Command)] /\ sent \in [Conn -> Seq([id : Nat, kind : Kind])]
  /\ answers \in [Conn -> Seq(Nat)] /\ issued \in Nat /\ closes \in Nat

Ids(Q)    == {x.id : x \in Q}
InOrder(q) == \A i, j \in DOMAIN q : i < j => q[i].id < q[j].id
AllBefore(A, B) == \A m \in A, n \in B : m < n

\* The writes of connection c that were applied.
Mine(c) == {w \in Range(store) : w.conn = c}

\* What a client wrote takes effect in the order it was sent and once, whether it ran
\* at once or in a transaction: what is applied comes before what is queued, and that
\* before what is on its way.
OnceAndInOrder ==
  \A c \in Conn :
    LET applied == Ids(Mine(c))
        queued  == Ids(Range(state[c].queue))
        coming  == Ids(Range(wire[c]))
    IN  /\ \A i, j \in DOMAIN store :
             i < j /\ store[i].conn = c /\ store[j].conn = c => store[i].id < store[j].id
        /\ InOrder(state[c].queue) /\ InOrder(wire[c])
        /\ AllBefore(applied, queued \cup coming) /\ AllBefore(queued, coming)

\* The calls of a client that are answered at once, and those answered later.
AtOnce(c)  == Ids({x \in Range(sent[c]) : x.kind # "later"})
Delayed(c) == Ids({x \in Range(sent[c]) : x.kind = "later"})

\* A client that takes the answers in order gives each to the call it belongs to: calls
\* answered at once are answered in order and without a gap.  The commands that are
\* answered later are set apart; they are answered once.
AnswersMatchCalls ==
  \A c \in Conn :
    /\ IsInjective(answers[c])
    /\ \A i, j \in DOMAIN answers[c] :
         i < j /\ answers[c][i] \in AtOnce(c) /\ answers[c][j] \in AtOnce(c) =>
           answers[c][i] < answers[c][j]
    /\ \A n \in AtOnce(c) \cap Range(answers[c]) : \A m \in AtOnce(c) :
         m < n => m \in Range(answers[c])

\* A call is answered, or will be: it is on its way, or a later turn answers it.
NoCallIsForgotten ==
  \A c \in Conn : Ids(Range(sent[c])) = Ids(Range(wire[c])) \cup later[c] \cup Range(answers[c])

\* Both: every call is answered, once and by its own answer.
CallsAreAnswered == AnswersMatchCalls /\ NoCallIsForgotten
==============================================================================
