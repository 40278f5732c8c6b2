------------------------------- MODULE Blocking -------------------------------
(***************************************************************************)
(* Server.js: BLPOP, BRPOP and XREAD with BLOCK.  A call that finds nothing *)
(* leaves a timer behind that tries again every 50 ms until there is        *)
(* something, the deadline has passed or the socket is destroyed; nothing   *)
(* orders the timers of two waiting clients.                                *)
(*                                                                         *)
(* A list is one under the key the call looks up, which is the key as the   *)
(* client wrote it: what is pushed there is pushed by a master's stream, or *)
(* by clients when the call names the {dbN}: key.                           *)
(***************************************************************************)
EXTENDS Integers, Sequences, FiniteSets, SequencesExt

CONSTANTS Client,       \* sockets, with one call at a time
          List,         \* the keys of lists
          Pops,         \* the calls to consider, as [keys, right]: BLPOP or BRPOP of lists in an order
          MaxPushes,    \* bound: elements and entries together
          MaxCalls,     \* bound: calls of all clients together
          MaxTime,      \* bound on the clock
          Surroundings  \* the sets of circumstances to consider

Circumstances == {"gone",        \* a client leaves before its socket is destroyed here
                  "bad option"}  \* XREAD with a COUNT that is no number

ASSUME ConstantsAssumption ==
  /\ Pops \subseteq [keys : Seq(List), right : BOOLEAN]
  /\ MaxPushes \in Nat /\ MaxCalls \in Nat /\ MaxTime \in Nat
  /\ Surroundings \subseteq SUBSET Circumstances

VARIABLES
  around,  \* the circumstances of this behaviour
  lists,   \* the elements of each list: numbers, in the order they were pushed
  taken,   \* the elements other clients popped
  lost,    \* the elements written to nobody
  stream,  \* the identifiers of a stream's entries, in the order they were added
  now,     \* Date.now()
  conn,    \* each socket: "open", "gone" or "destroyed"
  wait,    \* what each client's timer closes over
  calls,   \* how many calls each client has made
  got      \* each client's answers

vars == <<around, lists, taken, lost, stream, now, conn, wait, calls, got>>

Never  == MaxTime + 1      \* Number.MAX_SAFE_INTEGER
NoWait == [kind |-> "none"]
WaitPop(keys, right, deadline)   == [kind |-> "pop", keys |-> keys, right |-> right, deadline |-> deadline]
WaitRead(after, count, deadline) == [kind |-> "read", after |-> after, count |-> count, deadline |-> deadline]

Element(v)  == [kind |-> "element", values |-> <<v>>]
Entries(es) == [kind |-> "entries", values |-> es]
Nil         == [kind |-> "nil", values |-> <<>>]
Error       == [kind |-> "error", values |-> <<>>]
------------------------------------------------------------------------------
(* Trying *)

\* The identifier of the entry at a place; clients begin at 0-0.
Id(p) == IF p = 0 THEN 0 ELSE stream[p]

\* xreadNonBlocking: the entries past an identifier, the first `count' of them.  They are
\* told by their places: fields tell two entries with one identifier apart.
EntriesAfter(id, count) ==
  LET from == Max({0} \cup {p \in DOMAIN stream : stream[p] <= id})
      last == IF from + count < Len(stream) THEN from + count ELSE Len(stream)
  IN  [n \in 1 .. last - from |-> from + n]

Ready(w) ==
  IF w.kind = "pop" THEN \E k \in Range(w.keys) : lists[k] # <<>> ELSE EntriesAfter(w.after, w.count) # <<>>

\* tryPop: the first of the keys that has an element.
Taken(w, k) == IF w.right THEN Last(lists[k]) ELSE Head(lists[k])
FirstFull(w, i) == lists[w.keys[i]] # <<>> /\ \A j \in 1 .. i - 1 : lists[w.keys[j]] = <<>>

Hand(c, v) ==
  /\ got' = [got EXCEPT ![c] = IF conn[c] = "open" THEN Append(@, Element(v)) ELSE @]
  /\ lost' = IF conn[c] = "open" THEN lost ELSE lost \cup {v}

\* Bug: the element stays where it is.
PeekFirst(c, w) ==
  \E i \in DOMAIN w.keys : FirstFull(w, i) /\ Hand(c, Taken(w, w.keys[i])) /\ UNCHANGED lists

PopFirst(c, w) ==
  \E i \in DOMAIN w.keys :
    /\ FirstFull(w, i) /\ Hand(c, Taken(w, w.keys[i]))
    /\ lists' = [lists EXCEPT ![w.keys[i]] = IF w.right THEN Front(@) ELSE Tail(@)]

ReadOn(c, w) ==
  /\ got' = [got EXCEPT ![c] = IF conn[c] = "open" THEN Append(@, Entries(EntriesAfter(w.after, w.count))) ELSE @]
  /\ UNCHANGED <<lists, lost>>

Serve(c, w) == IF w.kind = "pop" THEN PopFirst(c, w) ELSE ReadOn(c, w)

Tell(c, answer) ==
  /\ got' = [got EXCEPT ![c] = IF conn[c] = "open" THEN Append(@, answer) ELSE @]
  /\ UNCHANGED <<lists, lost>>
------------------------------------------------------------------------------
(* Calls and timers *)

\* Try at once; what is not ready waits for the timer.
Begin(c, w) ==
  /\ IF Ready(w) THEN Serve(c, w) /\ UNCHANGED wait
     ELSE wait' = [wait EXCEPT ![c] = w] /\ UNCHANGED <<lists, lost, got>>
  /\ calls' = [calls EXCEPT ![c] = @ + 1]
  /\ UNCHANGED <<around, taken, stream, now, conn>>

Room       == FoldFunction(+, 0, calls) < MaxCalls
MayCall(c) == conn[c] = "open" /\ wait[c] = NoWait /\ Room

\* A timeout of 0 is over at the first tick.
BPop(c, keys, right, timeout) ==
  /\ MayCall(c) /\ now + timeout <= MaxTime
  /\ Begin(c, WaitPop(keys, right, now + timeout))

\* XREAD from the identifier of the last entry the client has got; a block of 0 waits for ever.
LastIn(answers) ==
  Max({0} \cup {Last(answers[i].values) : i \in {j \in DOMAIN answers : answers[j].kind = "entries"}})
LastRead(c) == Id(LastIn(got[c]))

XReadBlock(c, count, block) ==
  /\ MayCall(c) /\ now + block <= MaxTime
  /\ Begin(c, WaitRead(LastRead(c), count, IF block = 0 THEN Never ELSE now + block))

\* Without BLOCK.  An option that is no number is answered, and the command goes on.
XRead(c, count, bad) ==
  LET es    == EntriesAfter(LastRead(c), IF bad THEN MaxPushes ELSE count)
      first == IF bad THEN <<Error>> ELSE <<>>
  IN  /\ MayCall(c) /\ (bad => "bad option" \in around)
      /\ got' = [got EXCEPT ![c] = @ \o first \o <<IF es = <<>> THEN Nil ELSE Entries(es)>>]
      /\ calls' = [calls EXCEPT ![c] = @ + 1]
      /\ UNCHANGED <<around, lists, taken, lost, stream, now, conn, wait>>

\* Bug: the deadline is looked at first.
TickDeadlineFirst(c) ==
  /\ wait[c] # NoWait
  /\ IF conn[c] = "destroyed" THEN wait' = [wait EXCEPT ![c] = NoWait] /\ UNCHANGED <<lists, lost, got>>
     ELSE IF now >= wait[c].deadline THEN Tell(c, Nil) /\ wait' = [wait EXCEPT ![c] = NoWait]
     ELSE IF Ready(wait[c]) THEN Serve(c, wait[c]) /\ wait' = [wait EXCEPT ![c] = NoWait]
     ELSE UNCHANGED <<lists, lost, got, wait>>
  /\ UNCHANGED <<around, taken, stream, now, conn, calls>>

\* Bug: the timer is not set again.
TickOnce(c) ==
  /\ wait[c] # NoWait
  /\ IF conn[c] # "destroyed" /\ Ready(wait[c]) THEN Serve(c, wait[c]) ELSE UNCHANGED <<lists, lost, got>>
  /\ wait' = [wait EXCEPT ![c] = NoWait]
  /\ UNCHANGED <<around, taken, stream, now, conn, calls>>

\* Bug: a socket that is not writable keeps its timer.
TickForWritable(c) ==
  /\ wait[c] # NoWait
  /\ IF Ready(wait[c]) /\ conn[c] = "open" THEN Serve(c, wait[c]) /\ wait' = [wait EXCEPT ![c] = NoWait]
     ELSE IF now >= wait[c].deadline /\ conn[c] = "open" THEN Tell(c, Nil) /\ wait' = [wait EXCEPT ![c] = NoWait]
     ELSE UNCHANGED <<lists, lost, got, wait>>
  /\ UNCHANGED <<around, taken, stream, now, conn, calls>>

Tick(c) ==
  /\ wait[c] # NoWait
  /\ IF conn[c] = "destroyed" THEN wait' = [wait EXCEPT ![c] = NoWait] /\ UNCHANGED <<lists, lost, got>>
     ELSE IF Ready(wait[c]) THEN Serve(c, wait[c]) /\ wait' = [wait EXCEPT ![c] = NoWait]
     ELSE IF now >= wait[c].deadline THEN Tell(c, Nil) /\ wait' = [wait EXCEPT ![c] = NoWait]
     ELSE UNCHANGED <<lists, lost, got, wait>>
  /\ UNCHANGED <<around, taken, stream, now, conn, calls>>
------------------------------------------------------------------------------
(* The others *)

Held        == UNION {Range(lists[k]) : k \in List}
Answered(c) == {i \in DOMAIN got[c] : got[c][i].kind = "element"}
Popped      == UNION {{got[c][i].values[1] : i \in Answered(c)} : c \in Client}
Pushed      == Held \cup Popped \cup taken \cup lost

\* RPUSH of one element.
Push(k) ==
  LET v == Cardinality(Pushed) + 1
  IN  /\ v + Len(stream) <= MaxPushes
      /\ lists' = [lists EXCEPT ![k] = Append(@, v)]
      /\ UNCHANGED <<around, taken, lost, stream, now, conn, wait, calls, got>>

\* XADD *: the millisecond it is, past 0-0, and always the sequence 0, because a lastSeq of 0
\* counts as none: two entries of one millisecond have one identifier.
XAdd ==
  /\ Cardinality(Pushed) + Len(stream) < MaxPushes
  /\ stream' = Append(stream, now + 1)
  /\ UNCHANGED <<around, lists, taken, lost, now, conn, wait, calls, got>>

\* LPOP by somebody else.
LPop(k) ==
  /\ lists[k] # <<>>
  /\ taken' = taken \cup {Head(lists[k])} /\ lists' = [lists EXCEPT ![k] = Tail(@)]
  /\ UNCHANGED <<around, lost, stream, now, conn, wait, calls, got>>

Leave(c) ==
  /\ conn[c] = "open"
  /\ conn' = [conn EXCEPT ![c] = IF "gone" \in around THEN "gone" ELSE "destroyed"]
  /\ UNCHANGED <<around, lists, taken, lost, stream, now, wait, calls, got>>

Destroy(c) ==
  /\ conn[c] = "gone" /\ conn' = [conn EXCEPT ![c] = "destroyed"]
  /\ UNCHANGED <<around, lists, taken, lost, stream, now, wait, calls, got>>

Clock ==
  /\ now < MaxTime /\ now' = now + 1
  /\ UNCHANGED <<around, lists, taken, lost, stream, conn, wait, calls, got>>

Init ==
  /\ around \in Surroundings
  /\ lists = [k \in List |-> <<>>] /\ taken = {} /\ lost = {} /\ stream = <<>> /\ now = 0
  /\ conn = [c \in Client |-> "open"] /\ wait = [c \in Client |-> NoWait]
  /\ calls = [c \in Client |-> 0] /\ got = [c \in Client |-> <<>>]

Next ==
  \/ \E c \in Client :
       \/ \E pop \in Pops, timeout \in 0 .. MaxTime : BPop(c, pop.keys, pop.right, timeout)
       \/ \E block \in 0 .. MaxTime : XReadBlock(c, 1, block)
       \/ \E bad \in BOOLEAN : XRead(c, 1, bad)
       \/ Tick(c) \/ Leave(c) \/ Destroy(c)
  \/ \E k \in List : LPop(k) \/ Push(k)
  \/ XAdd \/ Clock

Spec == Init /\ [][Next]_vars

\* Timers fire and time passes.
FairSpec == Spec /\ WF_vars(Clock) /\ \A c \in Client : WF_vars(Tick(c))
------------------------------------------------------------------------------
(* Properties *)

WaitType   == {NoWait} \cup [kind : {"pop"}, keys : Seq(List), right : BOOLEAN, deadline : Nat]
                       \cup [kind : {"read"}, after : Nat, count : Nat, deadline : Nat]
AnswerType == [kind : {"element", "entries", "nil", "error"}, values : Seq(1 .. MaxPushes)]

\* The types of the variables.
TypeOK ==
  /\ around \in SUBSET Circumstances
  /\ lists \in [List -> Seq(1 .. MaxPushes)] /\ taken \cup lost \subseteq 1 .. MaxPushes
  /\ stream \in Seq(1 .. MaxTime + 1) /\ now \in 0 .. MaxTime
  /\ conn \in [Client -> {"open", "gone", "destroyed"}] /\ calls \in [Client -> Nat]
  /\ wait \in [Client -> WaitType] /\ got \in [Client -> Seq(AnswerType)]

\* An element that was pushed is in one place, and there once: a list, one client's
\* answer, or taken or lost.  Two waiting clients and an LPOP race for it.
ElementsAreInOnePlace ==
  /\ \A k, l \in List : \A i \in DOMAIN lists[k], j \in DOMAIN lists[l] :
       lists[k][i] = lists[l][j] => k = l /\ i = j
  /\ \A c, d \in Client : \A i \in Answered(c), j \in Answered(d) :
       got[c][i].values = got[d][j].values => c = d /\ i = j
  /\ Held \cap Popped = {} /\ (Held \cup Popped) \cap (taken \cup lost) = {} /\ taken \cap lost = {}
  /\ Pushed = 1 .. Cardinality(Pushed)

\* No element is popped for a socket that is destroyed: only one whose client has left
\* unnoticed takes an element with it.
NoElementIsLost == lost # {} => "gone" \in around

\* A blocking call is answered nil only past its deadline, when there is nothing to give.
NilMeansNothingInTime ==
  [][\A c \in Client :
       (wait[c] # NoWait /\ got'[c] # got[c] /\ Last(got'[c]) = Nil) => ~Ready(wait[c]) /\ now >= wait[c].deadline]_vars

\* A client that reads on from the last entry it got, whether it waits or not, sees entries
\* in order, none twice, and misses none but those with the identifier of that last entry:
\* added in its millisecond, behind it.
ReadersMissTwinsOnly ==
  \A c \in Client : \A i \in DOMAIN got[c] : got[c][i].kind = "entries" =>
    LET before == LastIn(SubSeq(got[c], 1, i - 1))
    IN  \E from \in before .. Len(stream) :
          /\ \E last \in from + 1 .. Len(stream) : got[c][i].values = [n \in 1 .. last - from |-> from + n]
          /\ \A p \in before + 1 .. from : Id(p) = Id(before)

\* Each call is answered once, or waits.  An XREAD with a bad option is answered twice.
AnswersMatchCalls ==
  "bad option" \notin around =>
    \A c \in Client : conn[c] = "open" =>
      Len(got[c]) + (IF wait[c] = NoWait THEN 0 ELSE 1) = calls[c]

\* A call with a deadline does not wait for ever, and none waits for ever while there is
\* something for it.
WaitsEnd ==
  \A c \in Client :
    /\ wait[c] # NoWait /\ wait[c].deadline # Never ~> wait[c] = NoWait
    /\ wait[c] # NoWait /\ wait[c].deadline = Never /\ Ready(wait[c]) ~> wait[c] = NoWait

\* Together: an element reaches one client, an entry every reader at most once, and what is
\* lost is lost with a client that left, or is a twin.
DeliveredOnce == TypeOK /\ ElementsAreInOnePlace /\ NoElementIsLost /\ ReadersMissTwinsOnly
==============================================================================
