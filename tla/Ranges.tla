-------------------------------- MODULE Ranges --------------------------------
(***************************************************************************)
(* DataStore.js: strings as counters and as ranges of characters (INCR and  *)
(* its kin, GETRANGE, SETRANGE), and the commands on lists that take an     *)
(* index, a range or a count (LRANGE, LINDEX, LSET, LTRIM, LREM, LMOVE).    *)
(*                                                                         *)
(* A number is a double: integers are exact up to 2^53 only, while what a   *)
(* string may hold is checked against 64 bits.  Here it is 2^Exact and      *)
(* 2^Widest.  A string is a number or characters; numbers are not cut up.   *)
(* What these helpers do to an entry of another type is in Keyspace.        *)
(***************************************************************************)
EXTENDS Lists

CONSTANTS Key,          \* keys
          Element,      \* the elements of lists, and the characters of strings
          Exact,        \* 53: integers up to 2^Exact are doubles
          Widest,       \* 63: the widest integers accepted
          Amounts,      \* what INCRBY and DECRBY are given, and SET
          MaxLen,       \* bound: the length of lists and strings
          Surroundings  \* the sets of circumstances to consider

Circumstances == {"misplaced"}   \* LMOVE to a key that is no list

VARIABLES
  around,  \* the circumstances of this behaviour
  kv,      \* the entries
  reply,   \* the kind of the last answer
  tally    \* a history: for each key what was set, or computed past 2^Exact, and the
           \* amounts accepted since

vars == <<around, kv, reply, tally>>

Pad    == "0"                               \* the character of code 0
Absent == [type |-> "none", value |-> <<>>]
Text(s) == [type |-> "text", value |-> s]   \* a string that is not a number
Numeral(n) == [type |-> "number", value |-> n]
List(s) == [type |-> "list", value |-> s]
------------------------------------------------------------------------------
(* Numbers *)

Abs(n) == IF n < 0 THEN -n ELSE n

ExactIntegers == -(2 ^ Exact) .. 2 ^ Exact

\* The nearest double, of two the even one.
Double(n) ==
  LET unit == 2 ^ (CHOOSE j \in 0 .. Widest : Abs(n) <= 2 ^ (Exact + j) /\ \A i \in 0 .. j - 1 : Abs(n) > 2 ^ (Exact + i))
      q == n \div unit
      r == n % unit
  IN  IF n \in ExactIntegers THEN n
      ELSE unit * (IF 2 * r > unit \/ (2 * r = unit /\ q % 2 = 1) THEN q + 1 ELSE q)

Unreadable == 1000000   \* null

\* _parseIntegerStrict: within the width; the double next to it.
Parsed(n) == IF n \in -(2 ^ Widest) .. 2 ^ Widest - 1 THEN Double(n) ELSE Unreadable

Does(k, entry, answer) == kv' = [kv EXCEPT ![k] = entry] /\ reply' = answer /\ UNCHANGED around
Refuses == reply' = "error" /\ UNCHANGED <<around, kv, tally>>

Count(k) == CASE kv[k].type = "number" -> Parsed(kv[k].value)
              [] kv[k].type = "text" /\ kv[k].value # <<>> -> Unreadable
              [] OTHER -> 0

\* What is written, before it is read as a double.
Written(k) == IF kv[k].type = "number" THEN kv[k].value ELSE 0
IsExact(k, amount) == {Written(k), amount, Written(k) + amount} \subseteq ExactIntegers
Tallied(k, amount, next) == tally' = [tally EXCEPT ![k] = IF IsExact(k, amount) THEN @ + amount ELSE next]

\* _applyIncrBy: the limit is a double too, one more than what can be read again.
IncrBy(k, amount) ==
  LET next == Double(Count(k) + Double(amount))
  IN  /\ kv[k].type # "list"
      /\ IF Count(k) = Unreadable THEN Refuses
         ELSE IF next \notin -(2 ^ Widest) .. 2 ^ Widest THEN Refuses
         ELSE Does(k, Numeral(next), "done") /\ Tallied(k, amount, next)

\* SET of a number: it is kept as it is written.
SetNumber(k, n) == Does(k, Numeral(n), "done") /\ tally' = [tally EXCEPT ![k] = n]
------------------------------------------------------------------------------
(* Ranges *)

\* Where an index from the end is.
At(s, i) == IF i < 0 THEN Len(s) + i ELSE i

\* GETRANGE and LRANGE.
Sliced(s, start, end) ==
  LET first == IF At(s, start) < 0 THEN 0 ELSE At(s, start)
      given == IF At(s, end) < 0 THEN -1 ELSE At(s, end)
      last  == IF given > Len(s) - 1 THEN Len(s) - 1 ELSE given
  IN  IF first > Len(s) - 1 \/ last < first THEN <<>> ELSE SubSeq(s, first + 1, last + 1)

\* LTRIM.
Trimmed(s, start, end) ==
  LET first == IF At(s, start) < 0 THEN 0 ELSE At(s, start)
      last  == IF At(s, end) > Len(s) - 1 THEN Len(s) - 1 ELSE At(s, end)
  IN  IF last < first THEN <<>> ELSE SubSeq(s, first + 1, last + 1)

InRange(s, i) == At(s, i) \in 0 .. Len(s) - 1

\* SETRANGE.
Overwritten(s, offset, new) ==
  SubSeq(s, 1, IF offset < Len(s) THEN offset ELSE Len(s)) \o [i \in 1 .. offset - Len(s) |-> Pad]
    \o new \o SubSeq(s, offset + Len(new) + 1, Len(s))

SetRange(k, offset, new) ==
  /\ kv[k].type \in {"none", "text"}
  /\ LET s == Overwritten(kv[k].value, offset, new)
     IN  Len(s) <= MaxLen /\ Does(k, Text(s), "done") /\ tally' = [tally EXCEPT ![k] = 0]
------------------------------------------------------------------------------
(* Lists *)

\* LREM: what the loop does with the next element, when so many may still be taken out.
Visit(t, y) ==
  IF y = t.x /\ t.may > 0 THEN [t EXCEPT !.may = @ - 1] ELSE [t EXCEPT !.kept = Append(@, y)]

\* Bug: after a removal the next index.
VisitSkipping(t, y) ==
  IF t.skip THEN [t EXCEPT !.skip = FALSE, !.kept = Append(@, y)]
  ELSE IF y = t.x /\ t.may > 0 THEN [t EXCEPT !.may = @ - 1, !.skip = TRUE] ELSE [t EXCEPT !.kept = Append(@, y)]
RemovedSkipping(s, count, x) ==
  LET may     == IF count = 0 THEN Len(s) ELSE Abs(count)
      Kept(q) == FoldLeft(VisitSkipping, [x |-> x, may |-> may, kept |-> <<>>, skip |-> FALSE], q).kept
  IN  IF count < 0 THEN Reverse(Kept(Reverse(s))) ELSE Kept(s)

\* All of them, or the first or the last ones.
Removed(s, count, x) ==
  LET may     == IF count = 0 THEN Len(s) ELSE Abs(count)
      Kept(q) == FoldLeft(Visit, [x |-> x, may |-> may, kept |-> <<>>], q).kept
  IN  IF count < 0 THEN Reverse(Kept(Reverse(s))) ELSE Kept(s)

Becomes(k, s) == Does(k, List(s), "done") /\ UNCHANGED tally

RPush(k, x) ==
  /\ kv[k].type \in {"none", "list"} /\ Len(kv[k].value) < MaxLen
  /\ Becomes(k, Append(kv[k].value, x))

IsList(k) == kv[k].type = "list"

LTrim(k, start, end) == IsList(k) /\ Becomes(k, Trimmed(kv[k].value, start, end))
LRem(k, count, x)    == IsList(k) /\ Becomes(k, Removed(kv[k].value, count, x))
LSet(k, i, x) ==
  /\ IsList(k)
  /\ IF InRange(kv[k].value, i) THEN Becomes(k, [kv[k].value EXCEPT ![At(kv[k].value, i) + 1] = x]) ELSE Refuses

Without(s, end)   == IF end = "LEFT" THEN Tail(s) ELSE Front(s)
Taken(s, end)     == IF end = "LEFT" THEN Head(s) ELSE Last(s)
With(s, end, x)   == IF end = "LEFT" THEN <<x>> \o s ELSE Append(s, x)

\* The element is off the source when the destination is looked at: one that is no list
\* makes unshift throw, and a string's push is no function either.
LMove(src, dst, from, to) ==
  /\ IsList(src) /\ kv[src].value # <<>>
  /\ LET x    == Taken(kv[src].value, from)
         rest == [kv EXCEPT ![src] = List(Without(@.value, from))]
     IN  IF kv[dst].type \in {"none", "list"}
         THEN /\ kv' = [rest EXCEPT ![dst] = List(With(rest[dst].value, to, x))]
              /\ Len(kv'[dst].value) <= MaxLen /\ reply' = "done"
         ELSE "misplaced" \in around /\ kv' = rest /\ reply' = "error"
  /\ UNCHANGED <<around, tally>>

Del(k) == Does(k, Absent, "done") /\ tally' = [tally EXCEPT ![k] = 0]

Init ==
  /\ around \in Surroundings /\ reply = "done"
  /\ kv = [k \in Key |-> Absent] /\ tally = [k \in Key |-> 0]

Next ==
  \E k \in Key :
    \/ \E n \in Amounts : IncrBy(k, n) \/ SetNumber(k, n)
    \/ \E offset \in 0 .. 2, x \in Element : SetRange(k, offset, <<x>>)
    \/ \E x \in Element : RPush(k, x)
    \/ \E start, end \in -2 .. 2 : LTrim(k, start, end)
    \/ \E count \in -1 .. 1, x \in Element : LRem(k, count, x) \/ LSet(k, count, x)
    \/ \E dst \in Key, from, to \in {"LEFT", "RIGHT"} : LMove(k, dst, from, to)
    \/ Del(k)

Spec == Init /\ [][Next]_vars
------------------------------------------------------------------------------
(* Properties *)

\* The types of the variables.
TypeOK ==
  /\ around \in SUBSET Circumstances /\ reply \in {"done", "error"} /\ tally \in [Key -> Int]
  /\ \A k \in Key :
       \/ kv[k] = Absent
       \/ kv[k].type = "number" /\ kv[k].value \in -(2 ^ Widest) .. 2 ^ Widest
       \/ kv[k].type \in {"text", "list"} /\ kv[k].value \in Seq(Element \cup {Pad}) /\ Len(kv[k].value) <= MaxLen

\* A counter holds the sum of what it was set to and of every amount accepted since, as
\* long as it stays within the integers a double can hold.
CountersAddUp == \A k \in Key : kv[k].type = "number" => kv[k].value = tally[k]

\* LTRIM leaves what LRANGE returns, LINDEX returns what a range of one does, and a range
\* is the elements at its indexes: for every list and every index, from either end and
\* past both.
RangesAgree ==
  \A k \in Key : IsList(k) =>
    LET s == kv[k].value
        d == -(MaxLen + 1) .. MaxLen + 1
    IN  /\ \A start, end \in d :
             /\ Trimmed(s, start, end) = Sliced(s, start, end)
             /\ Sliced(s, start, end) =
                  FlattenSeq([i \in DOMAIN s |->
                    IF At(s, start) <= i - 1 /\ i - 1 <= At(s, end) THEN <<s[i]>> ELSE <<>>])
        /\ \A i \in d : Sliced(s, i, i) = IF InRange(s, i) THEN <<s[At(s, i) + 1]>> ELSE <<>>

\* LREM takes the first or the last elements that are equal to its argument, as many as
\* it is told to, and leaves the others in their order.
RemovalsCount ==
  \A k \in Key : IsList(k) =>
    LET s == kv[k].value IN
      \A x \in Element, count \in -(MaxLen + 1) .. MaxLen + 1 :
        LET same == {i \in DOMAIN s : s[i] = x}
            gone == {i \in same : CASE count = 0 -> TRUE
                                    [] count > 0 -> Cardinality({j \in same : j < i}) < count
                                    [] count < 0 -> Cardinality({j \in same : j > i}) < -count}
        IN  Removed(s, count, x) = FlattenSeq([i \in DOMAIN s |-> IF i \in gone THEN <<>> ELSE <<s[i]>>])

\* What SETRANGE has written GETRANGE returns, and the characters around it stay; those
\* between the old end and the new ones are of code 0.
WrittenIsRead ==
  \A k \in Key : kv[k].type = "text" =>
    LET s == kv[k].value IN
      \A offset \in 0 .. MaxLen, new \in {<<x>> : x \in Element} \cup {<<x, y>> : x, y \in Element} :
        LET t == Overwritten(s, offset, new)
        IN  /\ Sliced(t, offset, offset + Len(new) - 1) = new
            /\ \A i \in DOMAIN t \ (offset + 1 .. offset + Len(new)) :
                 t[i] = IF i \in DOMAIN s THEN s[i] ELSE Pad
            /\ DOMAIN s \subseteq DOMAIN t

\* LMOVE moves: the elements of all lists together are the same ones before and after, but
\* for the one that was taken off for a destination that is no list.
Copies(s, x)   == Cardinality({i \in DOMAIN s : s[i] = x})
Occurrences(x) == Cardinality(UNION {{k} \X (1 .. Copies(kv[k].value, x)) : k \in {q \in Key : IsList(q)}})
MoveKeepsElements ==
  \A src, dst \in Key, from, to \in {"LEFT", "RIGHT"} :
    LMove(src, dst, from, to) =>
      \A x \in Element :
        LET lost == IF reply' = "error" /\ x = Taken(kv[src].value, from) THEN 1 ELSE 0
        IN  Occurrences(x)' = Occurrences(x) - lost
MovesKeepElements == [][MoveKeepsElements]_vars

\* A command that is answered an error has changed nothing, or LMOVE has taken an element
\* off one end of its source, and no other key is touched.
FailureTouchesOneKey ==
  reply' = "error" =>
    \/ kv' = kv
    \/ \E k \in Key, end \in {"LEFT", "RIGHT"} :
         IsList(k) /\ kv[k].value # <<>> /\ kv' = [kv EXCEPT ![k] = List(Without(kv[k].value, end))]
FailuresTouchOneKey == [][FailureTouchesOneKey]_vars
==============================================================================
