------------------------------- MODULE Entries -------------------------------
(***************************************************************************)
(* The values DataStore.js keeps under a key and what a command does to    *)
(* them: { type, value } objects whose `value' is a JavaScript string or   *)
(* an array of strings.  Nothing in the code ties the two fields together, *)
(* so an entry carries both: its `type', and the `form' its value really   *)
(* has.  A string is a sequence of atoms.                                  *)
(***************************************************************************)
EXTENDS Integers, Sequences

CONSTANTS Atom,   \* the characters clients write
          Comma   \* the separator String(array) puts between elements

ASSUME CommaAssumption == Comma \notin Atom

Entry == [type : {"string", "list"}, form : {"text", "items"},
          data : Seq(Atom \cup {Comma})]

Text(s)  == [type |-> "string", form |-> "text",  data |-> s]
Items(s) == [type |-> "list",   form |-> "items", data |-> s]

\* String(value): a string is itself, an array is its elements joined by commas.
AsText(e) ==
  IF e.form = "text" THEN e.data
  ELSE [i \in 1 .. (IF e.data = <<>> THEN 0 ELSE 2 * Len(e.data) - 1) |->
          IF i % 2 = 1 THEN e.data[(i + 1) \div 2] ELSE Comma]

\* APPEND writes back a string whatever the entry's type is.
Appended(e, a) == [type |-> e.type, form |-> "text", data |-> Append(AsText(e), a)]

Holding(e, s) == [type |-> e.type, form |-> e.form, data |-> s]

\* LPUSH and RPUSH call unshift and push, which only an array has.
CanPush(e) == e.form = "items"
\* Bug: the argument array is pushed instead of its element.
PushedNested(e, a, side) ==
  Holding(e, IF side = "left" THEN <<<<a>>>> \o e.data ELSE Append(e.data, <<a>>))
Pushed(e, a, side) ==
  Holding(e, IF side = "left" THEN <<a>> \o e.data ELSE Append(e.data, a))

\* LPOP and RPOP: a value of length zero answers nil; shift and pop exist only
\* on arrays.
CanPop(e) == e.form = "items"
PopValue(e, side) ==
  IF side = "left" THEN Head(e.data) ELSE e.data[Len(e.data)]
Popped(e, side) ==
  Holding(e, IF side = "left" THEN Tail(e.data) ELSE SubSeq(e.data, 1, Len(e.data) - 1))

\* The replies of DataStore.dispatch.  Crash is the TypeError a handler throws:
\* the connection's data handler catches it, answers its message as an error, and
\* what followed in the same chunk is never served.
Ok        == <<"ok">>
Nil       == <<"nil">>
Crash     == <<"crash">>
WrongType == <<"error", "WRONGTYPE">>
NoSuchKey == <<"error", "no such key">>
BadValue  == <<"error", "value is not an integer or out of range">>
Num(n)    == <<"int", n>>
Bulk(s)   == <<"bulk", s>>
Arr(s)    == <<"array", s>>
==============================================================================
