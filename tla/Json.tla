--------------------------------- MODULE Json ---------------------------------
(***************************************************************************)
(* DataStore.js: JSON documents and the paths into them.  JSON.SET, GET,    *)
(* MGET, DEL, FORGET, CLEAR, TOGGLE, NUMINCRBY, STRAPPEND and the JSON.ARR   *)
(* commands, on one key that holds a document or nothing; a key of another  *)
(* type is left out.  A path is the sequence of its tokens.                 *)
(*                                                                         *)
(* Every value is a record of one shape: the kind, the items of arrays and  *)
(* objects, and a number that tells scalars apart, for strings the length.  *)
(*                                                                         *)
(* Names lead into arrays as well as into objects, as JavaScript has it: a  *)
(* numeral is the index and `length' the length.  Deleting an item by a     *)
(* numeral leaves a hole, and so does making an array longer; a hole that   *)
(* JSON.ARRTRIM copies is not told from one it does not.  Left out: names   *)
(* that every object inherits (`constructor').                              *)
(***************************************************************************)
EXTENDS Integers, Sequences, FiniteSets, SequencesExt, FiniteSetsExt

CONSTANTS Name,        \* names of properties
          Numeral,     \* the name that is written like the index 0
          Length,      \* the name `length'
          Star, Deep,  \* the tokens [*] and ..
          MaxIndex,    \* bound: the indexes in paths
          MaxNodes,    \* bound: the values a document is made of
          MaxNumber    \* bound: numbers and lengths

VARIABLES doc, answer
vars == <<doc, answer>>

Index == 0 .. MaxIndex
Paths == UNION {[1 .. n -> Name \cup Index] : n \in 0 .. 2}

Scalar(kind, n) == [kind |-> kind, items |-> <<>>, n |-> n]
Array(s)  == [kind |-> "array", items |-> s, n |-> 0]
Object(f) == [kind |-> "object", items |-> f, n |-> 0]
Null      == Scalar("null", 0)
Undefined == Scalar("undefined", 0)   \* no such value; of a document: no such key
NewContainer(token) == IF token \in Name THEN Object(<<>>) ELSE Array(<<>>)

Items(v) == {v.items[x] : x \in DOMAIN v.items}

RECURSIVE Nodes(_)
Nodes(v) == 1 + FoldSet(LAMBDA x, n : n + Nodes(v.items[x]), 0, DOMAIN v.items)
------------------------------------------------------------------------------
(* Paths *)

\* What a property of an array that is a numeral or an index means.
IsIndex(token) == token = Numeral \/ token \notin Name
AsIndex(token) == IF token = Numeral THEN 0 ELSE token

\* Where a token leads: an index into arrays only, a name into objects and arrays.
Step(v, token) ==
  CASE v.kind = "object" /\ token \in DOMAIN v.items -> v.items[token]
    [] v.kind = "array" /\ IsIndex(token) /\ AsIndex(token) < Len(v.items) -> v.items[AsIndex(token) + 1]
    [] v.kind = "array" /\ token = Length -> Scalar("num", Len(v.items))
    [] OTHER -> Undefined

\* _jsonGetAtPath
Get(v, path) == FoldLeft(Step, v, path)

Larger(i, j) == IF i > j THEN i ELSE j
Fits(v, token) == v.kind = IF token \in Name THEN "object" ELSE "array"

\* _jsonResolveParent: on the way to the last token a name leads into objects only; from
\* there also into strings.
Found(v, path) ==
  LET Strictly(u, token) == IF Fits(u, token) THEN Step(u, token) ELSE Undefined
      parent == FoldLeft(Strictly, v, Front(path))
      token  == Last(path)
  IN  CASE path = <<>> -> v
        [] path # <<>> /\ parent.kind = "str" /\ token = Length -> Scalar("num", parent.n)
        [] path # <<>> /\ parent.kind = "str" /\ token = Numeral /\ parent.n > 0 -> Scalar("str", 1)
        [] OTHER -> Step(parent, token)

\* Bug: an object is made anew.
PutAlone(v, token, x) ==
  IF token \in Name THEN Object([y \in {token} |-> x])
  ELSE Array([i \in 1 .. Larger(Len(v.items), token + 1) |->
                CASE i = token + 1 -> x [] i # token + 1 /\ i \in DOMAIN v.items -> v.items[i] [] OTHER -> Null])

\* A member of an object, or an item of an array that is padded with nulls.
Put(v, token, x) ==
  IF token \in Name
  THEN Object([y \in DOMAIN v.items \cup {token} |-> IF y = token THEN x ELSE v.items[y]])
  ELSE Array([i \in 1 .. Larger(Len(v.items), token + 1) |->
                CASE i = token + 1 -> x [] i # token + 1 /\ i \in DOMAIN v.items -> v.items[i] [] OTHER -> Null])

RECURSIVE SetAt(_, _, _)
\* _jsonSetAtPath: what is no container of the kind the next token asks for gives way to one.
SetAt(v, path, new) ==
  IF path = <<>> THEN new
  ELSE LET c == IF Fits(v, path[1]) THEN v ELSE NewContainer(path[1])
       IN  Put(c, path[1], SetAt(Step(c, path[1]), Tail(path), new))

RECURSIVE PutBack(_, _, _)
\* A value at a path that leads somewhere is changed where it is.
PutBack(v, path, new) ==
  IF path = <<>> THEN new
  ELSE LET x == PutBack(Step(v, path[1]), Tail(path), new)
       IN  IF v.kind = "array" THEN Array([v.items EXCEPT ![AsIndex(path[1]) + 1] = x])
           ELSE Object([v.items EXCEPT ![path[1]] = x])

\* What can be deleted: a hole has no numeral of its own, but its index is in the array.
Owns(v, token) ==
  CASE v.kind = "object" -> token \in DOMAIN v.items
    [] v.kind = "array" /\ token \notin Name -> token < Len(v.items)
    [] v.kind = "array" /\ token = Numeral -> Step(v, token) # Undefined
    [] OTHER -> FALSE

\* `delete' of a numeral leaves a hole; `splice' of an index does not.
Dropped(v, token) ==
  CASE v.kind = "object" -> Object([y \in DOMAIN v.items \ {token} |-> v.items[y]])
    [] v.kind = "array" /\ token = Numeral -> Array([v.items EXCEPT ![1] = Undefined])
    [] OTHER -> Array(RemoveAt(v.items, token + 1))

\* _jsonDelAtPath, of what can be deleted.
DelAt(v, path) == PutBack(v, Front(path), Dropped(Get(v, Front(path)), Last(path)))

\* The values of an array or an object.
Children(v) ==
  CASE v.kind = "array"  -> v.items
    [] v.kind = "object" -> LET names == SetToSeq(DOMAIN v.items) IN [i \in DOMAIN names |-> v.items[names[i]]]
    [] OTHER -> <<>>

\* _jsonPathTokens of a path that is written with or without the $: after it a dot is skipped,
\* so that one is left of two.
Tokens(dollar, path) == IF dollar /\ path[1] = Deep THEN Tail(path) ELSE path

RECURSIVE Collected(_, _)
\* _jsonCollectMatches, of a path with a [*].  A name that an object does not have gives undefined.
Collected(v, path) ==
  LET FromChildren(rest) == FlattenSeq([i \in DOMAIN Children(v) |-> Collected(Children(v)[i], rest)])
  IN  IF path = <<>> THEN <<v>>
      ELSE LET token == Head(path) IN
        CASE token = Deep -> Collected(v, Tail(path)) \o FromChildren(path)
          [] token = Star -> FromChildren(Tail(path))
          [] Fits(v, token) /\ (token \in Name \/ token < Len(v.items)) -> Collected(Step(v, token), Tail(path))
          [] OTHER -> <<>>
------------------------------------------------------------------------------
(* Arrays *)

\* The place of JSON.ARRINSERT: -1 is the end.
Place(s, i) ==
  LET j == IF i < 0 THEN Len(s) + i + 1 ELSE i
  IN  CASE j < 0 -> 0 [] j > Len(s) -> Len(s) [] OTHER -> j

Inserted(s, i, x) == InsertAt(s, Place(s, i) + 1, x)

At(s, i) == IF i < 0 THEN Len(s) + i ELSE i
AtLeast0(i) == IF i < 0 THEN 0 ELSE i
AtMostLast(s, i) == IF i > Len(s) - 1 THEN Len(s) - 1 ELSE i

\* JSON.ARRTRIM: an end before the beginning is the beginning.
Trimmed(s, start, stop) ==
  LET first == AtLeast0(At(s, start))
      last  == AtMostLast(s, AtLeast0(At(s, stop)))
  IN  IF first > Len(s) - 1 \/ last < first THEN <<>> ELSE SubSeq(s, first + 1, last + 1)

\* JSON.ARRINDEX, in a range; -1 when it is not there.
IndexOf(s, x, start, stop) ==
  LET first == AtLeast0(At(s, start))
      last  == AtMostLast(s, At(s, stop))
      found == {i \in first .. last : s[i + 1] = x}
  IN  IF found = {} THEN -1 ELSE Min(found)
------------------------------------------------------------------------------
(* Commands *)

Becomes(v) == Nodes(v) <= MaxNodes /\ doc' = v /\ answer' = "done"
Says(word) == answer' = word /\ UNCHANGED doc

\* A missing document begins as an empty object.
Set(path, v) == Becomes(SetAt(IF doc = Undefined THEN Object(<<>>) ELSE doc, path, v))

Del(path) ==
  LET parent == Get(doc, Front(path)) IN
  CASE doc # Undefined /\ path = <<>> -> doc' = Undefined /\ answer' = "done"
    [] doc # Undefined /\ path # <<>> /\ parent.kind = "array" /\ Last(path) = Length -> Says("throws")
    [] doc # Undefined /\ path # <<>> /\ Owns(parent, Last(path)) -> Becomes(DelAt(doc, path))
    [] OTHER -> Says("nothing")

\* A value of a kind is changed in place.
Edit(v, path, kind, otherwise, New(_)) ==
  IF v.kind = kind THEN Becomes(PutBack(doc, path, New(v))) ELSE Says(otherwise)

EditArray(path, otherwise, New(_)) == Edit(Get(doc, path), path, "array", otherwise, LAMBDA v : Array(New(v.items)))

ArrAppend(path, x)      == EditArray(path, "error", LAMBDA s : Append(s, x))
ArrInsert(path, i, x)   == EditArray(path, "error", LAMBDA s : Inserted(s, i, x))
ArrTrim(path, from, to) == EditArray(path, "error", LAMBDA s : Trimmed(s, from, to))
ArrPop(path, i) ==
  EditArray(path, "nothing", LAMBDA s : IF At(s, i) \in 0 .. Len(s) - 1 THEN RemoveAt(s, At(s, i) + 1) ELSE s)

\* In strict mode nothing can be assigned to a property of a string.
InString(path) == path # <<>> /\ Get(doc, Front(path)).kind = "str"
EditScalar(path, kind, New(_)) ==
  IF InString(path) /\ Found(doc, path).kind = kind THEN Says("throws")
  ELSE Edit(Found(doc, path), path, kind, "error", LAMBDA v : Scalar(kind, New(v.n)))

Limited(n) == CASE n > MaxNumber -> MaxNumber [] n < 0 -> 0 [] OTHER -> n
StrAppend(path) == EditScalar(path, "str", LAMBDA n : Limited(n + 1))
Toggle(path)    == EditScalar(path, "bool", LAMBDA n : 1 - n)

\* The length of an array is a number too: the array is cut or grows holes.
Resized(s, n) == [i \in 1 .. n |-> IF i \in DOMAIN s THEN s[i] ELSE Undefined]
NumIncrBy(path, by) ==
  LET s == Get(doc, Front(path)).items
      n == Len(s) + by
  IN  IF path # <<>> /\ Last(path) = Length /\ Found(doc, Front(path)).kind = "array" /\ Found(doc, path) # Undefined
      THEN IF n < 0 THEN Says("throws") ELSE Becomes(PutBack(doc, Front(path), Array(Resized(s, n))))
      ELSE EditScalar(path, "num", LAMBDA m : Limited(m + by))

\* Arrays and objects are emptied, other values stay.
Clear(path) ==
  LET v == Found(doc, path)
  IN  IF v.kind \in {"array", "object"} THEN Becomes(PutBack(doc, path, [v EXCEPT !.items = <<>>])) ELSE Says("nothing")

Scalars == {Scalar("num", 0), Scalar("bool", 1), Scalar("str", 1)}
Given   == Scalars \cup {Array(<<>>), Object(<<>>), Array(<<Null, Scalar("num", 0)>>)}

Init == doc = Undefined /\ answer = "done"

Next ==
  \E path \in Paths :
    \/ \E v \in Given : Set(path, v) \/ ArrAppend(path, v)
    \/ \E i \in -2 .. 1 : ArrInsert(path, i, Scalar("num", 0)) \/ ArrTrim(path, i, -1) \/ ArrPop(path, i)
    \/ \E by \in {-1, 1} : NumIncrBy(path, by)
    \/ StrAppend(path) \/ Toggle(path) \/ Clear(path) \/ Del(path)

Spec == Init /\ [][Next]_vars
------------------------------------------------------------------------------
(* Properties *)

RECURSIVE IsValue(_)
IsValue(v) ==
  CASE v.kind \in {"null", "num", "bool", "str"} -> v.items = <<>> /\ v.n \in 0 .. MaxNumber
    [] v.kind = "array"  -> v.n = 0 /\ \A i \in 1 .. Len(v.items) : v.items[i] = Undefined \/ IsValue(v.items[i])
    [] v.kind = "object" -> v.n = 0 /\ \A x \in DOMAIN v.items : x \in Name /\ IsValue(v.items[x])
    [] OTHER -> FALSE

\* The types of the variables: nothing is undefined in a document but the holes of arrays.
TypeOK == (doc = Undefined \/ IsValue(doc)) /\ answer \in {"done", "nothing", "error", "throws"}

Somewhere == {p \in Paths : p # <<>>}
Exists == doc # Undefined

\* The paths that do not name an array's items or its length.
Straight(v, path) == \A i \in DOMAIN path : Get(v, SubSeq(path, 1, i - 1)).kind = "array" => path[i] \notin Name

\* JSON.GET returns what JSON.SET has put at a path, and what is at other paths stays,
\* unless a value on the way is of the wrong kind and gives way; an array may be padded.
SetIsExact ==
  Exists => \A path \in Somewhere, v \in {Scalar("num", 1), Object(<<>>)} :
    LET new == SetAt(doc, path, v)
        Kept(q) == \A i \in 0 .. Len(path) - 1 :
                     IsPrefix(SubSeq(path, 1, i), q) => Fits(Get(doc, SubSeq(path, 1, i)), path[i + 1])
    IN  /\ Get(new, path) = v
        /\ \A q \in Paths : ~IsPrefix(path, q) /\ ~IsPrefix(q, path) /\ Kept(q) /\ Straight(new, q) =>
             \/ Get(new, q) = Get(doc, q)
             \/ Get(doc, q) = Undefined /\ Get(new, q) = Null

\* JSON.DEL takes away one value and everything else stays: at an index the items behind it
\* move up, under a numeral they stay where they are and a hole is left.
DeletesAreExact ==
  Exists => \A path \in Somewhere : Straight(doc, Front(path)) /\ Owns(Get(doc, Front(path)), Last(path)) =>
    LET new     == DelAt(doc, path)
        n       == Len(path)
        Up(q)   == IF path[n] \in Index /\ q[n] \in Index /\ q[n] >= path[n] THEN [q EXCEPT ![n] = @ + 1] ELSE q
        Gone(q) == path[n] \in Name /\ IF Straight(doc, path) THEN q[n] = path[n] ELSE q[n] = AsIndex(path[n])
        Beside(q) == Len(q) >= n /\ SubSeq(q, 1, n - 1) = Front(path)
        Size(v) == Cardinality(DOMAIN Get(v, Front(path)).items)
    IN  /\ Size(new) = Size(doc) - IF Straight(doc, path) THEN 1 ELSE 0
        /\ \A q \in {q \in Somewhere : Straight(new, q) /\ (~IsPrefix(q, path) \/ q = path)} :
             Get(new, q) = CASE Beside(q) /\ Gone(q) -> Undefined
                             [] Beside(q) /\ ~Gone(q) ->
                                  IF Up(q)[n] = MaxIndex + 1 /\ path[n] \in Index THEN Get(new, q) ELSE Get(doc, Up(q))
                             [] OTHER -> Get(doc, q)

RECURSIVE StandsFor(_, _)
StandsFor(pattern, path) ==
  CASE pattern = <<>> -> path = <<>>
    [] pattern # <<>> /\ pattern[1] = Deep ->
         StandsFor(Tail(pattern), path) \/ (path # <<>> /\ StandsFor(pattern, Tail(path)))
    [] OTHER -> path # <<>> /\ pattern[1] \in {path[1], Star} /\ StandsFor(Tail(pattern), Tail(path))

DeepPaths == UNION {[1 .. n -> Name \cup 0 .. MaxNodes - 2] : n \in 0 .. MaxNodes - 1}
Patterns  == {<<Star>>, <<Deep, Star>>} \cup {<<x, Star>> : x \in Name \cup Index}
             \cup {<<Star, x>> : x \in Name \cup Index} \cup {<<Deep, Star, x>> : x \in Name \cup Index}

\* The places of a document: holes are places.
Has(v, token) == Fits(v, token) /\ IF token \in Name THEN token \in DOMAIN v.items ELSE token < Len(v.items)
IsPlace(path) == \A i \in DOMAIN path : Has(Get(doc, SubSeq(path, 1, i - 1)), path[i])

\* What [*] and .. find is what is at the places that the path as it is read stands for, each
\* once; and a name at the end finds undefined, which is answered null, in each object there
\* that lacks it.  A `$..' is read as a `$.'.
WildcardsFindAll ==
  Exists => LET all == {p \in DeepPaths : IsPlace(p)} IN \A pattern \in Patterns, dollar \in BOOLEAN :
    LET read    == Tokens(dollar, pattern)
        found   == Collected(doc, read)
        meant   == {p \in all : StandsFor(read, p)}
        lacking == {p \in all : /\ StandsFor(Front(read), p)
                               /\ Last(read) \in Name /\ Fits(Get(doc, p), Last(read)) /\ ~Has(Get(doc, p), Last(read))}
    IN  /\ Range(found) = {Get(doc, p) : p \in meant} \cup {Undefined : p \in lacking}
        /\ Len(found) = Cardinality(meant) + Cardinality(lacking)

\* JSON.ARRPOP undoes JSON.ARRINSERT at every place, JSON.ARRINDEX finds an item where the
\* item is and none before it, and JSON.ARRTRIM keeps what is in its range: for every array
\* in the document, and indexes from either end and past both.
ArrayEditsAgree ==
  Exists => \A path \in Paths : Get(doc, path).kind = "array" =>
    LET s == Get(doc, path).items
        d == -(Len(s) + 2) .. Len(s) + 1
    IN  /\ \A i \in d : LET t == Inserted(s, i, Scalar("num", 1))
                        IN  /\ RemoveAt(t, Place(s, i) + 1) = s
                            /\ i \in -(Len(s) + 1) .. Len(s) => t[At(t, i) + 1] = Scalar("num", 1)
        /\ \A i \in d, j \in d : \A x \in Given :
             LET k == IndexOf(s, x, i, j)
             IN  IF k = -1 THEN \A l \in 1 .. Len(s) : l - 1 >= At(s, i) /\ l - 1 <= At(s, j) => s[l] # x
                 ELSE s[k + 1] = x /\ k <= At(s, j) /\ \A l \in 1 .. k : l - 1 >= At(s, i) => s[l] # x
        /\ \A i, j \in d : j >= -Len(s) =>
             Trimmed(s, i, j) = FlattenSeq([l \in DOMAIN s |->
                                  IF At(s, i) <= l - 1 /\ l - 1 <= At(s, j) THEN <<s[l]>> ELSE <<>>])
==============================================================================
