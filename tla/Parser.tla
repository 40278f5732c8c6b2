-------------------------------- MODULE Parser --------------------------------
(***************************************************************************)
(* core/protocol.js: what a CommandParser makes of the bytes it has, and   *)
(* the encoders.  The server has one per connection, the client one for    *)
(* all the connections it makes in its life.                               *)
(*                                                                         *)
(* Bytes are their codes.  A node is a record of a type and a value: the   *)
(* bytes of a line or of a bulk, the nodes of an array, the one number of  *)
(* an integer.                                                             *)
(***************************************************************************)
EXTENDS Integers, Sequences, FiniteSetsExt, SequencesExt

CR == 13
LF == 10
Plus == 43      \* a simple string
Minus == 45     \* an error
Dollar == 36    \* a bulk
Star == 42      \* an array
Colon == 58     \* an integer
Zero == 48

CRLF == <<CR, LF>>

\* The first CRLF at or after an offset; 0 when there is none.
CrlfFrom(buf, o) ==
  LET at == {i \in o .. Len(buf) - 1 : buf[i] = CR /\ buf[i + 1] = LF}
  IN  IF at = {} THEN 0 ELSE Min(at)

Line(buf, o)       == SubSeq(buf, o, CrlfFrom(buf, o) - 1)
LineLength(buf, o) == CrlfFrom(buf, o) - o + 2

Blank == {9, 10, 11, 12, 13, 32}

\* parseInt: blanks before the number and what follows its digits do not count.
Signed(line) ==
  LET ink == {i \in DOMAIN line : line[i] \notin Blank}
  IN  IF ink = {} THEN <<>> ELSE SubSeq(line, Min(ink), Len(line))
Digits(line) ==
  LET text == Signed(line)
      from == IF text # <<>> /\ text[1] \in {Minus, Plus} THEN 2 ELSE 1
      stop == {i \in from .. Len(text) : text[i] \notin Zero .. Zero + 9} \cup {Len(text) + 1}
  IN  SubSeq(text, from, Min(stop) - 1)
IsNumber(line) == Digits(line) # <<>>
Number(line) ==
  LET Add(n, digit) == 10 * n + digit - Zero
      size == FoldLeft(Add, 0, Digits(line))
  IN  IF Signed(line)[1] = Minus THEN -size ELSE size

\* What a parse function answers: a node and the bytes it took, none when the node is
\* not all there.
Incomplete == [node |-> [type |-> "none", value |-> <<>>], used |-> 0]
Parsed(type, value, used) == [node |-> [type |-> type, value |-> value], used |-> used]

\* Bug: a bulk is complete without the CRLF after it.
ParseBulkEarly(buf, o, header, length) ==
  IF length = -1 THEN Parsed("null", <<>>, header)
  ELSE IF Len(buf) - o + 1 < header + length THEN Incomplete
  ELSE Parsed("bulk", SubSeq(buf, o + header, o + header + length - 1),
              Min({header + length + 2, Len(buf) - o + 1}))

\* A length below -1 is outside the model: no encoder writes one.
ParseBulk(buf, o, header, length) ==
  IF length = -1 THEN Parsed("null", <<>>, header)
  ELSE IF Len(buf) - o + 1 < header + length + 2 THEN Incomplete
  ELSE Parsed("bulk", SubSeq(buf, o + header, o + header + length - 1), header + length + 2)

\* The next item of an array; At tells what is at an offset.
NextItem(At, so_far) ==
  LET item == At[so_far.used]
  IN  IF so_far.failed \/ item.used = 0 THEN [so_far EXCEPT !.failed = TRUE]
      ELSE [so_far EXCEPT !.items = Append(@, item.node), !.used = @ + item.used]

ParseArray(At, o, header, count) ==
  IF count = -1 THEN Parsed("null", <<>>, header)
  ELSE LET Take(so_far, i) == NextItem(At, so_far)
           all == FoldLeft(Take, [items |-> <<>>, used |-> o + header, failed |-> FALSE],
                           [i \in 1 .. count |-> i])
       IN  IF all.failed THEN Incomplete ELSE Parsed("array", all.items, all.used - o)

\* What is at each offset of a buffer.  A blank line is never complete, and so is
\* nothing after it.
ParseNext(buf) ==
  LET At[o \in 1 .. Len(buf) + 1] ==
        LET first  == IF o <= Len(buf) THEN buf[o] ELSE CR
            line   == Line(buf, o + 1)
            header == LineLength(buf, o + 1) + 1
        IN  IF CrlfFrom(buf, o) \in {0, o} THEN Incomplete ELSE
            CASE first = Plus  -> Parsed("simple", line, header)
             [] first = Minus -> Parsed("error", line, header)
             [] first = Colon /\ IsNumber(line)  -> Parsed("integer", <<Number(line)>>, header)
             [] first = Dollar /\ IsNumber(line) -> ParseBulk(buf, o, header, Number(line))
             [] first = Star /\ IsNumber(line)   -> ParseArray(At, o, header, Number(line))
             [] first \in {Colon, Dollar, Star} /\ ~IsNumber(line) -> Parsed("error", <<>>, header)
             [] OTHER -> Parsed("error", <<>>, header)
  IN  At

\* The messages a buffer holds and what is left of it.
Feed(buffer, chunk) ==
  LET buf == buffer \o chunk
      At  == ParseNext(buf)
      From[o \in 1 .. Len(buf) + 1] ==
        IF At[o].used = 0 THEN [messages |-> <<>>, buffer |-> SubSeq(buf, o, Len(buf))]
        ELSE LET rest == From[o + At[o].used]
             IN  [rest EXCEPT !.messages = <<At[o].node>> \o @]
  IN  From[1]

\* The encoders: one digit is enough for the lengths and numbers here.
EncodeInteger(n)   == <<Colon, Zero + n>> \o CRLF
EncodeSimple(text) == <<Plus>> \o text \o CRLF
EncodeError(text)  == <<Minus>> \o text \o CRLF
EncodeBulk(text)   == <<Dollar, Zero + Len(text)>> \o CRLF \o text \o CRLF
EncodeArray(texts) ==
  <<Star, Zero + Len(texts)>> \o CRLF \o FlattenSeq([i \in DOMAIN texts |-> EncodeBulk(texts[i])])
==============================================================================
