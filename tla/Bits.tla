--------------------------------- MODULE Bits ---------------------------------
(***************************************************************************)
(* DataStore.js: strings as bits.  SETBIT, GETBIT, BITCOUNT, BITPOS, BITOP,  *)
(* and BITFIELD's integers of any width at any offset, with what it does on *)
(* overflow.                                                                *)
(*                                                                         *)
(* A string is its bits, the first byte's highest first; there are as many  *)
(* as whole bytes need.  A key that is missing reads like an empty string.  *)
(* BITFIELD takes offsets below 0 too: there is nothing there to read, and  *)
(* what is written there is lost.  It computes with BigInt and answers a    *)
(* double, which does not hold the wider fields.                            *)
(***************************************************************************)
EXTENDS Integers, Sequences, FiniteSets, SequencesExt, Bitwise

CONSTANTS Key,          \* keys
          ByteSize,     \* the bits of a byte
          MaxBits,      \* bound: the length of strings
          Exact,        \* the bits of the integers that a double holds: 53 in the code
          Fields        \* the BITFIELD commands to consider, as sequences of [op, type, offset, value, policy]

VARIABLES kv, reply
vars == <<kv, reply>>

Byte(i)   == i \div ByteSize
Bytes(s)  == Len(s) \div ByteSize
Bit(s, o) == IF o \in 0 .. Len(s) - 1 THEN s[o + 1] ELSE 0    \* GETBIT
Zeros(n)  == [i \in 1 .. n |-> 0]

\* Bug: the old bytes are not copied into the longer string.
GrownAnew(s, o) == IF Byte(o) < Bytes(s) THEN s ELSE Zeros((Byte(o) + 1) * ByteSize)

\* Zeros up to and with the byte of a position.
Grown(s, o) == s \o Zeros(IF Byte(o) < Bytes(s) THEN 0 ELSE (Byte(o) + 1) * ByteSize - Len(s))

With(s, o, b) == IF o < 0 THEN s ELSE [Grown(s, o) EXCEPT ![o + 1] = b]
------------------------------------------------------------------------------
(* Integers of a type: [signed, width] *)

Lowest(type) == IF type.signed THEN -(2 ^ (type.width - 1)) ELSE 0
Highest(type) == IF type.signed THEN 2 ^ (type.width - 1) - 1 ELSE 2 ^ type.width - 1

\* _bitfieldRead.
Read(s, o, type) ==
  LET Shift(n, i) == 2 * n + Bit(s, o + i)
      result == FoldLeft(Shift, 0, [i \in 1 .. type.width |-> i - 1])
      mask   == 2 ^ type.width - 1
  IN  IF type.signed /\ result >= 2 ^ (type.width - 1) THEN -((mask - result) + 1) ELSE result

\* _bitfieldWrite: the lowest bits of the value, the highest first.
Write(s, o, type, value) ==
  LET v == value % (2 ^ type.width)
      Put(t, i) == With(t, o + i, (v \div 2 ^ (type.width - 1 - i)) % 2)
  IN  FoldLeft(Put, Grown(s, o + type.width - 1), [i \in 1 .. type.width |-> i - 1])

\* The remainder of JavaScript has the sign of the dividend.
Rem(a, b) == IF a >= 0 THEN a % b ELSE -((-a) % b)

Overflow == {"WRAP", "SAT", "FAIL"}
Nothing  == 1000000   \* null

\* _bitfieldHandleOverflow.
HandleOverflow(value, type, policy) ==
  LET range == Highest(type) - Lowest(type) + 1
  IN  CASE value \in Lowest(type) .. Highest(type) -> value
        [] policy = "FAIL" -> Nothing
        [] policy = "SAT"  -> IF value < Lowest(type) THEN Lowest(type) ELSE Highest(type)
        [] OTHER           -> Rem(Rem(value - Lowest(type), range) + range, range) + Lowest(type)

\* Number of a BigInt: the double that is nearest, the even one of two.
Number(value) ==
  LET size == IF value < 0 THEN -value ELSE value
      e    == CHOOSE e \in 0 .. MaxBits : size \div 2 ^ e < 2 ^ Exact /\ (e = 0 \/ size \div 2 ^ (e - 1) >= 2 ^ Exact)
      q    == size \div 2 ^ e
      over == 2 * (size % 2 ^ e)
      near == (q + IF over > 2 ^ e \/ (over = 2 ^ e /\ q % 2 = 1) THEN 1 ELSE 0) * 2 ^ e
  IN  IF value < 0 THEN -near ELSE near
------------------------------------------------------------------------------
(* Counting and searching *)

\* _popcountByte.
Popcount(b) ==
  LET x == b - (shiftR(b, 1) & 85)
      y == (x & 51) + (shiftR(x, 2) & 51)
  IN  (y + shiftR(y, 4)) & 15

ByteAt(s, i) == Read(s, i * ByteSize, [signed |-> FALSE, width |-> ByteSize])

\* BITCOUNT's range of bytes.
Count(s, start, end) ==
  LET n     == Bytes(s)
      first == IF start < 0 THEN (IF n + start < 0 THEN 0 ELSE n + start) ELSE start
      given == IF end < 0 THEN (IF n + end < 0 THEN -1 ELSE n + end) ELSE end
      last  == IF given >= n THEN n - 1 ELSE given
      Add(sum, i) == sum + Popcount(ByteAt(s, i))
  IN  FoldLeft(Add, 0, [i \in 1 .. IF last < first THEN 0 ELSE last - first + 1 |-> first + i - 1])

\* BITPOS.  Bug: the range ends before its last byte.
PositionShort(s, b, start, end) ==
  LET n     == Bytes(s)
      first == IF start < 0 THEN (IF n + start < 0 THEN 0 ELSE n + start) ELSE start
      last  == (IF end < 0 THEN n + end ELSE IF end >= n THEN n - 1 ELSE end) - 1
      found == {o \in first * ByteSize .. (last + 1) * ByteSize - 1 : Bit(s, o) = b}
  IN  CASE n = 0 -> IF b = 1 THEN -1 ELSE 0
        [] first >= n -> IF b = 1 THEN -1 ELSE Len(s)
        [] last < first -> -1
        [] OTHER -> IF found # {} THEN CHOOSE o \in found : \A p \in found : o <= p
                    ELSE IF b = 1 THEN -1 ELSE (last + 1) * ByteSize

\* BITPOS: a 0 that is not there is the first position after the range.
Position(s, b, start, end) ==
  LET n     == Bytes(s)
      first == IF start < 0 THEN (IF n + start < 0 THEN 0 ELSE n + start) ELSE start
      last  == IF end < 0 THEN n + end ELSE IF end >= n THEN n - 1 ELSE end
      found == {o \in first * ByteSize .. (last + 1) * ByteSize - 1 : Bit(s, o) = b}
  IN  CASE n = 0 -> IF b = 1 THEN -1 ELSE 0
        [] first >= n -> IF b = 1 THEN -1 ELSE Len(s)
        [] last < first -> -1
        [] OTHER -> IF found # {} THEN CHOOSE o \in found : \A p \in found : o <= p
                    ELSE IF b = 1 THEN -1 ELSE (last + 1) * ByteSize
------------------------------------------------------------------------------
(* Commands *)

Does(k, s, answer) == kv' = [kv EXCEPT ![k] = s] /\ reply' = answer

SetBit(k, o, b) == Does(k, With(kv[k], o, b), "done")

Longest(ks) == CHOOSE n \in {Len(kv[k]) : k \in Range(ks)} : \A k \in Range(ks) : Len(kv[k]) <= n

Combined(op, bits) ==
  CASE op = "AND" -> IF 0 \in Range(bits) THEN 0 ELSE 1
    [] op = "OR"  -> IF 1 \in Range(bits) THEN 1 ELSE 0
    [] op = "XOR" -> FoldLeft(LAMBDA a, b : (a + b) % 2, 0, bits)
    [] op = "NOT" -> 1 - bits[1]

\* As long as the longest; the others go on with zeros.
BitOp(op, dest, ks) ==
  /\ op = "NOT" => Len(ks) = 1
  /\ Does(dest, [i \in 1 .. Longest(ks) |-> Combined(op, [j \in DOMAIN ks |-> Bit(kv[ks[j]], i - 1)])], "done")

\* One part of a BITFIELD on the string so far, and what it is answered: the field as it
\* was, or after an INCRBY the new value.
FieldOn(sofar, f) ==
  LET s   == sofar.bits
      old == Read(s, f.offset, f.type)
      new == HandleOverflow(old + f.value, f.type, f.policy)
      Part(t, a) == [bits |-> t, replies |-> Append(sofar.replies, a)]
  IN  CASE f.op = "GET" -> Part(s, Number(old))
        [] f.op = "SET" -> Part(Write(s, f.offset, f.type, f.value), Number(old))
        [] f.op = "INCRBY" /\ new = Nothing -> Part(s, Nothing)
        [] f.op = "INCRBY" /\ new # Nothing -> Part(Write(s, f.offset, f.type, new), Number(new))

\* The parts before the first that is no command: they are done, whatever is answered.
Bad(fs)  == {i \in DOMAIN fs : fs[i].op = "bad"}
Good(fs) == IF Bad(fs) = {} THEN fs ELSE SubSeq(fs, 1, (CHOOSE i \in Bad(fs) : \A j \in Bad(fs) : i <= j) - 1)

\* The string that they leave, and the answers.
Done(s, fs) == FoldLeft(FieldOn, [bits |-> s, replies |-> <<>>], Good(fs))

BitField(k, fs) ==
  LET done == Done(kv[k], fs)
  IN  Len(done.bits) <= MaxBits /\ Does(k, done.bits, IF Bad(fs) = {} THEN "done" ELSE "error")

Init == kv = [k \in Key |-> <<>>] /\ reply = "done"

Next ==
  \E k \in Key :
    \/ \E o \in 0 .. MaxBits - 1, b \in {0, 1} : SetBit(k, o, b)
    \/ \E op \in {"AND", "OR", "XOR", "NOT"}, n \in {1, 2} : \E ks \in [1 .. n -> Key] : BitOp(op, k, ks)
    \/ \E fs \in Fields : BitField(k, fs)

Spec == Init /\ [][Next]_vars
------------------------------------------------------------------------------
(* Properties *)

AllTypes == [signed : BOOLEAN, width : 1 .. MaxBits]

\* The types of the variables: whole bytes of bits.
TypeOK ==
  /\ reply \in {"done", "error"}
  /\ \A k \in Key : kv[k] \in Seq({0, 1}) /\ Len(kv[k]) <= MaxBits /\ Len(kv[k]) % ByteSize = 0

\* What BITFIELD has stored at an offset of 0 or more it reads back as it was written, at any
\* width and across bytes, signed fields as two's complement; of a field that begins before
\* the string only the bits from 0 on are kept.  Nothing around it changes.
FieldsReadBack ==
  \A k \in Key : \A type \in AllTypes : \A o \in -type.width .. MaxBits - type.width :
    /\ Read(kv[k], o, type) \in Lowest(type) .. Highest(type)
    /\ \A v \in Lowest(type) .. Highest(type) :
         LET s == Write(kv[k], o, type, v)
         IN  /\ Read(s, o, type) = IF o >= 0 THEN v ELSE v % 2 ^ (o + type.width)
             /\ \A p \in 0 .. MaxBits - 1 : p \notin o .. o + type.width - 1 => Bit(s, p) = Bit(kv[k], p)

\* What a BITFIELD that ends with a GET or an INCRBY answers last is the field as it is then
\* stored: exactly if a double holds the type, else the double nearest to it.
AnswersAreStored ==
  \A k \in Key : \A fs \in {gs \in Fields : Bad(gs) = {} /\ Last(gs).op \in {"GET", "INCRBY"} /\ Last(gs).offset >= 0} :
    LET done   == Done(kv[k], fs)
        type   == Last(fs).type
        said   == Last(done.replies)
        stored == Read(done.bits, Last(fs).offset, type)
        off    == IF said > stored THEN said - stored ELSE stored - said
    IN  said # Nothing => /\ type.width <= Exact => off = 0
                          /\ off * 2 ^ (Exact + 1) <= 2 ^ type.width

\* What overflows wraps to the integer of the type that is the same modulo its range, or
\* saturates at the nearer end, or fails: for sums far below and far above the range too.
OverflowIsRight ==
  \A type \in AllTypes : \A v \in 3 * Lowest(type) - 9 .. 3 * Highest(type) + 9 :
    /\ HandleOverflow(v, type, "WRAP") =
         CHOOSE x \in Lowest(type) .. Highest(type) : (v - x) % (2 ^ type.width) = 0
    /\ HandleOverflow(v, type, "SAT") =
         CHOOSE x \in Lowest(type) .. Highest(type) :
           \A y \in Lowest(type) .. Highest(type) : (IF v > x THEN v - x ELSE x - v) <= (IF v > y THEN v - y ELSE y - v)
    /\ (HandleOverflow(v, type, "FAIL") = Nothing) = (v \notin Lowest(type) .. Highest(type))

\* BITCOUNT and BITPOS agree on every range: the first 1 is the least position of a 1 that
\* is counted, and there is none exactly when the count is 0; the arithmetic of a byte's
\* count is right for all 256 bytes.
PopcountCounts == \A b \in 0 .. 255 : Popcount(b) = Cardinality({i \in 0 .. 7 : (b \div 2 ^ i) % 2 = 1})
CountsAndPositionsAgree ==
  /\ PopcountCounts
  /\ \A k \in Key : \A start, end \in -3 .. 3 :
       LET s == kv[k] first == Position(s, 1, start, end)
       IN  /\ (first = -1) = (Count(s, start, end) = 0)
           /\ first # -1 => /\ Bit(s, first) = 1
                            /\ Count(s, start, first \div ByteSize - 1) = 0 \/ first < ByteSize

\* SETBIT changes one bit.  A BITFIELD changes none outside of the fields that it sets or
\* increments; one answered an error may have changed those before its bad part, and no more.
Touched(fs) ==
  UNION {f.offset .. f.offset + f.type.width - 1 : f \in {g \in Range(Good(fs)) : g.op \in {"SET", "INCRBY"}}}
SameBits(k, places) == \A p \in (0 .. MaxBits - 1) \ places : Bit(kv'[k], p) = Bit(kv[k], p)
KeepsOtherBits ==
  \A k \in Key :
    /\ \A o \in 0 .. MaxBits - 1, b \in {0, 1} : SetBit(k, o, b) => Bit(kv'[k], o) = b /\ SameBits(k, {o})
    /\ \A fs \in Fields : BitField(k, fs) => SameBits(k, Touched(fs))
==============================================================================
