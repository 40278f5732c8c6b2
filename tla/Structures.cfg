CONSTANTS
  Key = {k1, k2}
  ByteSize = 2
  MaxBits = 4
  Exact = 2
  Fields <- ChosenFields
  Name = {x, zero, length}
  Numeral = zero
  Length = length
  Star = star
  Deep = deep
  MaxIndex = 1
  MaxNodes = 3
  MaxNumber = 1
  Id = {a, b, c}
  Nobody = nobody
  Vector = {0, 1, 2}
  M = 2
  Breadth = 2
  TopLevel = 1
  MaxAdds = 4
SPECIFICATION Spec
SYMMETRY Alike
CHECK_DEADLOCK FALSE
INVARIANTS BitsAgree PathsAgree VectorIndexAgrees
PROPERTY BitsChangeNoMore
