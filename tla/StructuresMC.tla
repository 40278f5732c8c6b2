----------------------------- MODULE StructuresMC -----------------------------
(* Structures for TLC. *)
EXTENDS Structures, TLC

\* No order of keys matters to bits.
Alike == Permutations(Key)

Unsigned(w) == [signed |-> FALSE, width |-> w]
Signed(w)   == [signed |-> TRUE, width |-> w]
Field(op, type, offset, value, policy) ==
  [op |-> op, type |-> type, offset |-> offset, value |-> value, policy |-> policy]
NoCommand == Field("bad", Unsigned(1), 0, 0, "WRAP")
ChosenFields ==
  {<<Field("INCRBY", Signed(3), 1, 3, policy)>> : policy \in {"WRAP", "SAT", "FAIL"}} \cup
  {<<Field("SET", Unsigned(3), 1, 5, "WRAP")>>,
   <<Field("GET", Unsigned(2), 3, 0, "WRAP"), Field("INCRBY", Unsigned(4), 0, 1, "SAT")>>,
   <<Field("SET", Unsigned(3), -1, 7, "WRAP")>>, <<Field("INCRBY", Signed(4), 0, -3, "SAT")>>,
   <<NoCommand>>, <<Field("INCRBY", Signed(2), 0, -3, "WRAP"), NoCommand>>}
==============================================================================
