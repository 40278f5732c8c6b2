------------------------------ MODULE Structures ------------------------------
(***************************************************************************)
(* The data types of DataStore.js whose values are trees, graphs or bits:   *)
(* JSON documents, vector indexes, and strings as bits.  Their definitions  *)
(* follow the code's recursion.  A behaviour is of one family of commands,  *)
(* as in DataTypes.                                                        *)
(***************************************************************************)
EXTENDS Integers, Sequences, FiniteSets

CONSTANTS
  Key, ByteSize, MaxBits, Exact, Fields,                           \* Bits
  Name, Numeral, Length, Star, Deep, MaxIndex, MaxNodes, MaxNumber, \* Json
  Id, Nobody, Vector, M, Breadth, TopLevel, MaxAdds                \* Vectors

VARIABLES family,                         \* of commands
          kv, reply,                      \* Bits
          doc, answer,                    \* Json
          order, vectors, graph, adds     \* Vectors

bitVars    == <<kv, reply>>
jsonVars   == <<doc, answer>>
vectorVars == <<order, vectors, graph, adds>>

vars == <<family, bitVars, jsonVars, vectorVars>>

B == INSTANCE Bits
J == INSTANCE Json
V == INSTANCE Vectors

\* The variables of a family the behaviour is not of.
Unused(v) == v = "unused"
NoBits    == Unused(kv) /\ Unused(reply)
NoJson    == Unused(doc) /\ Unused(answer)
NoVectors == Unused(order) /\ Unused(vectors) /\ Unused(graph) /\ Unused(adds)

Init ==
  \/ family = "bits" /\ B!Init /\ NoJson /\ NoVectors
  \/ family = "json" /\ J!Init /\ NoBits /\ NoVectors
  \/ family = "vectors" /\ V!Init /\ NoBits /\ NoJson

Next ==
  /\ \/ family = "bits" /\ B!Next /\ UNCHANGED <<jsonVars, vectorVars>>
     \/ family = "json" /\ J!Next /\ UNCHANGED <<bitVars, vectorVars>>
     \/ family = "vectors" /\ V!Next /\ UNCHANGED <<bitVars, jsonVars>>
  /\ UNCHANGED family

Spec == Init /\ [][Next]_vars
------------------------------------------------------------------------------
(* Properties: those of the modules, in words there *)

\* Bits: the field that BITFIELD has stored is the one that was written, of one that begins
\* before the string the bits from 0 on; it wraps, saturates or fails as its policy says;
\* what is
\* answered is the field as stored, rounded where a double does not hold it; BITCOUNT and
\* BITPOS agree on every range.
BitsAgree ==
  family = "bits" =>
    B!TypeOK /\ B!FieldsReadBack /\ B!AnswersAreStored /\ B!OverflowIsRight /\ B!CountsAndPositionsAgree

\* JSON paths: what JSON.SET has put at a path JSON.GET returns and JSON.DEL takes away, and
\* what is elsewhere stays, where a name that leads into an array is told from an index;
\* wildcards find what is at the paths they are read to stand for, each once, and what
\* objects lack; the commands on arrays mean the same places by their indexes.
PathsAgree ==
  family = "json" =>
    J!TypeOK /\ J!SetIsExact /\ J!DeletesAreExact /\ J!WildcardsFindAll /\ J!ArrayEditsAgree

\* Vector indexes: the graph holds the vectors as they are now, a search of a small index
\* returns what one without the graph does, and a search that is narrow still ends where no
\* neighbour is nearer.
VectorIndexAgrees ==
  family = "vectors" =>
    V!TypeOK /\ V!GraphHoldsVectors /\ V!SmallIndexIsExact /\ V!SearchEndsAtOptimum

\* SETBIT changes its bit only and BITFIELD the bits of its fields, those before a part that
\* is answered an error among them.
BitsChangeNoMore == [][family = "bits" => B!KeepsOtherBits]_vars
==============================================================================
