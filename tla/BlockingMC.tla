------------------------------ MODULE BlockingMC ------------------------------
(* Blocking for TLC. *)
EXTENDS Blocking

CONSTANTS q1, q2   \* two lists

\* BLPOP of both lists, BRPOP of one.
ChosenPops == {[keys |-> <<q1, q2>>, right |-> FALSE], [keys |-> <<q2>>, right |-> TRUE]}

\* Nothing out of the ordinary, or both circumstances.
ChosenSurroundings == {{}, {"gone", "bad option"}}
==============================================================================
