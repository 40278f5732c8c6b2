----------------------------- MODULE KeyspaceMC -----------------------------
(* Keyspace for TLC: its properties, and small values for its constants. *)
EXTENDS Keyspace, TLC

SecondsDef == {-1, 0, 1}
MillisDef  == {-1, 0, 1, 3}
PurgeMillis == {1}

\* `call', `reply' and `events' describe the step that led to a state and no
\* action reads them, so states that differ only in them are one.
StoreView == <<kv, expires, now>>
\* Keys and characters are interchangeable.
Alike == Permutations(Key) \cup Permutations(Atom)
=============================================================================
