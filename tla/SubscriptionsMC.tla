--------------------------- MODULE SubscriptionsMC ---------------------------
(* Subscriptions for TLC. *)
EXTENDS Subscriptions, TLC

\* Every notification ("KEA"), or those of strings, by event only ("E$").
ChosenFlags ==
  {[keyspace |-> TRUE, keyevent |-> TRUE, classes |-> {"$", "g", "s", "x"}],
   [keyspace |-> FALSE, keyevent |-> TRUE, classes |-> {"$"}]}

\* It is started with all of them.
StartFlags == {f \in ChosenFlags : f.keyspace}

\* One channel of each kind.
SomeDb  == CHOOSE d \in Db : TRUE
SomeKey == CHOOSE k \in Key : TRUE
ChosenChannels == {<<"plain", "news">>, KeySpace(SomeDb, SomeKey), KeyEvent(SomeDb, "set")}

ChosenSurroundings == {{"mset", "moves", "exec"}, {"expiry", "flush"},
                       {"execread", "switch", "foreign", "config"}}

\* Connections are interchangeable.
Alike == Permutations(Conn)
==============================================================================
