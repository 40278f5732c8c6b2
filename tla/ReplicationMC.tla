---------------------------- MODULE ReplicationMC ----------------------------
(* Replication for TLC. *)
EXTENDS Replication

CONSTANTS x, y, stream, l1

\* Every event, a value that cannot be serialized, two sockets and a backlog of one command.
Everything ==
  [events |-> Events, cmds |-> {x, stream}, backlog |-> 1, sockets |-> Link, writes |-> 3,
   losses |-> 1]

\* Connections that end with `close', masters that restart, and more writes and losses.
Gracefully ==
  [events |-> {"close", "restart"}, cmds |-> {x, y}, backlog |-> 2, sockets |-> {l1}, writes |-> 4,
   losses |-> 2]

ChosenSettings == [everything |-> Everything, gracefully |-> Gracefully]
==============================================================================
