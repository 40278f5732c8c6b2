----------------------------- MODULE DurabilityMC -----------------------------
(* Durability for TLC. *)
EXTENDS Durability

\* The AOF, appends cut short and refused, two databases.
Logging == [features |-> {"aof"}, faults |-> {"torn", "diskfull"},
            op |-> {"INCR", "PEXPIRE"}, db |-> {0, 1}, writes |-> 3]

\* Snapshots, copies that throw and writes that are refused, two databases.
Saving == [features |-> {"snapshot"}, faults |-> {"diskfull"},
           op |-> {"INCR", "XADD"}, db |-> {0, 1}, writes |-> 2]

\* Both at once.
Both == [features |-> {"aof", "snapshot"}, faults |-> {"torn"},
         op |-> {"INCR"}, db |-> {0}, writes |-> 2]

\* The AOF alone, database 0, logged commands, no faults and more writes.
Alone == [features |-> {"aof"}, faults |-> {}, op |-> {"INCR", "DEL"}, db |-> {0}, writes |-> 5]

ChosenSettings == {Logging, Saving, Both, Alone}

\* Both files, and nothing that goes wrong but a crash.
BothFiles ==
  {[features |-> {"aof", "snapshot"}, faults |-> {}, op |-> {"INCR"}, db |-> {0}, writes |-> 2]}
==============================================================================
