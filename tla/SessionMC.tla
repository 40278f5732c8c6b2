------------------------------ MODULE SessionMC ------------------------------
(* Session for TLC. *)
EXTENDS Session, TLC

\* Connections are interchangeable.
Alike == Permutations(Conn)
==============================================================================
