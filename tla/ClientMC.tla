------------------------------- MODULE ClientMC -------------------------------
(* Client for TLC: surroundings to choose from in a cfg. *)
EXTENDS Client

\* What a client meets: connections that fail, break and end; with and without a password.
Everyday == {"refuse", "lose", "end"}

\* And what upsets it, a few faults at a time.
ChosenSurroundings ==
  {Everyday, Everyday \cup {"password"}, {"bad password", "lose"},
   {"tear", "push"}, {"end", "between"}, {"disconnect", "refuse"}}
==============================================================================
