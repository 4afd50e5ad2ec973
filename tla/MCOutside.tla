------------------------------- MODULE MCOutside -------------------------------
(* An agent of a peer's agent, and one of its own.                          *)
EXTENDS Outside

MCParentOf == [o \in Agents |-> IF o = "a" THEN Main ELSE "a"]
=============================================================================
