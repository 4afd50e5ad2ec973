----------------------------- MODULE MCTurnLoop -----------------------------
(* Instances of TurnLoop for TLC.                                           *)
EXTENDS TurnLoop

\* With these instead of MCNoPins, TLC refutes PinnedPromptsAsked.
MCPins == <<[Msg("pin", 99) EXCEPT !.kind = "pin"]>>
MCNoPins == <<>>
MCBatches == {<<"a", "b", "a">>}
MCSettings ==
  { [limit |-> 2, turns |-> 2, steers |-> 1, events |-> 1],
    [limit |-> 1, turns |-> 3, steers |-> 0, events |-> 0] }
=============================================================================
