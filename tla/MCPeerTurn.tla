----------------------------- MODULE MCPeerTurn -----------------------------
(***************************************************************************)
(* Instances of PeerTurn.  Two messages, a reset, a resuming turn and a    *)
(* crash at once are more than TLC can do: once the process has crashed,   *)
(* the constraints leave less of the rest.                                 *)
(***************************************************************************)
EXTENDS PeerTurn, TLC

TextSymmetry == Permutations(Texts)

Arrived(S) == {m \in S : pc[m] # "idle"}

\* With a crash at most one text arrives; with two texts and a reset, the resuming turn
\* has ended.
OneTextLess ==
  Cardinality(Arrived(Texts)) > 1 =>
    crashes = 0 /\ (Arrived(Resets) # {} => pc[Boot] \notin Working)

\* No reset comes in a behaviour with a crash.
CrashOrReset == crashes > 0 => Arrived(Resets) = {}
=============================================================================
