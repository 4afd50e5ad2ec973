-------------------------------- MODULE MCParts --------------------------------
(***************************************************************************)
(* A behaviour is either a reading of an input (kind is that of the input, *)
(* module Readings) or one of the slots (kind is "slots", module Slots).   *)
(***************************************************************************)
EXTENDS Slots

\* One peer, a sub-agent and a reset, a server with two slots and one with one.
MCResetOf == [r \in ResetCalls |-> CHOOSE p \in Peers : TRUE]
MCHostOf  == [a \in Aliases |-> a]
MCSlotsOf == [a \in Aliases |-> IF a = "a" THEN 2 ELSE 1]

VARIABLES kind, input, sent   \* of Readings

Readings == INSTANCE Readings

slots    == <<current, events, avail, total, owner, recent, cache, at, got, calm>>
readings == <<kind, input, sent>>

PartsInit == /\ SlotInit
             /\ \/ kind = "slots" /\ input = <<>> /\ sent = Readings!Nothing
                \/ current = "a" /\ Readings!Init

PartsNext == \/ kind = "slots" /\ SlotNext /\ UNCHANGED readings
             \/ kind # "slots" /\ Readings!Next /\ UNCHANGED slots

PartsSpec == PartsInit /\ [][PartsNext]_<<slots, readings>>

-----------------------------------------------------------------------------
(* What the readings promise; each is stated in its module.                 *)

\* All gates read the same of a shell command (SplitCommands, Tokenize).
GatesReadAlike == Readings!GatesReadAlike

\* No gate asks again what the user has answered (askShellPermission).
AnswersSettle == Readings!AnswersSettle

\* The calls of an answer are those written in it (ParseXMLToolCalls).
CallsAreWritten == Readings!CallsAreWritten

\* An answer that ended is what the server sent; a call that was cut is not run
\* (collectStreamResponseWithToolCalls).
AnswerIsWhole == Readings!AnswerIsWhole

\* A patch makes the new file of the old one, the pages of a file are the file, and the
\* parts of a message the message (applyUpdateFile, FileReadTool, splitText).
FilesAreWhole == Readings!FilesAreWhole
=============================================================================
