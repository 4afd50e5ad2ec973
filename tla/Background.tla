------------------------------ MODULE Background ------------------------------
(***************************************************************************)
(* Shell commands in the background (tools.BackgroundHub).  An agent       *)
(* starts one with shell_background; when the command ends, a notice goes  *)
(* into the input of the agent that owns it by then.  Every sub-agent has  *)
(* a delivery function from its creation to its end; at its end its tasks  *)
(* are passed on and the function is removed, in two steps, while the      *)
(* commands end whenever they like.                                        *)
(***************************************************************************)
EXTENDS Integers, FiniteSets, FiniteSetsExt

CONSTANTS Tasks,     \* numbers, in the order they begin
          Agents,    \* sub-agents, by their sessions
          ParentOf,  \* the one that spawned each, or Main
          Main,      \* the agents of the peers: they share this name
          None,
          Limit      \* BackgroundHub.max

Owners == Agents \cup {Main}

VARIABLES state,   \* of a task: "none", "passed", "running", "ended", "found", "told" or "refused"
          by,      \* the agent that started it
          owner,   \* BackgroundTask.Owner
          sink,    \* the delivery function that its notice goes through
          sinks,   \* BackgroundHub.deliveries
          stage,   \* of an agent: "new", "working", "released" or "over"
          input    \* notices that an agent has yet to read

vars == <<state, by, owner, sink, sinks, stage, input>>

Init == /\ state = [k \in Tasks |-> "none"]
        /\ by = [k \in Tasks |-> None] /\ owner = by /\ sink = by
        /\ sinks = {Main}
        /\ stage = [a \in Agents |-> "new"]
        /\ input = [o \in Owners |-> {}]

Working(o) == IF o = Main THEN TRUE ELSE stage[o] = "working"

In(s) == {k \in Tasks : state[k] = s}

\* An agent runs its calls one after the other; the model has one peer.
Busy(o) == \E k \in In("passed") : by[k] = o

\* BackgroundTask.ParentOwner; the agent of a peer has no name for its children.
ParentOwner(k) == IF by[k] = Main \/ ParentOf[by[k]] = Main THEN None ELSE ParentOf[by[k]]

-----------------------------------------------------------------------------
(* Agents.                                                                  *)

Spawn(a) == /\ stage[a] = "new" /\ Working(ParentOf[a])
            /\ stage' = [stage EXCEPT ![a] = "working"]
            /\ sinks' = sinks \cup {a}
            /\ UNCHANGED <<state, by, owner, sink, input>>

\* ReleasePending: to the parent of the agent that started the task, if it is
\* still there, else to the agent of the peer.
Heir(k) == IF ParentOwner(k) \in sinks THEN ParentOwner(k) ELSE Main

Release(a) ==
  /\ stage[a] = "working" /\ ~Busy(a)
  /\ owner' = [k \in Tasks |-> IF owner[k] = a THEN Heir(k) ELSE owner[k]]
  /\ stage' = [stage EXCEPT ![a] = "released"]
  /\ UNCHANGED <<state, by, sink, sinks, input>>

UnregisterNot(a) ==  \* Mutant: the function stays.
  /\ stage[a] = "released"
  /\ stage' = [stage EXCEPT ![a] = "over"]
  /\ UNCHANGED <<state, by, owner, sink, sinks, input>>

Unregister(a) ==
  /\ stage[a] = "released"
  /\ sinks' = sinks \ {a}
  /\ stage' = [stage EXCEPT ![a] = "over"]
  /\ UNCHANGED <<state, by, owner, sink, input>>

\* The next round of an agent takes its notices.
Read(o) == /\ Working(o) /\ input[o] # {}
           /\ input' = [input EXCEPT ![o] = {}]
           /\ UNCHANGED <<state, by, owner, sink, sinks, stage>>

-----------------------------------------------------------------------------
(* Tasks.                                                                   *)

CanPassOneMore == Cardinality(In("running")) <= Limit  \* Mutant: > for >=.

CanPass == Cardinality(In("running")) < Limit

\* StartFor, first critical section: the limit.
Pass(o, k) == /\ Working(o) /\ ~Busy(o) /\ In("none") # {} /\ k = Min(In("none"))
              /\ state' = [state EXCEPT ![k] = IF CanPass THEN "passed" ELSE "refused"]
              /\ by' = [by EXCEPT ![k] = o]
              /\ UNCHANGED <<owner, sink, sinks, stage, input>>

\* The command is started, or cannot be; then the second one, which records it.
Insert(k) == /\ state[k] = "passed"
             /\ \/ state' = [state EXCEPT ![k] = "running"] /\ owner' = [owner EXCEPT ![k] = by[k]]
                \/ state' = [state EXCEPT ![k] = "refused"] /\ UNCHANGED owner
             /\ UNCHANGED <<by, sink, sinks, stage, input>>

End(k) == /\ state[k] = "running"
          /\ state' = [state EXCEPT ![k] = "ended"]
          /\ UNCHANGED <<by, owner, sink, sinks, stage, input>>

\* deliver: the owner's function, else that of its starter's parent, else Main's.
SinkOf(k) == IF owner[k] \in sinks THEN owner[k]
             ELSE IF ParentOwner(k) \in sinks THEN ParentOwner(k) ELSE Main

\* watch, once the command has ended: it looks the function up and calls it.
Find(k) == /\ state[k] = "ended" /\ SinkOf(k) # None
           /\ sink' = [sink EXCEPT ![k] = SinkOf(k)]
           /\ state' = [state EXCEPT ![k] = "found"]
           /\ UNCHANGED <<by, owner, sinks, stage, input>>

Tell(k) == /\ state[k] = "found"
           /\ input' = [input EXCEPT ![sink[k]] = @ \cup {k}]
           /\ state' = [state EXCEPT ![k] = "told"]
           /\ UNCHANGED <<by, owner, sink, sinks, stage>>

-----------------------------------------------------------------------------
Next == \/ \E a \in Agents : Spawn(a) \/ Release(a) \/ Unregister(a)
        \/ \E o \in Owners : Read(o) \/ \E k \in Tasks : Pass(o, k)
        \/ \E k \in Tasks : Insert(k) \/ End(k) \/ Find(k) \/ Tell(k)

Fairness == \A k \in Tasks : WF_vars(Find(k) \/ Tell(k))

Spec == Init /\ [][Next]_vars

FairSpec == Spec /\ Fairness

-----------------------------------------------------------------------------
(* Properties.                                                              *)

\* More commands than the limit run only when several agents pass the check before
\* the others' commands are recorded: at most one more for each other agent there was.
CapHolds ==
  Cardinality(In("running")) <= Limit + Cardinality({a \in Agents : stage[a] # "new"})

\* The notice of a command goes to an agent that is there when it is looked up,
\* whoever of its starter, its parent and the others has ended by then.
NoticeToLiving ==
  [][\A k \in Tasks : state[k] = "ended" /\ state'[k] = "found" /\ sink'[k] # Main
       => stage[sink'[k]] # "over"]_vars

\* Every command that ends is told to some agent.
NoticeArrives == \A k \in Tasks : state[k] = "ended" ~> state[k] = "told"
=============================================================================
