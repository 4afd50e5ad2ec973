----------------------------- MODULE SerialLanes -----------------------------
(***************************************************************************)
(* What the queue of #agent messages promises: each agent has a lane, the   *)
(* jobs of a lane run one at a time and their answers leave in the order in *)
(* which the jobs were accepted.                                            *)
(***************************************************************************)
EXTENDS Naturals, Sequences

CONSTANTS Agents, Jobs

VARIABLES
  accepted, \* accepted[a]: jobs of agent a, in the order of their acceptance
  answered, \* answered[a]: jobs whose answer has been delivered, in that order
  running   \* running[a]: a job of agent a has been started and not answered

laneVars == <<accepted, answered, running>>

LanesInit ==
  /\ accepted = [a \in Agents |-> <<>>]
  /\ answered = [a \in Agents |-> <<>>]
  /\ running = [a \in Agents |-> FALSE]

Accept(a, j) ==
  /\ \A b \in Agents : \A i \in 1..Len(accepted[b]) : accepted[b][i] # j
  /\ accepted' = [accepted EXCEPT ![a] = Append(@, j)]
  /\ UNCHANGED <<answered, running>>

Start(a) ==
  /\ ~running[a]
  /\ Len(answered[a]) < Len(accepted[a])
  /\ running' = [running EXCEPT ![a] = TRUE]
  /\ UNCHANGED <<accepted, answered>>

Answer(a) ==
  /\ running[a]
  /\ answered' = [answered EXCEPT ![a] = Append(@, accepted[a][Len(@) + 1])]
  /\ running' = [running EXCEPT ![a] = FALSE]
  /\ UNCHANGED accepted

LanesNext == \E a \in Agents : (\E j \in Jobs : Accept(a, j)) \/ Start(a) \/ Answer(a)

LanesSpec == LanesInit /\ [][LanesNext]_laneVars

\* Every accepted job is started and answered in the end.
FairLanes ==
  LanesSpec /\ \A a \in Agents : WF_laneVars(Start(a)) /\ WF_laneVars(Answer(a))
=============================================================================
