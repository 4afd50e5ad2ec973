-------------------------------- MODULE Outside --------------------------------
(***************************************************************************)
(* The three components that deal with other processes: the restarter, the *)
(* engines of the models and the shell commands in the background.  They   *)
(* share no state, so a behaviour is one of one of them: the others stay   *)
(* at their initial states.                                                *)
(***************************************************************************)
EXTENDS Engine, Sequences

CONSTANTS Pids, MaxCommands, MaxPending,        \* Gateway
          Tasks, Agents, ParentOf, Main, Limit  \* Background

VARIABLES sent, toHost, toAgent, files, cmd, alive, fresh, workerAt, job, phase,
          refused, entries, held

VARIABLES state, by, owner, sink, sinks, stage, input

VARIABLE part   \* the component that the behaviour is of

Gateway    == INSTANCE Gateway WITH holder <- held, at <- workerAt
Background == INSTANCE Background

gateway    == <<sent, toHost, toAgent, files, cmd, alive, fresh, workerAt, job, phase,
                refused, entries, held>>
background == <<state, by, owner, sink, sinks, stage, input>>

OutsideInit == /\ part \in {"gateway", "engine", "background"}
               /\ Gateway!Init /\ Init /\ Background!Init

OutsideNext ==
  \/ part = "gateway"    /\ Gateway!Next    /\ UNCHANGED <<part, vars, background>>
  \/ part = "engine"     /\ Next            /\ UNCHANGED <<part, gateway, background>>
  \/ part = "background" /\ Background!Next /\ UNCHANGED <<part, gateway, vars>>

\* The fairness of each component, in the behaviours that are of it.
OutsideFairness ==
  /\ WF_gateway(part = "gateway" /\ Gateway!Tick)
  /\ WF_gateway(part = "gateway" /\ Gateway!Listen)
  /\ WF_gateway(part = "gateway" /\ Gateway!Noticed)
  /\ \A w \in Gateway!Workers : WF_gateway(part = "gateway" /\ Gateway!Work(w))
  /\ WF_vars(part = "engine" /\ Watch)
  /\ \A t \in Turns : WF_vars(part = "engine" /\ Step(t))
  /\ \A k \in Tasks : WF_background(part = "background" /\ (Background!Find(k) \/ Background!Tell(k)))

OutsideSpec == OutsideInit /\ [][OutsideNext]_<<part, gateway, vars, background>> /\ OutsideFairness

-----------------------------------------------------------------------------
(* What the other two components promise; each is stated in its module.     *)

\* One agent process at most, of the last build (agentProc, updateAgent).
OneBuiltAgent == Gateway!OneBuiltAgent

\* What was begun outside is brought to its end: an agent that was stopped for an update
\* comes back, a request that the agent wrote down is taken up, a command that ended is told
\* to some agent (updateAgent, monitorAgent, watch).
BegunIsEnded == Gateway!AgentReturns /\ Gateway!SignalsServed /\ Background!NoticeArrives

\* Switching the model keeps models.json (handleModelSwitch of the restarter).
SwitchKeepsModels == Gateway!SwitchKeepsModels

\* Notices go to agents that are there (deliver, ReleasePending).
NoticeToLiving == Background!NoticeToLiving

\* The limit on commands in the background, with its race (StartFor).
CapHolds == Background!CapHolds
=============================================================================
