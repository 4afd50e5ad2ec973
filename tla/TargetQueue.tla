----------------------------- MODULE TargetQueue -----------------------------
(***************************************************************************)
(* The queue of messages addressed to one agent, "#agent task"              *)
(* (pkg/agentloop/target_queue.go): Submit appends a job to the lane of its *)
(* agent and starts a goroutine, the pump, for a lane that has none; the    *)
(* pump takes, runs and delivers job after job and ends when it finds its   *)
(* lane empty.  The mutex q.mu makes Submit, takeNext and noteFinished      *)
(* atomic; running and delivering happen outside it.                        *)
(***************************************************************************)
EXTENDS Naturals, Sequences, FiniteSets

CONSTANTS
  Agents, \* names of agents, the keys of lanes
  Jobs,   \* jobs a user may submit, each once
  None    \* no job in the hands of a pump, no lane served yet

ASSUME NoneAssumption == None \notin Jobs \cup Agents

VARIABLES
  \* targetLane
  jobs,      \* jobs waiting in each lane
  busy,      \* has the lane a pump?
  active,    \* jobs of the lane that were taken and not noted as finished
  \* the pumps, each named after the job whose Submit started it
  pump,      \* where the pump stands
  lane,      \* the lane it serves
  hand,      \* the job it has taken
  \* outside the queue
  outside,   \* agents busyCheck reports as running outside the queue
  \* what the queue has told its callers
  submitted, \* jobs of each lane, in the order of Submit
  delivered, \* jobs of each lane, in the order of the calls of deliver
  position   \* what Submit returned

queueVars == <<jobs, busy, active>>
pumpVars  == <<pump, lane, hand>>
toldVars  == <<submitted, delivered, position>>
vars == <<queueVars, pumpVars, outside, toldVars>>

Idle   == {"none", "stopped"}
Taken  == {"wait", "run", "deliver", "note"}   \* the pump has a job
PumpPC == Idle \cup {"take"} \cup Taken

Submitted(j) == \E a \in Agents : \E i \in 1..Len(submitted[a]) : submitted[a][i] = j

Init ==
  /\ jobs = [a \in Agents |-> <<>>]
  /\ busy = [a \in Agents |-> FALSE]
  /\ active = [a \in Agents |-> 0]
  /\ pump = [p \in Jobs |-> "none"]
  /\ lane = [p \in Jobs |-> None]
  /\ hand = [p \in Jobs |-> None]
  /\ outside = {}
  /\ submitted = [a \in Agents |-> <<>>]
  /\ delivered = [a \in Agents |-> <<>>]
  /\ position = [j \in Jobs |-> 0]

-----------------------------------------------------------------------------
\* Mutant: the job a pump has in hand is not counted.
SubmitByLength(j, a) ==
  /\ ~Submitted(j)
  /\ position' = [position EXCEPT ![j] = Len(jobs[a])]
  /\ jobs' = [jobs EXCEPT ![a] = Append(@, j)]
  /\ submitted' = [submitted EXCEPT ![a] = Append(@, j)]
  /\ busy' = [busy EXCEPT ![a] = TRUE]
  /\ IF busy[a]
       THEN UNCHANGED <<pump, lane>>
       ELSE /\ pump' = [pump EXCEPT ![j] = "take"]
            /\ lane' = [lane EXCEPT ![j] = a]
  /\ UNCHANGED <<active, hand, outside, delivered>>

Submit(j, a) ==
  /\ ~Submitted(j)
  /\ position' = [position EXCEPT
       ![j] = Len(jobs[a]) + active[a] + IF a \in outside THEN 1 ELSE 0]
  /\ jobs' = [jobs EXCEPT ![a] = Append(@, j)]
  /\ submitted' = [submitted EXCEPT ![a] = Append(@, j)]
  /\ busy' = [busy EXCEPT ![a] = TRUE]
  /\ IF busy[a]
       THEN UNCHANGED <<pump, lane>>
       ELSE /\ pump' = [pump EXCEPT ![j] = "take"]
            /\ lane' = [lane EXCEPT ![j] = a]
  /\ UNCHANGED <<active, hand, outside, delivered>>

-----------------------------------------------------------------------------
(* pumpLane                                                                 *)

\* Mutant: the newest job is taken.
TakeLast(p) ==
  LET a == lane[p] IN
  /\ pump[p] = "take"
  /\ jobs[a] # <<>>
  /\ active' = [active EXCEPT ![a] = @ + 1]
  /\ hand' = [hand EXCEPT ![p] = jobs[a][Len(jobs[a])]]
  /\ jobs' = [jobs EXCEPT ![a] = SubSeq(@, 1, Len(@) - 1)]
  /\ pump' = [pump EXCEPT ![p] = "wait"]
  /\ UNCHANGED <<busy, lane, outside, toldVars>>

TakeNext(p) ==
  LET a == lane[p] IN
  /\ pump[p] = "take"
  /\ jobs[a] # <<>>
  /\ active' = [active EXCEPT ![a] = @ + 1]
  /\ hand' = [hand EXCEPT ![p] = Head(jobs[a])]
  /\ jobs' = [jobs EXCEPT ![a] = Tail(@)]
  /\ pump' = [pump EXCEPT ![p] = "wait"]
  /\ UNCHANGED <<busy, lane, outside, toldVars>>

\* Mutant: the pump ends without giving its lane up.
LeaveLaneBusy(p) ==
  /\ pump[p] = "take"
  /\ jobs[lane[p]] = <<>>
  /\ pump' = [pump EXCEPT ![p] = "stopped"]
  /\ UNCHANGED <<jobs, busy, active, lane, hand, outside, toldVars>>

\* takeNext finds nothing: the lane is given up under the same lock.
GiveUpLane(p) ==
  /\ pump[p] = "take"
  /\ jobs[lane[p]] = <<>>
  /\ busy' = [busy EXCEPT ![lane[p]] = FALSE]
  /\ pump' = [pump EXCEPT ![p] = "stopped"]
  /\ UNCHANGED <<jobs, active, lane, hand, outside, toldVars>>

\* waitForIdleOutside waits for busyCheck, but no longer than maxBusyWait: it may
\* go on while the agent is still busy outside.
WaitForIdleOutside(p) ==
  /\ pump[p] = "wait"
  /\ pump' = [pump EXCEPT ![p] = "run"]
  /\ UNCHANGED <<queueVars, lane, hand, outside, toldVars>>

\* runAgentSafely: an answer, an error or a recovered panic, all delivered alike.
RunAgent(p) ==
  /\ pump[p] = "run"
  /\ pump' = [pump EXCEPT ![p] = "deliver"]
  /\ UNCHANGED <<queueVars, lane, hand, outside, toldVars>>

Deliver(p) ==
  /\ pump[p] = "deliver"
  /\ delivered' = [delivered EXCEPT ![lane[p]] = Append(@, hand[p])]
  /\ pump' = [pump EXCEPT ![p] = "note"]
  /\ UNCHANGED <<queueVars, lane, hand, outside, submitted, position>>

NoteFinished(p) ==
  /\ pump[p] = "note"
  /\ active' = [active EXCEPT ![lane[p]] = @ - 1]
  /\ hand' = [hand EXCEPT ![p] = None]
  /\ pump' = [pump EXCEPT ![p] = "take"]
  /\ UNCHANGED <<jobs, busy, lane, outside, toldVars>>

\* External: an instance of the agent starts or ends outside the queue.
ToggleOutside(a) ==
  /\ outside' = IF a \in outside THEN outside \ {a} ELSE outside \cup {a}
  /\ UNCHANGED <<queueVars, pumpVars, toldVars>>

PumpStep(p) ==
  \/ TakeNext(p) \/ GiveUpLane(p) \/ WaitForIdleOutside(p) \/ RunAgent(p)
  \/ Deliver(p) \/ NoteFinished(p)

Next ==
  \/ \E j \in Jobs, a \in Agents : Submit(j, a)
  \/ \E p \in Jobs : PumpStep(p)
  \/ \E a \in Agents : ToggleOutside(a)

Spec == Init /\ [][Next]_vars

\* A pump goroutine keeps running; the agent it runs answers in the end.
FairSpec == Spec /\ \A p \in Jobs : WF_vars(PumpStep(p))

-----------------------------------------------------------------------------
(* Properties.                                                              *)

Serving(p, a) == pump[p] \notin Idle /\ lane[p] = a

\* Every variable stays in its type; in particular active never drops below 0.
TypeOK ==
  /\ jobs \in [Agents -> Seq(Jobs)]
  /\ busy \in [Agents -> BOOLEAN]
  /\ active \in [Agents -> Nat]
  /\ pump \in [Jobs -> PumpPC]
  /\ lane \in [Jobs -> Agents \cup {None}]
  /\ hand \in [Jobs -> Jobs \cup {None}]
  /\ outside \subseteq Agents
  /\ submitted \in [Agents -> Seq(Jobs)]
  /\ delivered \in [Agents -> Seq(Jobs)]
  /\ position \in [Jobs -> Nat]

\* A lane is marked busy exactly while one pump serves it: no job waits in a lane
\* without a pump, and two jobs of an agent never run at once.
OnePumpPerLane ==
  \A a \in Agents :
    /\ busy[a] <=> \E p \in Jobs : Serving(p, a)
    /\ \A p, q \in Jobs : Serving(p, a) /\ Serving(q, a) => p = q
    /\ jobs[a] # <<>> => busy[a]

\* The sum behind the position told to the user: a job told to be first has no
\* undelivered job of its lane before it, and no job is told to be further ahead
\* than it is.
PositionIsHonest ==
  [][\A j \in Jobs, a \in Agents :
       Submit(j, a) => Len(submitted[a]) - Len(delivered[a]) <= position'[j]]_vars

\* The lane of every agent behaves as SerialLanes promises.
RunningIn(a) == \E p \in Jobs : lane[p] = a /\ pump[p] \in {"wait", "run", "deliver"}
Lanes == INSTANCE SerialLanes WITH
  accepted <- submitted, answered <- delivered, running <- [a \in Agents |-> RunningIn(a)]

LanesSafety == Lanes!LanesSpec
LanesFair == Lanes!FairLanes
=============================================================================
