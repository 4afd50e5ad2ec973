---------------------------- MODULE Outside_proofs ----------------------------
(***************************************************************************)
(* Proofs about the restarter, the transitions between engines and the      *)
(* commands in the background: each for its component alone, for any        *)
(* constants, then for the behaviours that the runs check.                  *)
(***************************************************************************)
EXTENDS Outside, FiniteSetTheorems, TLAPS

-----------------------------------------------------------------------------
(* The restarter.                                                           *)

\* A goroutine that comes from a build has the new binary in hand: it is the
\* one that will start it.
SomeoneStarts == \E w \in Gateway!Workers : workerAt[w] = "start"

\* There is one agent at most; it is of the last build, or another start is due.
GatewayInv ==
  /\ workerAt \in [Gateway!Workers -> {"idle", "stop", "pull", "build", "start"}]
  /\ Gateway!OneAgent
  /\ cmd \in alive => cmd \in fresh \/ SomeoneStarts

LEMMA WorkersAre == Gateway!Workers = {"main", "monitor", "listener"}
BY DEF Gateway!Workers

\* A goroutine that was not about to start an agent may go anywhere: whoever was
\* still is.
LEMMA StillStarts ==
  ASSUME workerAt \in [Gateway!Workers -> {"idle", "stop", "pull", "build", "start"}],
         NEW w \in Gateway!Workers, NEW to, workerAt[w] # "start", Gateway!Move(w, to),
         SomeoneStarts
  PROVE  SomeoneStarts'
<1>1. PICK v \in Gateway!Workers : workerAt[v] = "start"
  BY DEF SomeoneStarts
<1>2. v # w /\ workerAt'[v] = "start"
  BY <1>1 DEF Gateway!Move
<1> QED BY <1>2 DEF SomeoneStarts

LEMMA GatewayInit == Gateway!Init => GatewayInv
BY DEF Gateway!Init, GatewayInv, Gateway!OneAgent, Gateway!Workers, SomeoneStarts

\* start leaves one agent, made of the binary that is there, or none.
LEMMA StartsOne ==
  ASSUME Gateway!OneAgent, Gateway!StartProcess
  PROVE  Gateway!OneAgent' /\ (cmd' \in alive' => cmd' \in fresh')
BY DEF Gateway!OneAgent, Gateway!StartProcess

LEMMA GatewayNext == GatewayInv /\ [Gateway!Next]_Gateway!vars => GatewayInv'
<1> SUFFICES ASSUME GatewayInv, [Gateway!Next]_Gateway!vars PROVE GatewayInv'
  OBVIOUS
<1> USE DEF GatewayInv
<1>1. ASSUME NEW c \in Gateway!Commands, Gateway!Send(c) PROVE GatewayInv'
  BY <1>1 DEF Gateway!Send, Gateway!process, Gateway!OneAgent, SomeoneStarts
<1>2. CASE Gateway!AgentReads
  BY <1>2 DEF Gateway!AgentReads, Gateway!process, Gateway!OneAgent, SomeoneStarts
<1>3. CASE Gateway!Noticed
  BY <1>3 DEF Gateway!Noticed, Gateway!OneAgent, SomeoneStarts
<1>4. ASSUME Gateway!Up, workerAt["monitor"] = "idle", NEW what, Gateway!Take("monitor", what),
             UNCHANGED Gateway!process
      PROVE GatewayInv'
  <2>1. Gateway!Move("monitor", "stop") /\ "monitor" \in Gateway!Workers
    BY <1>4, WorkersAre DEF Gateway!Take
  <2>2. workerAt' \in [Gateway!Workers -> {"idle", "stop", "pull", "build", "start"}]
    BY <2>1 DEF Gateway!Move
  <2>3. SomeoneStarts => SomeoneStarts'
    BY <2>1, <1>4, StillStarts
  <2> QED BY <1>4, <2>2, <2>3 DEF Gateway!process, Gateway!OneAgent
<1>5. CASE Gateway!Tick
  BY <1>4, <1>5 DEF Gateway!Tick
<1>6. CASE Gateway!Listen
  <2>1. CASE UNCHANGED <<workerAt, job>>
    BY <1>6, <2>1 DEF Gateway!Listen, Gateway!process, Gateway!OneAgent, SomeoneStarts
  <2>2. ASSUME NEW what, Gateway!Take("listener", what) PROVE GatewayInv'
    <3>1. Gateway!Move("listener", "stop") /\ "listener" \in Gateway!Workers
          /\ workerAt["listener"] = "idle"
      BY <1>6, <2>2, WorkersAre DEF Gateway!Take, Gateway!Listen
    <3>2. workerAt' \in [Gateway!Workers -> {"idle", "stop", "pull", "build", "start"}]
      BY <3>1 DEF Gateway!Move
    <3>3. SomeoneStarts => SomeoneStarts'
      BY <3>1, StillStarts
    <3> QED BY <1>6, <3>2, <3>3 DEF Gateway!Listen, Gateway!process, Gateway!OneAgent
  <2> QED BY <1>6, <2>1, <2>2 DEF Gateway!Listen
<1>7. CASE Gateway!PollAnew
  BY <1>7 DEF Gateway!PollAnew, Gateway!process, Gateway!OneAgent, SomeoneStarts
<1>8. CASE Gateway!Shutdown
  BY <1>8 DEF Gateway!Shutdown, Gateway!Kill, Gateway!OneAgent, SomeoneStarts
<1>9. ASSUME NEW p \in Pids, Gateway!AgentExits(p) PROVE GatewayInv'
  BY <1>9 DEF Gateway!AgentExits, Gateway!OneAgent, SomeoneStarts
<1>10. ASSUME NEW w \in Gateway!Workers, Gateway!Stop(w) PROVE GatewayInv'
  <2>1. alive' = {}
    BY <1>10 DEF Gateway!Stop, Gateway!Kill, Gateway!OneAgent
  <2>2. workerAt' \in [Gateway!Workers -> {"idle", "stop", "pull", "build", "start"}]
    BY <1>10 DEF Gateway!Stop, Gateway!Move
  <2> QED BY <2>1, <2>2 DEF Gateway!OneAgent
<1>11. ASSUME NEW w \in Gateway!Workers, Gateway!Pull(w) PROVE GatewayInv'
  <2>1. workerAt' \in [Gateway!Workers -> {"idle", "stop", "pull", "build", "start"}]
    BY <1>11 DEF Gateway!Pull, Gateway!Move
  <2>2. SomeoneStarts => SomeoneStarts'
    BY <1>11, StillStarts DEF Gateway!Pull
  <2> QED BY <1>11, <2>1, <2>2 DEF Gateway!Pull, Gateway!process, Gateway!OneAgent
<1>12. ASSUME NEW w \in Gateway!Workers, Gateway!Build(w) PROVE GatewayInv'
  <2>1. /\ workerAt' \in [Gateway!Workers -> {"idle", "stop", "pull", "build", "start"}]
        /\ workerAt'[w] = "start"
    BY <1>12 DEF Gateway!Build, Gateway!Move
  <2> QED BY <1>12, <2>1 DEF Gateway!Build, Gateway!OneAgent, SomeoneStarts
<1>13. ASSUME NEW w \in Gateway!Workers, Gateway!Start(w) PROVE GatewayInv'
  <2>1. workerAt' \in [Gateway!Workers -> {"idle", "stop", "pull", "build", "start"}]
    BY <1>13 DEF Gateway!Start, Gateway!Move
  <2>2. Gateway!OneAgent' /\ (cmd' \in alive' => cmd' \in fresh')
    BY <1>13, StartsOne DEF Gateway!Start
  <2> QED BY <2>1, <2>2
<1>14. CASE UNCHANGED Gateway!vars
  BY <1>14 DEF Gateway!vars, Gateway!OneAgent, SomeoneStarts
<1> QED BY <1>1, <1>2, <1>3, <1>5, <1>6, <1>7, <1>8, <1>9, <1>10, <1>11, <1>12, <1>13, <1>14
        DEF Gateway!Next, Gateway!Work

\* There is never more than one agent, it is the one that the restarter can stop, and
\* when nobody is at work it runs what was built last (agentProc, updateAgent).
LEMMA GatewayKeepsOne == Gateway!Spec => []Gateway!OneBuiltAgent
<1>1. GatewayInv => Gateway!OneBuiltAgent
  BY DEF GatewayInv, Gateway!OneBuiltAgent, Gateway!RunsWhatWasBuilt, SomeoneStarts
<1> QED BY <1>1, GatewayInit, GatewayNext, PTL DEF Gateway!Spec

-----------------------------------------------------------------------------
(* The transitions between engines, also while the watchdog starts engines. *)

AtRange == {"idle", "gate", "join", "plan", "stop", "launch", "await", "refresh"}

TypeInv == /\ at \in [Turns -> AtRange]
           /\ DOMAIN target = Turns
           /\ DOMAIN waits = Turns
           /\ outcome \in [Turns -> {"ok", "failed"}]

\* The gate knows one run; those that it does not know any more are past.
GateInv == /\ flight # None => flight \in Turns /\ Runs(flight)
           /\ \A t \in Turns : Runs(t) => t = flight \/ t \in past

\* Who joined waits for a run of its own target, which is not over.
JoinInv == \A t \in Turns : at[t] = "join" => /\ waits[t] \in Turns
                                               /\ Runs(waits[t])
                                               /\ target[waits[t]] = target[t]

\* What a turn goes on with is how a run for its target ended.
EndedInv == \A t \in Turns : at[t] = "refresh" => <<target[t], outcome[t]>> \in ended

\* A turn that will renew for the model in use, if its run succeeds.
Renews(t) == target[t] = current /\ at[t] \in AtRange \ {"idle", "join"}

ContextInv == \/ context = current
              \/ <<current, "failed">> \in ended
              \/ \E t \in Turns : Renews(t)

IInv == TypeInv /\ GateInv /\ JoinInv /\ EndedInv /\ ContextInv /\ OnlyReadyIsUsed

LEMMA InitIInv == Init => IInv
BY DEF Init, IInv, TypeInv, GateInv, JoinInv, EndedInv, ContextInv, OnlyReadyIsUsed, Runs, AtRange

-----------------------------------------------------------------------------
(* The end of a run.                                                        *)

\* Finish leaves everyone where they were but the run and those who joined it.
LEMMA FinishInv ==
  ASSUME IInv, NEW t \in Turns, Runs(t), NEW result \in {"ok", "failed"}, Finish(t, result),
         UNCHANGED <<current, context, target, waits>>
  PROVE  IInv'
<1> USE DEF IInv
<1>1. \A u \in Turns : at'[u] = IF u = t \/ u \in Woken(t) THEN "refresh" ELSE at[u]
  BY DEF Finish
<1>2. \A u \in Turns : outcome'[u] = IF u = t \/ u \in Woken(t) THEN result ELSE outcome[u]
  BY DEF Finish, Shared
<1>3. TypeInv'
  BY DEF TypeInv, Finish, Shared, AtRange
<1>4. \A u \in Turns : u # t /\ Runs(u) => Runs(u)' /\ u \notin Woken(t)
  BY <1>1 DEF Runs, Woken
<1>5. \A u \in Turns : Runs(u)' => Runs(u) /\ u # t
  BY <1>1 DEF Runs
<1>6. GateInv'
  BY <1>4, <1>5 DEF GateInv, Finish, Cleared
<1>7. JoinInv'
  BY <1>1, <1>4 DEF JoinInv, Woken
<1>8. EndedInv'
  <2> SUFFICES ASSUME NEW u \in Turns, at'[u] = "refresh"
               PROVE  <<target[u], outcome'[u]>> \in ended'
    BY DEF EndedInv
  <2>1. CASE u = t \/ u \in Woken(t)
    <3>1. target[u] = target[t]
      BY <2>1 DEF Woken, JoinInv
    <3> QED BY <2>1, <3>1, <1>2 DEF Finish
  <2>2. CASE ~(u = t \/ u \in Woken(t))
    BY <2>2, <1>1, <1>2 DEF EndedInv, Finish
  <2> QED BY <2>1, <2>2
<1>9. \A u \in Turns : Renews(u) => Renews(u)'
  BY <1>1 DEF Renews, AtRange
<1>10. ContextInv' /\ OnlyReadyIsUsed'
  BY <1>9 DEF ContextInv, OnlyReadyIsUsed, Finish
<1> QED BY <1>3, <1>6, <1>7, <1>8, <1>10

-----------------------------------------------------------------------------
(* The steps.                                                               *)

\* A turn that takes its next step inside a run changes nothing that is promised.
LEMMA GoesOnInv ==
  ASSUME IInv, NEW t \in Turns, Runs(t), NEW to \in {"plan", "stop", "launch", "await"},
         at' = [at EXCEPT ![t] = to],
         UNCHANGED <<current, context, target, waits, flight, outcome, past, ended>>
  PROVE  IInv'
<1> USE DEF IInv
<1>1. \A u \in Turns : at'[u] = IF u = t THEN to ELSE at[u]
  BY DEF TypeInv
<1>2. \A u \in Turns : Runs(u)' <=> Runs(u)
  BY <1>1 DEF Runs
<1>3. TypeInv'
  BY DEF TypeInv, AtRange
<1>4. GateInv' /\ JoinInv' /\ EndedInv'
  BY <1>1, <1>2 DEF GateInv, JoinInv, EndedInv
<1>5. \A u \in Turns : Renews(u) => Renews(u)'
  BY <1>1 DEF Renews, AtRange
<1>6. ContextInv' /\ OnlyReadyIsUsed'
  BY <1>5 DEF ContextInv, OnlyReadyIsUsed
<1> QED BY <1>3, <1>4, <1>6

LEMMA SyncInv == ASSUME IInv, NEW t \in Turns, Sync(t) PROVE IInv'
<1> USE DEF IInv, Sync
<1>1. \A u \in Turns : /\ at'[u] = IF u = t THEN "gate" ELSE at[u]
                       /\ target'[u] = IF u = t THEN holder ELSE target[u]
  BY DEF TypeInv
<1>2. \A u \in Turns : Runs(u)' <=> Runs(u)
  BY <1>1 DEF Runs
<1>3. TypeInv'
  BY DEF TypeInv, AtRange
<1>4. GateInv' /\ JoinInv' /\ EndedInv'
  BY <1>1, <1>2 DEF GateInv, JoinInv, EndedInv, Runs
<1>5. Renews(t)'
  BY <1>1 DEF Renews, AtRange
<1> QED BY <1>3, <1>4, <1>5 DEF ContextInv, OnlyReadyIsUsed

LEMMA LeaveInv == ASSUME IInv, NEW t \in Turns, Leave(t) PROVE IInv'
<1> USE DEF IInv, Leave
<1>1. \A u \in Turns : /\ at'[u] = IF u = t THEN "idle" ELSE at[u]
                       /\ u # t => waits'[u] = waits[u]
  BY DEF TypeInv
<1>2. \A u \in Turns : Runs(u)' <=> Runs(u)
  BY <1>1 DEF Runs
<1>3. TypeInv'
  BY DEF TypeInv, AtRange
<1>4. GateInv' /\ JoinInv' /\ EndedInv'
  BY <1>1, <1>2 DEF GateInv, JoinInv, EndedInv
<1>5. \A u \in Turns : Renews(u) => Renews(u)'
  BY <1>1 DEF Renews
<1> QED BY <1>3, <1>4, <1>5 DEF ContextInv, OnlyReadyIsUsed

\* The gate either lets a turn wait for a run of the same target, or makes it the run
\* that others join and calls those for other models past.
LEMMA GateStepInv == ASSUME IInv, NEW t \in Turns, Gate(t) PROVE IInv'
<1> USE DEF IInv
<1> DEFINE join == flight # None /\ target[flight] = target[t]
<1>1. \A u \in Turns : /\ at'[u] = IF u = t THEN (IF join THEN "join" ELSE "plan") ELSE at[u]
                       /\ waits'[u] = IF u = t THEN (IF join THEN flight ELSE None) ELSE waits[u]
  BY DEF TypeInv, Gate
<1>2. TypeInv'
  BY DEF TypeInv, Gate, AtRange
<1>3. \A u \in Turns : Runs(u)' <=> Runs(u) \/ (u = t /\ ~join)
  BY <1>1 DEF Runs, Gate
<1>4. GateInv'
  <2>1. CASE join
    BY <2>1, <1>3 DEF GateInv, Gate
  <2>2. CASE ~join
    <3>1. flight' = t /\ past' = past \cup {u \in Turns : Runs(u) /\ target[u] # target[t]}
      BY <2>2 DEF Gate
    <3>2. ASSUME NEW u \in Turns, Runs(u)' PROVE u = flight' \/ u \in past'
      <4>1. CASE u = t
        BY <4>1, <3>1
      <4>2. CASE u # t
        <5>1. Runs(u)
          BY <4>2, <3>2, <1>3
        <5>2. CASE u = flight
          BY <5>1, <5>2, <3>1, <2>2, NamesAssumption
        <5>3. CASE u \in past
          BY <5>3, <3>1
        <5> QED BY <5>1, <5>2, <5>3 DEF GateInv
      <4> QED BY <4>1, <4>2
    <3>3. flight' \in Turns /\ Runs(t)'
      BY <3>1, <1>3, <2>2
    <3> QED BY <3>1, <3>2, <3>3 DEF GateInv, Runs
  <2> QED BY <2>1, <2>2
<1>5. JoinInv'
  <2> SUFFICES ASSUME NEW u \in Turns, at'[u] = "join"
               PROVE  \E v \in Turns : waits'[u] = v /\ Runs(v)' /\ target[v] = target[u]
    BY DEF JoinInv, Gate, Runs
  <2>1. CASE u = t
    <3>1. join /\ waits'[t] = flight
      BY <2>1, <1>1
    <3>2. PICK v \in Turns : v = flight /\ Runs(v)
      BY <3>1 DEF GateInv
    <3> QED BY <2>1, <3>1, <3>2, <1>3
  <2>2. CASE u # t
    <3>1. PICK v \in Turns : v = waits[u] /\ Runs(v) /\ target[v] = target[u]
      BY <2>2, <1>1 DEF JoinInv
    <3> QED BY <2>2, <3>1, <1>1, <1>3
  <2> QED BY <2>1, <2>2
<1>6. EndedInv'
  BY <1>1 DEF EndedInv, Gate
<1>7. ContextInv'
  <2>1. ASSUME NEW u \in Turns, Renews(u) PROVE \E v \in Turns : Renews(v)'
    <3>1. CASE u # t \/ ~join
      <4>1. Renews(u)'
        BY <2>1, <3>1, <1>1 DEF Renews, AtRange, Gate
      <4> QED BY <4>1
    <3>2. CASE u = t /\ join
      <4>1. PICK v \in Turns : v = flight /\ Runs(v) /\ target[v] = target[t]
        BY <3>2 DEF GateInv
      <4>2. v # t
        BY <4>1 DEF Gate, Runs
      <4>3. Renews(v)'
        BY <2>1, <3>2, <4>1, <4>2, <1>1 DEF Renews, Runs, AtRange, Gate
      <4> QED BY <4>3
    <3> QED BY <3>1, <3>2
  <2> QED BY <2>1 DEF ContextInv, Gate
<1>8. OnlyReadyIsUsed'
  BY DEF OnlyReadyIsUsed, Gate
<1> QED BY <1>2, <1>4, <1>5, <1>6, <1>7, <1>8

LEMMA RefreshInv == ASSUME IInv, NEW t \in Turns, Refresh(t) PROVE IInv'
<1> USE DEF IInv
<1>1. \A u \in Turns : /\ at'[u] = IF u = t THEN "idle" ELSE at[u]
                       /\ u # t => /\ target'[u] = target[u] /\ waits'[u] = waits[u]
                                   /\ outcome'[u] = outcome[u]
  BY DEF TypeInv, Refresh
<1>2. TypeInv'
  BY DEF TypeInv, Refresh, AtRange
<1>3. \A u \in Turns : Runs(u)' <=> Runs(u)
  BY <1>1 DEF Runs, Refresh
<1>4. \A u \in Turns : Runs(u) => u # t
  BY DEF Runs, Refresh
<1>5. GateInv' /\ JoinInv' /\ EndedInv'
  BY <1>1, <1>3, <1>4 DEF GateInv, JoinInv, EndedInv, Refresh
<1>6. <<target[t], outcome[t]>> \in ended /\ outcome[t] \in {"ok", "failed"}
  BY DEF EndedInv, Refresh, TypeInv
<1>7. OnlyReadyIsUsed'
  BY <1>6 DEF OnlyReadyIsUsed, Refresh, Renewed
<1>8. ContextInv'
  <2>1. ASSUME NEW u \in Turns, Renews(u), u # t PROVE Renews(u)'
    BY <2>1, <1>1 DEF Renews, Refresh
  <2>2. CASE Renews(t)
    BY <2>2, <1>6 DEF Renews, ContextInv, Refresh, Renewed
  <2>3. CASE ~Renews(t) /\ context' = context
    BY <2>1, <2>3 DEF ContextInv, Refresh
  <2>4. CASE ~Renews(t) /\ context' # context
    BY <2>4 DEF Renews, Refresh, Renewed, AtRange
  <2> QED BY <2>2, <2>3, <2>4
<1> QED BY <1>2, <1>5, <1>7, <1>8

LEMMA NextIInv == IInv /\ [Next]_vars => IInv'
<1> SUFFICES ASSUME IInv, [Next]_vars PROVE IInv'
  OBVIOUS
<1> DEFINE kept == <<current, context, flight, at, target, waits, outcome, past, ended>>
<1>0. UNCHANGED kept => IInv'
  BY DEF IInv, TypeInv, GateInv, JoinInv, EndedInv, ContextInv, OnlyReadyIsUsed, Runs, Renews
<1>1. ASSUME NEW a \in Aliases, SwitchModel(a) \/ EngineDies(a) PROVE IInv'
  BY <1>1, <1>0 DEF SwitchModel, EngineDies, turn
<1>2. ASSUME NEW t \in Turns, Plan(t) PROVE IInv'
  <2>1. Runs(t) /\ UNCHANGED <<current, context, target, waits>>
    BY <1>2 DEF Plan, Runs
  <2>2. CASE Finish(t, "ok")
    BY <2>1, <2>2, FinishInv
  <2>3. CASE at' = [at EXCEPT ![t] = "stop"] /\ UNCHANGED <<flight, outcome, past, ended>>
    BY <2>1, <2>3, GoesOnInv
  <2> QED BY <1>2, <2>2, <2>3 DEF Plan
<1>3. ASSUME NEW t \in Turns, StopOld(t) PROVE IInv'
  BY <1>3, GoesOnInv DEF StopOld, Runs
<1>4. ASSUME NEW t \in Turns, Launch(t) PROVE IInv'
  <2>1. Runs(t) /\ UNCHANGED <<current, context, target, waits>>
    BY <1>4 DEF Launch, Runs
  <2>2. CASE Finish(t, "failed")
    BY <2>1, <2>2, FinishInv
  <2>3. CASE at' = [at EXCEPT ![t] = "await"] /\ UNCHANGED <<flight, outcome, past, ended>>
    BY <2>1, <2>3, GoesOnInv
  <2> QED BY <1>4, <2>2, <2>3 DEF Launch
<1>5. ASSUME NEW t \in Turns, Await(t) PROVE IInv'
  <2>1. Runs(t) /\ UNCHANGED <<current, context, target, waits>>
    BY <1>5 DEF Await, Runs
  <2> QED BY <1>5, <2>1, FinishInv DEF Await
<1>6. CASE Watch
  BY <1>6, <1>0 DEF Watch, Tick, DogLaunch, DogAwait, turn
<1>7. CASE UNCHANGED vars
  BY <1>7, <1>0 DEF vars, turn
<1> QED BY <1>1, <1>2, <1>3, <1>4, <1>5, <1>6, <1>7, SyncInv, LeaveInv, GateStepInv, RefreshInv
        DEF Next, Step

-----------------------------------------------------------------------------
\* No two turns bring up the engine of one model at once, unless one for another model
\* began in between (AwaitTransition, finishFlight).
LEMMA RunsAreApart == Spec => []OneRunEach
<1>1. IInv => OneRunEach
  BY DEF IInv, GateInv, OneRunEach
<1> QED BY <1>1, InitIInv, NextIInv, PTL DEF Spec

\* What depends on the model belongs to the one in use, whose engine was ready, however
\* the turns that switched overlapped, but for a transition that failed
\* (syncCurrentModel, refreshModelResources).
LEMMA ContextFollows == Spec => []ReadyForCurrent
<1>1. IInv => ReadyForCurrent
  BY DEF IInv, ContextInv, ReadyForCurrent, ContextIsOfCurrent, Renews
<1> QED BY <1>1, InitIInv, NextIInv, PTL DEF Spec

-----------------------------------------------------------------------------
(* The commands in the background.                                          *)

States == {"none", "passed", "running", "ended", "found", "told", "refused"}
Stages == {"new", "working", "released", "over"}

TaskTypes ==
  /\ state \in [Tasks -> States]
  /\ DOMAIN by = Tasks /\ DOMAIN sink = Tasks
  /\ sinks \subseteq Background!Owners
  /\ stage \in [Agents -> Stages]

\* An agent with a delivery function is not over.
SinksLive == \A a \in Agents : a \in sinks => stage[a] # "over"

\* Agents that have begun, and whoever may start a command.
There == {a \in Agents : stage[a] # "new"}
Starters == There \cup {Main}

\* A task between the two critical sections belongs to a starter that has no other.
OnePassEach ==
  \A k \in Background!In("passed") :
    by[k] \in Starters /\ \A l \in Background!In("passed") : by[k] = by[l] => k = l

\* The commands that run and those that have passed the check.
Room ==
  Cardinality(Background!In("running")) + Cardinality(Background!In("passed")) <= Limit + Cardinality(There)

LEMMA TasksInit == Background!Init => TaskTypes /\ SinksLive /\ OnePassEach
BY DEF Background!Init, TaskTypes, SinksLive, OnePassEach, Background!In, Background!Owners,
       States, Stages

LEMMA TaskTypesNext == TaskTypes /\ [Background!Next]_Background!vars => TaskTypes'
<1> SUFFICES ASSUME TaskTypes, [Background!Next]_Background!vars PROVE TaskTypes'
  OBVIOUS
<1> USE DEF TaskTypes
<1>1. ASSUME NEW a \in Agents,
             Background!Spawn(a) \/ Background!Release(a) \/ Background!Unregister(a)
      PROVE  TaskTypes'
  BY <1>1 DEF Background!Spawn, Background!Release, Background!Unregister, Stages,
              Background!Owners
<1>2. ASSUME NEW o \in Background!Owners, Background!Read(o) PROVE TaskTypes'
  BY <1>2 DEF Background!Read
<1>3. ASSUME NEW o \in Background!Owners, NEW k \in Tasks, Background!Pass(o, k) PROVE TaskTypes'
  BY <1>3 DEF Background!Pass, States
<1>4. ASSUME NEW k \in Tasks,
             Background!Insert(k) \/ Background!End(k) \/ Background!Find(k) \/ Background!Tell(k)
      PROVE  TaskTypes'
  BY <1>4 DEF Background!Insert, Background!End, Background!Find, Background!Tell, States
<1>5. CASE UNCHANGED Background!vars
  BY <1>5 DEF Background!vars
<1> QED BY <1>1, <1>2, <1>3, <1>4, <1>5 DEF Background!Next

LEMMA SinksNext == TaskTypes /\ SinksLive /\ [Background!Next]_Background!vars => SinksLive'
<1> SUFFICES ASSUME TaskTypes, SinksLive, [Background!Next]_Background!vars PROVE SinksLive'
  OBVIOUS
<1> USE DEF TaskTypes, SinksLive
<1>1. ASSUME NEW a \in Agents,
             Background!Spawn(a) \/ Background!Release(a) \/ Background!Unregister(a)
      PROVE  SinksLive'
  BY <1>1 DEF Background!Spawn, Background!Release, Background!Unregister
<1>2. CASE UNCHANGED <<sinks, stage>>
  BY <1>2
<1> QED BY <1>1, <1>2 DEF Background!Next, Background!Read, Background!Pass,
                          Background!Insert, Background!End, Background!Find,
                          Background!Tell, Background!vars

-----------------------------------------------------------------------------
\* The notice of a command goes to an agent that is not over when it is looked up
\* (deliver, UnregisterDelivery, ReleasePending).
LEMMA NoticesReach == Background!Spec => Background!NoticeToLiving
<1> DEFINE told == \A k \in Tasks : state[k] = "ended" /\ state'[k] = "found" /\ sink'[k] # Main
                                       => stage[sink'[k]] # "over"
<1>1. TaskTypes /\ SinksLive /\ [Background!Next]_Background!vars => [told]_Background!vars
  <2> SUFFICES ASSUME TaskTypes, SinksLive, Background!Next, NEW k \in Tasks,
                      state[k] = "ended", state'[k] = "found", sink'[k] # Main
               PROVE  stage[sink'[k]] # "over"
    OBVIOUS
  <2>1. Background!Find(k)
    <3>1. ASSUME NEW l \in Tasks, Background!Insert(l) \/ Background!End(l) \/ Background!Tell(l)
          PROVE  FALSE
      BY <3>1 DEF Background!Insert, Background!End, Background!Tell, TaskTypes
    <3>2. ASSUME NEW o \in Background!Owners, NEW l \in Tasks, Background!Pass(o, l) PROVE FALSE
      BY <3>2 DEF Background!Pass, TaskTypes
    <3>3. ASSUME NEW l \in Tasks, Background!Find(l) PROVE l = k
      BY <3>3 DEF Background!Find, TaskTypes
    <3>4. CASE UNCHANGED state
      BY <3>4
    <3> QED BY <3>1, <3>2, <3>3, <3>4 DEF Background!Next, Background!Spawn,
                                          Background!Release, Background!Unregister,
                                          Background!Read
  <2>2. sink'[k] = Background!SinkOf(k)
    BY <2>1 DEF Background!Find, TaskTypes
  <2>3. Background!SinkOf(k) \in sinks \/ Background!SinkOf(k) = Main
    BY DEF Background!SinkOf
  <2> QED BY <2>2, <2>3 DEF TaskTypes, SinksLive, Background!Owners
<1>2. Background!Spec => [](TaskTypes /\ SinksLive)
  BY TasksInit, TaskTypesNext, SinksNext, PTL DEF Background!Spec
<1> QED BY <1>1, <1>2, PTL DEF Background!Spec, Background!NoticeToLiving

-----------------------------------------------------------------------------
(* The limit.                                                               *)

\* The instance counts with an operator of its own.
LEMMA SameCount == ASSUME NEW S PROVE Background!Cardinality(S) = Cardinality(S)
BY DEF Background!Cardinality, Cardinality

LEMMA TasksFinite ==
  ASSUME IsFiniteSet(Tasks), IsFiniteSet(Agents)
  PROVE  /\ \A s : IsFiniteSet(Background!In(s)) /\ Cardinality(Background!In(s)) \in Nat
         /\ IsFiniteSet(There) /\ Cardinality(There) \in Nat
         /\ IsFiniteSet(Starters) /\ Cardinality(Starters) \in Nat
         /\ Cardinality(Starters) <= Cardinality(There) + 1
<1>1. ASSUME NEW s PROVE IsFiniteSet(Background!In(s)) /\ Cardinality(Background!In(s)) \in Nat
  BY FS_Subset, FS_CardinalityType DEF Background!In
<1>2. IsFiniteSet(There) /\ Cardinality(There) \in Nat
  BY FS_Subset, FS_CardinalityType DEF There
<1>3. /\ IsFiniteSet(Starters)
      /\ Cardinality(Starters) = IF Main \in There THEN Cardinality(There) ELSE Cardinality(There) + 1
  BY <1>2, FS_AddElement DEF Starters
<1>4. Cardinality(Starters) \in Nat
  BY <1>3, FS_CardinalityType
<1> QED BY <1>1, <1>2, <1>3, <1>4

\* A set whose members each have a value of their own is no larger than their values.
LEMMA FewValues ==
  ASSUME NEW S, NEW T, IsFiniteSet(T), NEW g,
         \A k \in S : g[k] \in T /\ \A l \in S : g[k] = g[l] => k = l
  PROVE  Cardinality(S) <= Cardinality(T)
<1> DEFINE f == [k \in S |-> g[k]]
<1>1. f \in Injection(S, T)
  BY DEF Injection, IsInjective
<1> HIDE DEF f
<1> QED BY <1>1, FS_Injection

LEMMA PassNext == TaskTypes /\ OnePassEach /\ [Background!Next]_Background!vars => OnePassEach'
<1> SUFFICES ASSUME TaskTypes, OnePassEach, [Background!Next]_Background!vars PROVE OnePassEach'
  OBVIOUS
<1> USE DEF TaskTypes, OnePassEach, Background!In, Starters, There
<1>1. ASSUME NEW a \in Agents,
             Background!Spawn(a) \/ Background!Release(a) \/ Background!Unregister(a)
      PROVE  OnePassEach'
  BY <1>1 DEF Background!Spawn, Background!Release, Background!Unregister
<1>2. ASSUME NEW o \in Background!Owners, NEW k \in Tasks, Background!Pass(o, k)
      PROVE  OnePassEach'
  <2>1. o \in Starters
    BY <1>2 DEF Background!Pass, Background!Working, Background!Owners
  <2>2. \A l \in Tasks : /\ by'[l] = IF l = k THEN o ELSE by[l]
                         /\ l # k => state'[l] = state[l]
    BY <1>2 DEF Background!Pass
  <2>3. \A l \in Background!In("passed") : by[l] # o
    BY <1>2 DEF Background!Pass, Background!Busy
  <2>4. stage' = stage
    BY <1>2 DEF Background!Pass
  <2> QED BY <2>1, <2>2, <2>3, <2>4
<1>3. ASSUME NEW k \in Tasks,
             Background!Insert(k) \/ Background!End(k) \/ Background!Find(k) \/ Background!Tell(k)
      PROVE  OnePassEach'
  <2>1. \A l \in Tasks : state'[l] = "passed" => state[l] = "passed"
    BY <1>3 DEF Background!Insert, Background!End, Background!Find, Background!Tell
  <2>2. UNCHANGED <<by, stage>>
    BY <1>3 DEF Background!Insert, Background!End, Background!Find, Background!Tell
  <2> QED BY <2>1, <2>2
<1>4. CASE UNCHANGED <<state, by, stage>>
  BY <1>4
<1> QED BY <1>1, <1>2, <1>3, <1>4 DEF Background!Next, Background!Read, Background!vars

\* What each step does to the tasks that run and to those that have passed.
LEMMA RoomNext ==
  ASSUME IsFiniteSet(Tasks), IsFiniteSet(Agents), Limit \in Nat,
         TaskTypes, OnePassEach, Room, [Background!Next]_Background!vars
  PROVE  Room'
<1> DEFINE runs == Background!In("running")
           passed == Background!In("passed")
<1>1. /\ IsFiniteSet(runs) /\ Cardinality(runs) \in Nat
      /\ IsFiniteSet(passed) /\ Cardinality(passed) \in Nat /\ Cardinality(There) \in Nat
  BY TasksFinite
<1>2. /\ IsFiniteSet(runs') /\ Cardinality(runs') \in Nat
      /\ IsFiniteSet(passed') /\ Cardinality(passed') \in Nat
      /\ IsFiniteSet(There') /\ Cardinality(There') \in Nat
  BY FS_Subset, FS_CardinalityType DEF Background!In, There
<1>3. Cardinality(There) <= Cardinality(There')
  <2>1. There \subseteq There'
    BY DEF There, TaskTypes, Background!Next, Background!Spawn, Background!Release,
           Background!Unregister, Background!Read, Background!Pass, Background!Insert,
           Background!End, Background!Find, Background!Tell, Background!vars
  <2> QED BY <1>2, <2>1, FS_Subset
<1>4. ASSUME runs' \subseteq runs, passed' \subseteq passed PROVE Room'
  <2>1. Cardinality(runs') <= Cardinality(runs) /\ Cardinality(passed') <= Cardinality(passed)
    BY <1>1, <1>4, FS_Subset
  <2> QED BY <1>1, <1>2, <1>3, <2>1 DEF Room
<1>5. ASSUME NEW o \in Background!Owners, NEW k \in Tasks, Background!Pass(o, k) PROVE Room'
  <2>1. CASE Background!CanPass
    <3>1. runs' \subseteq runs
      BY <1>5 DEF Background!Pass, Background!In, TaskTypes
    <3>2. Cardinality(runs') <= Cardinality(runs)
      BY <1>1, <3>1, FS_Subset
    <3>3. OnePassEach'
      BY PassNext
    <3>4. Cardinality(passed') <= Cardinality(There') + 1
      <4>1. /\ IsFiniteSet(Starters') /\ Cardinality(Starters') \in Nat
            /\ Cardinality(Starters') <= Cardinality(There') + 1
        <5>1. /\ IsFiniteSet(Starters')
              /\ Cardinality(Starters') = IF Main \in There' THEN Cardinality(There')
                                                            ELSE Cardinality(There') + 1
          BY <1>2, FS_AddElement DEF Starters
        <5> QED BY <5>1, <1>2
      <4>2. Cardinality(passed') <= Cardinality(Starters')
        BY <3>3, <4>1, FewValues DEF OnePassEach
      <4> QED BY <1>2, <4>1, <4>2
    <3> QED BY <1>1, <1>2, <2>1, <3>2, <3>4, SameCount DEF Background!CanPass, Room
  <2>2. CASE ~Background!CanPass
    <3>1. runs' \subseteq runs /\ passed' \subseteq passed
      BY <1>5, <2>2 DEF Background!Pass, Background!In, TaskTypes
    <3> QED BY <3>1, <1>4
  <2> QED BY <2>1, <2>2
<1>6. ASSUME NEW k \in Tasks, Background!Insert(k) PROVE Room'
  <2>1. passed' = passed \ {k} /\ k \in passed /\ k \notin runs
    BY <1>6 DEF Background!Insert, Background!In, TaskTypes
  <2>2. runs' \subseteq runs \cup {k}
    BY <1>6 DEF Background!Insert, Background!In, TaskTypes
  <2>3. Cardinality(passed') = Cardinality(passed) - 1
    BY <1>1, <2>1, FS_RemoveElement
  <2>4. IsFiniteSet(runs \cup {k}) /\ Cardinality(runs \cup {k}) = Cardinality(runs) + 1
    BY <1>1, <2>1, FS_AddElement
  <2>5. Cardinality(runs') <= Cardinality(runs) + 1
    BY <2>2, <2>4, FS_Subset
  <2> QED BY <1>1, <1>2, <1>3, <2>3, <2>5 DEF Room
<1>7. ASSUME NEW k \in Tasks, Background!End(k) \/ Background!Find(k) \/ Background!Tell(k)
      PROVE  Room'
  <2>1. runs' \subseteq runs /\ passed' \subseteq passed
    BY <1>7 DEF Background!End, Background!Find, Background!Tell, Background!In, TaskTypes
  <2> QED BY <2>1, <1>4
<1>8. CASE UNCHANGED state
  BY <1>4, <1>8 DEF Background!In
<1> QED BY <1>5, <1>6, <1>7, <1>8 DEF Background!Next, Background!Spawn, Background!Release,
                                      Background!Unregister, Background!Read, Background!vars

\* However many agents pass the check before the others' commands are recorded, no
\* more run than the limit and one for each other agent there was (StartFor).
LEMMA RoomIsKept ==
  ASSUME IsFiniteSet(Tasks), IsFiniteSet(Agents), Limit \in Nat
  PROVE  Background!Spec => []Background!CapHolds
<1> DEFINE CInv == TaskTypes /\ OnePassEach /\ Room
<1>1. Background!Init => CInv
  <2> SUFFICES ASSUME Background!Init PROVE CInv
    OBVIOUS
  <2>1. Background!In("running") = {} /\ Background!In("passed") = {} /\ There = {}
    BY DEF Background!Init, Background!In, There
  <2> QED BY <2>1, TasksInit, FS_EmptySet DEF Room
<1>2. CInv /\ [Background!Next]_Background!vars => CInv'
  BY TaskTypesNext, PassNext, RoomNext
<1>3. CInv => Background!CapHolds
  BY TasksFinite, SameCount DEF Room, Background!CapHolds, There
<1> HIDE DEF CInv
<1> QED BY <1>1, <1>2, <1>3, PTL DEF Background!Spec

-----------------------------------------------------------------------------
(* The three together.                                                      *)

\* Whichever component a behaviour is of, the others stay where they began, and every
\* step is one that the component takes or one that it does not notice.
THEOREM EachIsThere == OutsideSpec => Gateway!Spec /\ Spec /\ Background!Spec
<1>1. OutsideInit => Gateway!Init /\ Init /\ Background!Init
  BY DEF OutsideInit
<1>2. [OutsideNext]_<<part, gateway, vars, background>> => [Gateway!Next]_Gateway!vars
  BY DEF OutsideNext, gateway, Gateway!vars
<1>3. [OutsideNext]_<<part, gateway, vars, background>> => [Next]_vars
  BY DEF OutsideNext
<1>4. [OutsideNext]_<<part, gateway, vars, background>> => [Background!Next]_Background!vars
  BY DEF OutsideNext, background, Background!vars
<1> QED BY <1>1, <1>2, <1>3, <1>4, PTL DEF OutsideSpec, Gateway!Spec, Spec, Background!Spec

\* There is never more than one agent, it is the one that the restarter can stop, and when
\* nobody is at work it runs what was built last (agentProc, updateAgent).
THEOREM OneAgentOfTheLastBuild == OutsideSpec => []OneBuiltAgent
BY GatewayKeepsOne, EachIsThere, PTL DEF OneBuiltAgent

\* No two turns bring up the engine of one model at once, unless one for another model
\* began in between (AwaitTransition, finishFlight).
THEOREM OneRunPerModel == OutsideSpec => []OneRunEach
BY RunsAreApart, EachIsThere, PTL

\* What depends on the model belongs to the one in use, whose engine was ready, however
\* the turns that switched overlapped, but for a transition that failed
\* (syncCurrentModel, refreshModelResources).
THEOREM ResourcesFollow == OutsideSpec => []ReadyForCurrent
BY ContextFollows, EachIsThere, PTL

\* The notice of a command goes to an agent that is not over when it is looked up
\* (deliver, UnregisterDelivery, ReleasePending).
THEOREM NoticeFindsSomeone == OutsideSpec => NoticeToLiving
BY NoticesReach, EachIsThere, PTL DEF NoticeToLiving

\* However many agents pass the check before the others' commands are recorded, no more
\* run than the limit and one for each other agent there was (StartFor).
THEOREM LimitWithRace ==
  ASSUME IsFiniteSet(Tasks), IsFiniteSet(Agents), Limit \in Nat
  PROVE  OutsideSpec => []CapHolds
BY RoomIsKept, EachIsThere, PTL DEF CapHolds
=============================================================================
