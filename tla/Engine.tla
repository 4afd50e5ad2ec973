-------------------------------- MODULE Engine --------------------------------
(***************************************************************************)
(* Switching the model.  The turn that first sees a new alias makes the    *)
(* engine follow: through a gate that lets turns with the same target wait *)
(* for one run, the manager stops the engine of the old model, starts the  *)
(* new one and waits for it; then the turn renews what depends on the      *)
(* model.  A watchdog probes the engine of the model in use and starts it  *)
(* again when it is gone.  (main leaves config.Engine empty: only a        *)
(* program that fills it has the gate, the manager and the watchdog.)      *)
(***************************************************************************)
EXTENDS Integers, FiniteSets

CONSTANTS Turns,        \* the peers whose turns run
          Aliases,      \* models, each with a start and a stop script
          First,        \* the one in use at the start
          None,
          Failures,     \* probes in a row that must fail: FailuresBeforeAlert
          MaxSwitches   \* bound: how often the user switches the model

ASSUME NamesAssumption == None \notin Turns

VARIABLES holder,    \* ModelHolder: the alias that the user chose
          switches,
          current,   \* agentLoop.currentAlias
          context,   \* the alias whose context window, tokenizer and compactor are in use
          engines,   \* the models whose engine runs
          flight,    \* engineGate.flight: the turn that runs it, or None
          at,        \* where each turn is
          target,    \* the alias it goes to
          old,       \* the alias that its run comes from
          waits,     \* the turn whose run it waits for, or None
          outcome,   \* what the run it waited for, or ran, came to
          past,      \* history: turns whose run goes on although one for another alias began later
          ended,     \* history: how runs ended, per alias
          dog,       \* the watchdog: "idle", "launch" or "await"
          fails,     \* its failed probes in a row
          gaveUp     \* history: its last recovery failed

turn == <<holder, switches, current, context, flight, at, target, old, waits, outcome, past, ended>>
watch == <<dog, fails, gaveUp>>
vars == <<turn, engines, watch>>

Init == /\ holder = First /\ switches = 0
        /\ current = holder /\ context = holder
        /\ engines = {holder} /\ flight = None
        /\ at = [t \in Turns |-> "idle"] /\ target = [t \in Turns |-> None]
        /\ old = [t \in Turns |-> None] /\ waits = [t \in Turns |-> None]
        /\ outcome = [t \in Turns |-> "ok"] /\ past = {} /\ ended = {<<holder, "ok">>}
        /\ dog = "idle" /\ fails = 0 /\ gaveUp = FALSE

SwitchModel(a) == /\ a # holder /\ switches < MaxSwitches
                  /\ holder' = a /\ switches' = switches + 1
                  /\ UNCHANGED <<current, context, engines, flight, at, target, old, waits, outcome, past, ended, watch>>

EngineDies(a) == a \in engines /\ engines' = engines \ {a} /\ UNCHANGED <<turn, watch>>

-----------------------------------------------------------------------------
(* A turn: syncCurrentModel and the gate.                                   *)

\* Its first steps, under modelMu: the new alias is recorded before the engine
\* has followed.
Sync(t) == /\ at[t] = "idle" /\ holder # current
           /\ current' = holder
           /\ target' = [target EXCEPT ![t] = holder]
           /\ at' = [at EXCEPT ![t] = "gate"]
           /\ UNCHANGED <<holder, switches, context, engines, flight, old, waits, outcome, past, ended, watch>>

Runs(t) == at[t] \in {"plan", "stop", "launch", "await"}

\* AwaitTransition: join the run of the same target, or run and become the one
\* that others join.
Gate(t) ==
  LET join == flight # None /\ target[flight] = target[t]
  IN /\ at[t] = "gate"
     /\ at' = [at EXCEPT ![t] = IF join THEN "join" ELSE "plan"]
     /\ waits' = [waits EXCEPT ![t] = IF join THEN flight ELSE None]
     /\ flight' = IF join THEN flight ELSE t
     /\ past' = IF join THEN past ELSE past \cup {u \in Turns : Runs(u) /\ target[u] # target[t]}
     /\ UNCHANGED <<holder, switches, current, context, engines, target, old, outcome, ended, watch>>

ClearedAnyway(t) == None  \* Mutant: whichever run ends.

Cleared(t) == IF flight = t THEN None ELSE flight

Woken(t) == {u \in Turns : waits[u] = t /\ at[u] = "join"}

\* What those who joined go on with: the run's error is theirs.
Shared(t, result) == [u \in Turns |-> IF u = t \/ u \in Woken(t) THEN result ELSE outcome[u]]

\* finishFlight: the run is over, and whoever joined it wakes up.
Finish(t, result) ==
  /\ flight' = Cleared(t)
  /\ outcome' = Shared(t, result)
  /\ past' = past \ {t}
  /\ ended' = ended \cup {<<target[t], result>>}
  /\ at' = [u \in Turns |-> IF u = t \/ u \in Woken(t) THEN "refresh" ELSE at[u]]

\* joinFlight of a turn that is cancelled.
Leave(t) == /\ at[t] = "join"
            /\ at' = [at EXCEPT ![t] = "idle"] /\ waits' = [waits EXCEPT ![t] = None]
            /\ UNCHANGED <<holder, switches, current, context, engines, flight, target, old, outcome, past, ended, watch>>

-----------------------------------------------------------------------------
(* Manager.TransitionBetween, run by the turn that holds the flight.        *)

\* Transition takes the alias to leave from the holder, which is past it already:
\* as long as the user does not switch again there is nothing to do.
Plan(t) ==
  /\ at[t] = "plan"
  /\ old' = [old EXCEPT ![t] = holder]
  /\ IF holder = target[t]
       THEN Finish(t, "ok")
       ELSE at' = [at EXCEPT ![t] = "stop"] /\ UNCHANGED <<flight, outcome, past, ended>>
  /\ UNCHANGED <<holder, switches, current, context, engines, target, waits, watch>>

\* An engine that does not stop cleanly is no reason not to start the next one.
StopOld(t) ==
  /\ at[t] = "stop"
  /\ engines' \in {engines, engines \ {old[t]}}
  /\ at' = [at EXCEPT ![t] = "launch"]
  /\ UNCHANGED <<holder, switches, current, context, flight, target, old, waits, outcome, past, ended, watch>>

Launch(t) ==
  /\ at[t] = "launch"
  /\ \/ /\ engines' = engines \cup {target[t]}
        /\ at' = [at EXCEPT ![t] = "await"] /\ UNCHANGED <<flight, outcome, past, ended>>
     \/ Finish(t, "failed") /\ UNCHANGED engines
  /\ UNCHANGED <<holder, switches, current, context, target, old, waits, watch>>

\* WaitForReady: a probe that finds the model, or the deadline or a cancellation.
Await(t) ==
  /\ at[t] = "await"
  /\ \/ target[t] \in engines /\ Finish(t, "ok")
     \/ Finish(t, "failed")
  /\ UNCHANGED <<holder, switches, current, context, engines, target, old, waits, watch>>

RenewedAnyway(t) == IF outcome[t] = "ok" THEN target[t] ELSE context  \* Mutant: without the second look.

\* refreshModelResources, unless the transition failed or the model changed since.
Renewed(t) == IF outcome[t] = "ok" /\ target[t] = current THEN target[t] ELSE context

Refresh(t) ==
  /\ at[t] = "refresh"
  /\ context' = Renewed(t)
  /\ at' = [at EXCEPT ![t] = "idle"] /\ target' = [target EXCEPT ![t] = None]
  /\ old' = [old EXCEPT ![t] = None] /\ waits' = [waits EXCEPT ![t] = None]
  /\ outcome' = [outcome EXCEPT ![t] = "ok"]
  /\ UNCHANGED <<holder, switches, current, engines, flight, past, ended, watch>>

-----------------------------------------------------------------------------
(* The watchdog.  A stall of a turn is told from outside: it may be reported *)
(* at any tick while a turn is under way.                                    *)

\* DetectStall, by a detector that main may set: some turn is under way.
MayStall == \E t \in Turns : at[t] # "idle"

TickForgets(stalled) ==  \* Mutant: every tick counts from the start.
  /\ dog = "idle"
  /\ stalled => MayStall
  /\ LET recover == stalled \/ (holder \notin engines /\ 1 >= Failures)
     IN dog' = (IF recover THEN "launch" ELSE "idle") /\ fails' = 0
  /\ UNCHANGED <<turn, engines, gaveUp>>

Tick(stalled) ==
  /\ dog = "idle"
  /\ stalled => MayStall
  /\ LET recover == stalled \/ (holder \notin engines /\ fails + 1 >= Failures)
     IN /\ dog' = IF recover THEN "launch" ELSE "idle"
        /\ fails' = IF recover \/ holder \in engines THEN 0 ELSE fails + 1
  /\ UNCHANGED <<turn, engines, gaveUp>>

\* attemptRecovery: TransitionBetween from no alias, so nothing is stopped.
DogLaunch ==
  /\ dog = "launch"
  /\ \/ engines' = engines \cup {holder} /\ dog' = "await" /\ UNCHANGED gaveUp
     \/ dog' = "idle" /\ gaveUp' = TRUE /\ UNCHANGED engines
  /\ UNCHANGED <<turn, fails>>

DogAwait == /\ dog = "await"
            /\ dog' = "idle" /\ gaveUp' \in {FALSE, holder \notin engines}
            /\ UNCHANGED <<turn, engines, fails>>

-----------------------------------------------------------------------------
Watch == \/ \E stalled \in BOOLEAN : Tick(stalled)
         \/ DogLaunch \/ DogAwait

Step(t) == Gate(t) \/ Plan(t) \/ StopOld(t) \/ Launch(t) \/ Await(t) \/ Refresh(t)

Next == \/ \E a \in Aliases : SwitchModel(a) \/ EngineDies(a)
        \/ \E t \in Turns : Sync(t) \/ Leave(t) \/ Step(t)
        \/ Watch

Fairness == WF_vars(Watch) /\ \A t \in Turns : WF_vars(Step(t))

Spec == Init /\ [][Next]_vars

FairSpec == Spec /\ Fairness

-----------------------------------------------------------------------------
(* Properties.                                                              *)

\* When no turn is about to change the model, what depends on the model belongs
\* to the alias that the loop goes by, however the turns that switched overlapped;
\* only a transition that failed leaves it behind.
ContextIsOfCurrent ==
  (\A t \in Turns : at[t] = "idle") => context = current \/ <<current, "failed">> \in ended

\* The engine of a model is brought up by one turn at a time, unless one for another
\* model began in between: a run that ends leaves the gate to those that go on.
OneRunEach ==
  \A t, u \in Turns : Runs(t) /\ Runs(u) /\ target[t] = target[u] => t = u \/ {t, u} \cap past # {}

\* No turn renews for a model whose engine was never brought up: one that waited
\* for the run of another shares its error.
OnlyReadyIsUsed == <<context, "ok">> \in ended

\* The two of them: the model in use is the one that the turns count on, and was ready.
ReadyForCurrent == ContextIsOfCurrent /\ OnlyReadyIsUsed

\* The watchdog brings the engine of the model in use back, or says that it cannot.
WatchdogHeals ==
  \A a \in Aliases : holder = a /\ a \notin engines ~> holder # a \/ a \in engines \/ gaveUp
=============================================================================
