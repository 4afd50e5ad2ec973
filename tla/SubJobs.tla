------------------------------ MODULE SubJobs ------------------------------
(***************************************************************************)
(* Background subagents: the process-wide store of jobs                     *)
(* (pkg/agentloop/subagent_jobs.go), the turns that start them with the     *)
(* task tool, and the hold that keeps such a turn open until its jobs have   *)
(* settled (runTurn and awaitSubagentResult in pkg/agent/loop.go).          *)
(*                                                                          *)
(* An owner is the token of one agent session: "main:<peer>" for a peer, the*)
(* session id for a subagent that starts jobs of its own.  The mutex of the *)
(* store makes each access to it one step, and no more than one access.     *)
(***************************************************************************)
EXTENDS Naturals, FiniteSets

CONSTANTS
  Owners,     \* owner tokens
  Mains,      \* those of peers: their delivery sink is never unregistered
  Jobs,       \* jobs that may be started, each once
  None,       \* no owner yet
  MaxRunning, \* maxRunningJobs
  MaxWaits,   \* waits of subagentHoldWait in subagentHoldMaxTotal
  MaxTurns    \* bound on the turns of one owner

ASSUME OwnersAssumption == Mains \subseteq Owners /\ None \notin Owners
ASSUME BoundsAssumption ==
  MaxRunning \in Nat \ {0} /\ MaxWaits \in Nat /\ MaxTurns \in Nat

VARIABLES
  \* subJobStore
  row,      \* status of each job in the map jobs, "absent" when it has no row
  settled,  \* settled[o]: completions of o's jobs, ever
  token,    \* settleCh holds its one element
  \* the goroutine of each job
  job,      \* how far it is
  owner,    \* whose job it is
  killed,   \* jobs whose context is cancelled
  \* the turn of each owner
  turn,     \* where it stands
  ctxDone,  \* owners whose turn context is cancelled
  before,   \* settled[o] as waitForNextSettle saw it on entry
  waits,    \* waits of the current hold that timed out
  how,      \* how the turn ended
  turns,    \* turns of this owner so far
  \* delivery
  sinks,    \* owners with a registered delivery sink
  inbox,    \* results in the PeerInput of the owner's session
  taken,    \* results some turn of the owner has drained
  dead      \* results dead-lettered

storeVars == <<row, settled, token>>
jobVars   == <<job, owner, killed>>
turnVars  == <<turn, ctxDone, before, waits, how, turns>>
mailVars  == <<sinks, inbox, taken, dead>>
vars == <<storeVars, jobVars, turnVars, mailVars>>

Holding == {"hold", "enter", "poll", "select", "drain", "last"}
TurnPC  == {"idle", "run", "create", "final", "ask", "ended", "leaving"} \cup Holding

Running   == {j \in Jobs : row[j] = "running"}            \* activeRunningLocked
Pending(o) == {j \in Running : owner[j] = o}              \* pendingForOwner
OwnedBy(o) == {j \in Jobs : owner[j] = o}

Init ==
  /\ row = [j \in Jobs |-> "absent"]
  /\ settled = [o \in Owners |-> 0]
  /\ token = FALSE
  /\ job = [j \in Jobs |-> "new"]
  /\ owner = [j \in Jobs |-> None]
  /\ killed = {}
  /\ turn = [o \in Owners |-> "idle"]
  /\ ctxDone = {}
  /\ before = [o \in Owners |-> 0]
  /\ waits = [o \in Owners |-> 0]
  /\ how = [o \in Owners |-> "none"]
  /\ turns = [o \in Owners |-> 0]
  /\ sinks = Mains
  /\ inbox = [o \in Owners |-> {}]
  /\ taken = [o \in Owners |-> {}]
  /\ dead = {}

At(o, label)   == turn[o] = label
Move(o, label) == turn' = [turn EXCEPT ![o] = label]
KeepTurn == UNCHANGED <<ctxDone, before, waits, how, turns>>

\* drainSteering: with something in the inbox the loop goes on, else the turn
\* moves to next.
DrainOr(o, next) ==
  /\ taken' = [taken EXCEPT ![o] = @ \cup inbox[o]]
  /\ inbox' = [inbox EXCEPT ![o] = {}]
  /\ Move(o, IF inbox[o] # {} THEN "run" ELSE next)

-----------------------------------------------------------------------------
(* A turn, up to its hold.                                                  *)

\* The context is new; a subagent's sink is registered before its turn begins.
StartTurn(o) ==
  /\ At(o, "idle") /\ turns[o] < (IF o \in Mains THEN MaxTurns ELSE 1)
  /\ turns' = [turns EXCEPT ![o] = @ + 1]
  /\ sinks' = sinks \cup {o}
  /\ how' = [how EXCEPT ![o] = "none"]
  /\ DrainOr(o, "run")
  /\ UNCHANGED <<storeVars, jobVars, ctxDone, before, waits, dead>>

\* Mutant: the job that is just being counted is forgotten.
CountOneTooMany(o, j) ==
  /\ At(o, "run") /\ job[j] = "new"
  /\ Cardinality(Running) <= MaxRunning
  /\ job' = [job EXCEPT ![j] = "counted"]
  /\ owner' = [owner EXCEPT ![j] = o]
  /\ killed' = IF o \in ctxDone THEN killed \cup {j} ELSE killed
  /\ Move(o, "create")
  /\ UNCHANGED <<storeVars, mailVars>> /\ KeepTurn

\* create, first critical section: the cap is checked.  A task over the cap is
\* refused without a trace.  Its context is the child of the turn's.
CountRunning(o, j) ==
  /\ At(o, "run") /\ job[j] = "new"
  /\ Cardinality(Running) < MaxRunning
  /\ job' = [job EXCEPT ![j] = "counted"]
  /\ owner' = [owner EXCEPT ![j] = o]
  /\ killed' = IF o \in ctxDone THEN killed \cup {j} ELSE killed
  /\ Move(o, "create")
  /\ UNCHANGED <<storeVars, mailVars>> /\ KeepTurn

\* create, second critical section, and the goroutine.
InsertRow(o, j) ==
  /\ At(o, "create") /\ job[j] = "counted" /\ owner[j] = o
  /\ row' = [row EXCEPT ![j] = "running"]
  /\ job' = [job EXCEPT ![j] = "work"]
  /\ Move(o, "run")
  /\ UNCHANGED <<settled, token, owner, killed, mailVars>> /\ KeepTurn

\* The subagents tool, action cancel: of any job with a row, whosever it is.
CancelJob(o, j) ==
  /\ At(o, "run") /\ row[j] # "absent"
  /\ row' = [row EXCEPT ![j] = IF @ = "running" THEN "aborted" ELSE @]
  /\ killed' = killed \cup {j}
  /\ UNCHANGED <<settled, token, job, owner, turnVars, mailVars>>

\* An iteration of runInnerLoop ends with a drain.  When the model has called no
\* tool (hasMore is FALSE) an empty drain ends the loop.
Iterate(o) ==
  /\ At(o, "run")
  /\ \E next \in {"run", "final"} : DrainOr(o, next)
  /\ UNCHANGED <<storeVars, jobVars, sinks, dead>> /\ KeepTurn

\* runTurn drains once more.
FinalDrain(o) ==
  /\ At(o, "final")
  /\ DrainOr(o, "ask")
  /\ UNCHANGED <<storeVars, jobVars, sinks, dead>> /\ KeepTurn

-----------------------------------------------------------------------------
(* awaitSubagentResult and waitForNextSettle.                               *)

End(o, result) == Move(o, "ended") /\ how' = [how EXCEPT ![o] = result]

\* Mutant: the turn never holds.
AskNobody(o) ==
  /\ At(o, "ask")
  /\ End(o, "final")
  /\ UNCHANGED <<storeVars, jobVars, ctxDone, before, waits, turns, mailVars>>

AskPending(o) ==
  /\ At(o, "ask")
  /\ IF Pending(o) = {}
       THEN End(o, "final") /\ UNCHANGED waits
       ELSE Move(o, "hold") /\ waits' = [waits EXCEPT ![o] = 0] /\ UNCHANGED how
  /\ UNCHANGED <<storeVars, jobVars, ctxDone, before, turns, mailVars>>

\* The head of the loop: the hold may be over for three reasons.
HoldHead(o) ==
  /\ At(o, "hold")
  /\ IF Pending(o) = {} THEN Move(o, "last") /\ UNCHANGED how
     ELSE \/ /\ o \notin ctxDone /\ waits[o] < MaxWaits
             /\ Move(o, "enter") /\ UNCHANGED how
          \/ \* the total is reached, perhaps before the last wait times out
             /\ Move(o, "last")
             /\ how' = [how EXCEPT ![o] = IF o \in ctxDone THEN "cancelled" ELSE "expired"]
  /\ UNCHANGED <<storeVars, jobVars, ctxDone, before, waits, turns, mailVars>>

EnterWait(o) ==
  /\ At(o, "enter")
  /\ before' = [before EXCEPT ![o] = settled[o]]
  /\ Move(o, "poll")
  /\ UNCHANGED <<storeVars, jobVars, ctxDone, waits, how, turns, mailVars>>

Advanced(o) == settled[o] > before[o]

Poll(o) ==
  /\ At(o, "poll")
  /\ Move(o, IF Advanced(o) \/ Pending(o) = {} THEN "drain" ELSE "select")
  /\ UNCHANGED <<storeVars, jobVars, mailVars>> /\ KeepTurn

\* The select of waitForNextSettle: settleCh is one channel for all owners.
Wake(o) ==
  /\ At(o, "select") /\ token
  /\ token' = FALSE
  /\ Move(o, "poll")
  /\ UNCHANGED <<row, settled, jobVars, mailVars>> /\ KeepTurn

\* Mutant: the hold does not count its waits.
TimeoutUncounted(o) ==
  /\ At(o, "select")
  /\ Move(o, IF Advanced(o) THEN "drain" ELSE "hold")
  /\ UNCHANGED <<storeVars, jobVars, mailVars>> /\ KeepTurn

\* waits counts as far as the head of the loop looks at it.
WaitTimeout(o) ==
  /\ At(o, "select")
  /\ waits' = [waits EXCEPT ![o] = IF @ < MaxWaits THEN @ + 1 ELSE @]
  /\ Move(o, IF Advanced(o) THEN "drain" ELSE "hold")
  /\ UNCHANGED <<storeVars, jobVars, ctxDone, before, how, turns, mailVars>>

WaitCancelled(o) ==
  /\ At(o, "select") /\ o \in ctxDone
  /\ Move(o, "hold")
  /\ UNCHANGED <<storeVars, jobVars, mailVars>> /\ KeepTurn

HoldDrain(o) ==
  /\ At(o, "drain")
  /\ DrainOr(o, "hold")
  /\ UNCHANGED <<storeVars, jobVars, sinks, dead>> /\ KeepTurn

\* The drain after the loop; when it is empty the turn ends with its text.
LastDrain(o) ==
  /\ At(o, "last")
  /\ DrainOr(o, "ended")
  /\ how' = [how EXCEPT ![o] = IF inbox[o] # {} THEN "none"
                               ELSE IF @ = "none" THEN "final" ELSE @]
  /\ UNCHANGED <<storeVars, jobVars, ctxDone, before, waits, turns, sinks, dead>>

\* A failed request, a cancelled context or the iteration limit ends the loop
\* without a hold.
Break(o) ==
  /\ At(o, "run")
  /\ End(o, "broken")
  /\ UNCHANGED <<storeVars, jobVars, ctxDone, before, waits, turns, mailVars>>

\* After the turn: a subagent's sink is unregistered, then the deferred cancel
\* runs, which cancels the contexts of the jobs as well.
Unregister(o) ==
  /\ At(o, "ended")
  /\ sinks' = IF o \in Mains THEN sinks ELSE sinks \ {o}
  /\ Move(o, "leaving")
  /\ UNCHANGED <<storeVars, jobVars, inbox, taken, dead>> /\ KeepTurn

\* Mutant: the jobs keep a context of their own.
LeaveJobsAlone(o) ==
  /\ At(o, "leaving")
  /\ ctxDone' = ctxDone \ {o}
  /\ Move(o, "idle")
  /\ UNCHANGED <<storeVars, jobVars, before, waits, how, turns, mailVars>>

Leave(o) ==
  /\ At(o, "leaving")
  /\ killed' = killed \cup OwnedBy(o)
  /\ ctxDone' = ctxDone \ {o}
  /\ Move(o, "idle")
  /\ UNCHANGED <<storeVars, job, owner, before, waits, how, turns, mailVars>>

\* External: a reset, or the end of the turn a subagent works for.
CancelTurn(o) ==
  /\ turn[o] \notin {"idle", "ended", "leaving"} /\ o \notin ctxDone
  /\ ctxDone' = ctxDone \cup {o}
  /\ killed' = killed \cup OwnedBy(o)
  /\ UNCHANGED <<storeVars, job, owner, turn, before, waits, how, turns, mailVars>>

-----------------------------------------------------------------------------
(* The goroutine of a job.                                                  *)

\* runSpawn has returned; complete, up to its unlock.  An aborted row is
\* overwritten.
Complete(j) ==
  /\ job[j] = "work"
  /\ \E status \in {"done", "error"} : row' = [row EXCEPT ![j] = status]
  /\ settled' = [settled EXCEPT ![owner[j]] = @ + 1]
  /\ job' = [job EXCEPT ![j] = "settled"]
  /\ UNCHANGED <<token, owner, killed, turnVars, mailVars>>

\* Mutant: the result is counted but nobody is woken.
SignalNobody(j) ==
  /\ job[j] = "settled"
  /\ job' = [job EXCEPT ![j] = "signalled"]
  /\ UNCHANGED <<storeVars, owner, killed, turnVars, mailVars>>

SignalSettle(j) ==
  /\ job[j] = "settled"
  /\ token' = TRUE
  /\ job' = [job EXCEPT ![j] = "signalled"]
  /\ UNCHANGED <<row, settled, owner, killed, turnVars, mailVars>>

\* Mutant: the sink of a peer is asked only while its turn runs.
DeliverToTurn(j) ==
  LET o == owner[j] IN
  /\ job[j] = "signalled"
  /\ IF turn[o] # "idle"
       THEN inbox' = [inbox EXCEPT ![o] = @ \cup {j}] /\ UNCHANGED dead
       ELSE dead' = dead \cup {j} /\ UNCHANGED inbox
  /\ job' = [job EXCEPT ![j] = "over"]
  /\ UNCHANGED <<storeVars, owner, killed, turnVars, sinks, taken>>

\* autoDeliverJobResult
Deliver(j) ==
  LET o == owner[j] IN
  /\ job[j] = "signalled"
  /\ IF o \in sinks
       THEN inbox' = [inbox EXCEPT ![o] = @ \cup {j}] /\ UNCHANGED dead
       ELSE dead' = dead \cup {j} /\ UNCHANGED inbox
  /\ job' = [job EXCEPT ![j] = "over"]
  /\ UNCHANGED <<storeVars, owner, killed, turnVars, sinks, taken>>

\* The timer of complete, jobRetention later.
Evict(j) ==
  /\ job[j] \in {"signalled", "over"} /\ row[j] # "absent"
  /\ row' = [row EXCEPT ![j] = "absent"]
  /\ UNCHANGED <<settled, token, jobVars, turnVars, mailVars>>

-----------------------------------------------------------------------------
HoldStep(o) ==
  \/ AskPending(o) \/ HoldHead(o) \/ EnterWait(o) \/ Poll(o) \/ Wake(o)
  \/ WaitTimeout(o) \/ WaitCancelled(o) \/ HoldDrain(o) \/ LastDrain(o)

TurnStep(o) ==
  \/ StartTurn(o) \/ Iterate(o) \/ FinalDrain(o) \/ HoldStep(o) \/ Break(o)
  \/ Unregister(o) \/ Leave(o) \/ CancelTurn(o)
  \/ \E j \in Jobs : CountRunning(o, j) \/ InsertRow(o, j) \/ CancelJob(o, j)

JobStep(j) == Complete(j) \/ SignalSettle(j) \/ Deliver(j) \/ Evict(j)

Next == (\E o \in Owners : TurnStep(o)) \/ (\E j \in Jobs : JobStep(j))

Spec == Init /\ [][Next]_vars

\* A turn that holds keeps running and the timer of its wait fires.  What a job
\* does between its start and its end is not assumed to end.
FairSpec == Spec /\ \A o \in Owners : WF_vars(HoldStep(o))

-----------------------------------------------------------------------------
(* Properties.                                                              *)

\* Every variable stays in its type.
TypeOK ==
  /\ row \in [Jobs -> {"absent", "running", "aborted", "done", "error"}]
  /\ settled \in [Owners -> Nat] /\ before \in [Owners -> Nat]
  /\ token \in BOOLEAN
  /\ job \in [Jobs -> {"new", "counted", "work", "settled", "signalled", "over"}]
  /\ owner \in [Jobs -> Owners \cup {None}]
  /\ killed \subseteq Jobs /\ dead \subseteq Jobs
  /\ turn \in [Owners -> TurnPC]
  /\ ctxDone \subseteq Owners /\ sinks \subseteq Owners
  /\ waits \in [Owners -> 0..MaxWaits]
  /\ how \in [Owners -> {"none", "final", "expired", "cancelled", "broken"}]
  /\ turns \in [Owners -> Nat]
  /\ inbox \in [Owners -> SUBSET Jobs] /\ taken \in [Owners -> SUBSET Jobs]

\* No more than maxRunningJobs jobs run.  (Of one owner: its creates do not
\* overlap.)
RunningCap == Cardinality(Running) <= MaxRunning

\* A turn that ends of itself, its hold neither cut short by the clock nor by a
\* cancellation, leaves no job of its own running.
FinalLeavesNoneRunning ==
  \A o \in Owners : turn[o] = "ended" /\ how[o] = "final" => Pending(o) = {}

\* A job whose context nobody has cancelled belongs to a turn that still runs:
\* no job outlives its turn unnoticed.
JobsDieWithTurn ==
  \A j \in Jobs : job[j] = "work" /\ turn[owner[j]] = "idle" => j \in killed

\* The result of a job that is over is in its owner's inbox or was drained from
\* it; only a subagent's, whose sink is gone, may be dead-lettered.
ResultKept ==
  \A j \in Jobs : job[j] = "over" =>
    \/ j \in inbox[owner[j]] \cup taken[owner[j]]
    \/ j \in dead /\ owner[j] \notin Mains

\* A turn that sleeps although a job of its own has settled is about to be
\* woken.  (Of one owner: others could take the signal.)
NoLostWakeup ==
  \A o \in Owners :
    turn[o] = "select" /\ Advanced(o)
      => token \/ \E j \in OwnedBy(o) : job[j] = "settled"

\* However long the jobs take, a hold ends.
HoldEnds ==
  \A o \in Owners : turn[o] \in Holding ~> turn[o] \notin Holding

\* A turn that held until nothing was pending has the results of its jobs.  Not so in
\* the code: a job is settled before its result is in the inbox.
HoldCollects ==
  \A o \in Owners :
    turn[o] = "idle" /\ how[o] = "final" => \A j \in OwnedBy(o) : j \notin inbox[o]
=============================================================================
