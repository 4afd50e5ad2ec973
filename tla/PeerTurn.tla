------------------------------ MODULE PeerTurn ------------------------------
(***************************************************************************)
(* The life of one peer's messages in the gateway: the VK handler goroutine *)
(* of each message (pkg/vk/handler.go), the shared steering inbox           *)
(* (session/peer_input.go), the agent turn that drains it (pkg/agent/loop.go*)
(* and the copy of that turn's messages into the persistent session         *)
(* (pkg/agentloop/agentloop.go, turn_mirror.go), together with /clear and   *)
(* /newsession, the turn that resumes interrupted work after a start, and a *)
(* crash of the process.                                                    *)
(*                                                                          *)
(* All state here is per peer in the program, so one peer is modelled.  The *)
(* texts of different messages are taken to differ, and a set stands for    *)
(* each queue of texts: no property here depends on their order.            *)
(***************************************************************************)
EXTENDS Naturals, FiniteSets

CONSTANTS
  Texts,         (* user messages that are not commands                      *)
  Pins,          (* /pin commands, which run a turn of their own             *)
  Notes,         (* texts admitted by background work, with no handler       *)
  Resets,        (* /clear, /newsession commands                             *)
  Boot,          (* the turn ScheduleResume starts when the process starts   *)
  NoTurn,        (* no turn: a free mutex, no cancel entry, no resume prompt *)
  InitialResume, (* what an earlier process may have left as resume prompt   *)
  MaxHandlers,   (* maxConcurrentHandlers                                    *)
  MaxRounds,     (* MaxToolCallDepth: LLM rounds in one turn                 *)
  MaxCrashes     (* bound on the number of crashes                           *)

Turn  == Texts \cup Pins \cup {Boot}   \* whoever runs an agent turn
Input == Texts \cup Notes      \* whatever passes through PeerInput
Text == Turn \cup Notes        \* whatever becomes a user message of the session
Commands == Pins \cup Resets
Handler  == Texts \cup Commands        \* one goroutine of launchMessageHandler
Proc == Handler \cup Notes \cup {Boot}

ASSUME KindsAreDisjoint ==
  /\ Texts \cap (Pins \cup Notes \cup Resets) = {}
  /\ Pins \cap (Notes \cup Resets) = {}
  /\ Notes \cap Resets = {}
  /\ Boot \notin Handler \cup Notes
  /\ NoTurn \notin Turn
ASSUME ResumeAssumption == InitialResume \subseteq {NoTurn, Boot}
ASSUME BoundsAssumption ==
  MaxHandlers \in Nat /\ MaxRounds \in Nat /\ MaxCrashes \in Nat

VARIABLES
  \* BotHandler
  pc,         \* where the goroutine of each message stands
  mutex,      \* holder of the per-peer processing mutex
  generation, \* generations[peer], bumped by every session reset
  gen,        \* generation each handler saw when it began to wait
  entry,      \* cancelFuncs[peer]: the turn whose context it cancels
  cancelled,  \* turns whose context has been cancelled
  \* PeerInput
  pending,    \* admitted, not yet claimed or drained
  promoted,   \* drained into some turn, not yet taken
  \* the agent turns
  steer,      \* texts a turn has drained but not yet appended
  fresh,      \* user texts in the turn's own session that are not mirrored yet
  mirrored,   \* texts this turn's mirror has copied
  more,       \* hasMore of runInnerLoop
  rounds,     \* iterations of the turn
  outcome,    \* how ProcessMessage of the agent returned
  \* the persistent session
  resume,     \* resume prompt
  recorded,   \* how often each text is in the persistent history
  lastPrompt, \* the turn whose prompt is the last message of that history
  \* bookkeeping
  crashes,    \* crashes so far
  discarded,  \* inputs thrown away by a reset or a crash
  stale       \* messages that had arrived when the last reset began

handlerVars == <<pc, mutex, generation, gen, entry, cancelled>>
inboxVars   == <<pending, promoted>>
turnVars    == <<steer, fresh, mirrored, more, rounds, outcome>>
sessionVars == <<resume, recorded, lastPrompt>>
ghostVars   == <<crashes, discarded, stale>>
vars == <<handlerVars, inboxVars, turnVars, sessionVars, ghostVars>>

-----------------------------------------------------------------------------
(* Program counters.                                                        *)

Holding  == {"locked", "claim", "register"}   \* mutex held, turn not started
Working  == {"look", "start", "prompt", "record", "enter", "drain", "check", "stream",
             "final", "hold", "sync", "take", "clear", "release"}
Resetting == {"cancelActive", "clearInput", "wipe", "bump"}
Ended    == {"inbox", "refused", "stale", "promoted", "done", "lost"}
PC == {"idle", "boot", "admitted", "queued"} \cup Holding \cup Working
        \cup Resetting \cup Ended

Goto(p, label) == pc' = [pc EXCEPT ![p] = label]

\* Messages being handled: each holds one token of the semaphore.
InFlight == {p \in Handler : pc[p] # "idle" /\ pc[p] \notin Ended}

\* A turn is live while it runs with a context nobody has cancelled.
Live(t) == pc[t] \in Working /\ t \notin cancelled

-----------------------------------------------------------------------------
Init ==
  /\ pc = [p \in Proc |-> IF p = Boot THEN "boot" ELSE "idle"]
  /\ mutex = NoTurn /\ entry = NoTurn /\ cancelled = {}
  /\ generation = 0 /\ gen = [t \in Turn |-> 0]
  /\ pending = {} /\ promoted = {}
  /\ steer = [t \in Turn |-> {}]
  /\ fresh = [t \in Turn |-> {}]
  /\ mirrored = [t \in Turn |-> {}]
  /\ more = [t \in Turn |-> FALSE]
  /\ rounds = [t \in Turn |-> 0]
  /\ outcome = [t \in Turn |-> "none"]
  /\ resume \in InitialResume
  /\ recorded = [i \in Text |-> 0]
  /\ lastPrompt = NoTurn
  /\ crashes = 0 /\ discarded = {} /\ stale = {}

-----------------------------------------------------------------------------
(* Arrival.  launchMessageHandler spends a token of the semaphore on every  *)
(* message; without one a text goes to the inbox and a command is dropped.  *)

Accepting == pc[Boot] # "boot"   \* the bot starts after ScheduleResume
FreeSlot  == Cardinality(InFlight) < MaxHandlers

Admit(m) == pending' = pending \cup {m}

LaunchText(m) ==
  /\ pc[m] = "idle" /\ Accepting /\ FreeSlot
  /\ Admit(m)
  /\ Goto(m, "admitted")
  /\ UNCHANGED <<mutex, generation, gen, entry, cancelled, promoted,
                 turnVars, sessionVars, ghostVars>>

LaunchCommand(c) ==
  /\ pc[c] = "idle" /\ Accepting /\ FreeSlot
  /\ Goto(c, IF c \in Pins THEN "admitted" ELSE "cancelActive")
  /\ UNCHANGED <<mutex, generation, gen, entry, cancelled, inboxVars,
                 turnVars, sessionVars, ghostVars>>

SaturatedText(m) ==
  /\ pc[m] = "idle" /\ Accepting /\ ~FreeSlot
  /\ Admit(m)
  /\ Goto(m, "inbox")
  /\ UNCHANGED <<mutex, generation, gen, entry, cancelled, promoted,
                 turnVars, sessionVars, ghostVars>>

SaturatedCommand(c) ==
  /\ pc[c] = "idle" /\ Accepting /\ ~FreeSlot
  /\ Goto(c, "refused")
  /\ UNCHANGED <<mutex, generation, gen, entry, cancelled, inboxVars,
                 turnVars, sessionVars, ghostVars>>

\* handleBackgroundNotification
Notify(n) ==
  /\ pc[n] = "idle" /\ Accepting
  /\ Admit(n)
  /\ Goto(n, "inbox")
  /\ UNCHANGED <<mutex, generation, gen, entry, cancelled, promoted,
                 turnVars, sessionVars, ghostVars>>

-----------------------------------------------------------------------------
(* The handler of a text or a /pin, up to the agent turn.                   *)

BeginWait(t) ==
  /\ pc[t] = "admitted"
  /\ gen' = [gen EXCEPT ![t] = generation]
  /\ Goto(t, "queued")
  /\ UNCHANGED <<mutex, generation, entry, cancelled, inboxVars, turnVars,
                 sessionVars, ghostVars>>

\* Mutant: a second handler enters while the mutex is taken.
AcquireUnlocked(t) ==
  /\ pc[t] = "queued"
  /\ mutex' = t
  /\ Goto(t, "locked")
  /\ UNCHANGED <<generation, gen, entry, cancelled, inboxVars, turnVars,
                 sessionVars, ghostVars>>

Acquire(t) ==
  /\ pc[t] = "queued"
  /\ mutex = NoTurn
  /\ mutex' = t
  /\ Goto(t, "locked")
  /\ UNCHANGED <<generation, gen, entry, cancelled, inboxVars, turnVars,
                 sessionVars, ghostVars>>

SameGeneration(t) ==
  /\ pc[t] = "locked"
  /\ gen[t] = generation
  /\ Goto(t, IF t \in Pins THEN "register" ELSE "claim")
  /\ UNCHANGED <<mutex, generation, gen, entry, cancelled, inboxVars, turnVars,
                 sessionVars, ghostVars>>

DropStale(t) ==
  /\ pc[t] = "locked"
  /\ gen[t] # generation
  /\ mutex' = NoTurn
  /\ Goto(t, "stale")
  /\ UNCHANGED <<generation, gen, entry, cancelled, inboxVars, turnVars,
                 sessionVars, ghostVars>>

\* Mutant: the claimed text stays in the inbox.
ClaimLeavesPending(m) ==
  /\ pc[m] = "claim"
  /\ m \in pending
  /\ Goto(m, "register")
  /\ UNCHANGED <<mutex, generation, gen, entry, cancelled, inboxVars, turnVars,
                 sessionVars, ghostVars>>

Claim(m) ==
  /\ pc[m] = "claim"
  /\ m \in pending
  /\ pending' = pending \ {m}
  /\ Goto(m, "register")
  /\ UNCHANGED <<mutex, generation, gen, entry, cancelled, promoted, turnVars,
                 sessionVars, ghostVars>>

DropPromoted(m) ==
  /\ pc[m] = "claim"
  /\ m \notin pending
  /\ mutex' = NoTurn
  /\ Goto(m, "promoted")
  /\ UNCHANGED <<generation, gen, entry, cancelled, inboxVars, turnVars,
                 sessionVars, ghostVars>>

\* What cancelling the turn registered in cancelFuncs does to the contexts.
CancelEntry == cancelled' = cancelled \cup ({entry} \ {NoTurn})

\* Mutant: the previous entry is replaced but not cancelled.
RegisterOver(t) ==
  /\ pc[t] = "register"
  /\ entry' = t
  /\ Goto(t, "start")
  /\ UNCHANGED <<mutex, generation, gen, cancelled, inboxVars, turnVars,
                 sessionVars, ghostVars>>

\* setCancelFunc: whatever is registered is cancelled and replaced.
Register(t) ==
  /\ pc[t] = "register"
  /\ CancelEntry
  /\ entry' = t
  /\ Goto(t, "start")
  /\ UNCHANGED <<mutex, generation, gen, inboxVars, turnVars, sessionVars,
                 ghostVars>>

-----------------------------------------------------------------------------
(* The turn that resumes interrupted work: no mutex, no claim.              *)

ScheduleResume ==
  /\ pc[Boot] = "boot"
  /\ entry = NoTurn
  /\ entry' = Boot
  /\ Goto(Boot, "look")
  /\ UNCHANGED <<mutex, generation, gen, cancelled, inboxVars, turnVars,
                 sessionVars, ghostVars>>

ResumeInterruptedTask ==
  /\ pc[Boot] = "look"
  /\ Goto(Boot, IF resume = NoTurn THEN "release" ELSE "start")
  /\ UNCHANGED <<mutex, generation, gen, entry, cancelled, inboxVars, turnVars,
                 sessionVars, ghostVars>>

-----------------------------------------------------------------------------
(* ProcessPrompt and sendToLLM, up to the loop of the agent.                *)

\* Steps of a turn leave the handlers' and the reset's state alone.
KeepHandlers == UNCHANGED <<mutex, generation, gen, entry, cancelled, ghostVars>>

SyncModel(t) ==
  /\ pc[t] = "start"
  /\ Goto(t, "prompt")
  /\ UNCHANGED <<inboxVars, turnVars, sessionVars>> /\ KeepHandlers

SyncModelFails(t) ==
  /\ pc[t] = "start"
  /\ outcome' = [outcome EXCEPT ![t] = "error"]
  /\ Goto(t, "release")
  /\ UNCHANGED <<inboxVars, steer, fresh, mirrored, more, rounds, sessionVars>>
  /\ KeepHandlers

SetResumePrompt(t) ==
  /\ pc[t] = "prompt"
  /\ resume' = t
  /\ Goto(t, "record")
  /\ UNCHANGED <<inboxVars, turnVars, recorded, lastPrompt>> /\ KeepHandlers

\* AddUserMessage, and the compaction that may put its own messages after it.
AddPrompt(t) ==
  /\ pc[t] = "record"
  /\ recorded' = [recorded EXCEPT ![t] = @ + 1]
  /\ lastPrompt' \in {t, NoTurn}
  /\ Goto(t, "enter")
  /\ UNCHANGED <<inboxVars, turnVars, resume>> /\ KeepHandlers

\* The agent's session is seeded from the history.  The agent adds the prompt
\* again unless it is the last message there.
Enter(t) ==
  /\ pc[t] = "enter" /\ t \notin cancelled
  /\ fresh' = [fresh EXCEPT ![t] = IF lastPrompt = t THEN {} ELSE {t}]
  /\ more' = [more EXCEPT ![t] = TRUE]
  /\ Goto(t, "drain")
  /\ UNCHANGED <<inboxVars, steer, mirrored, rounds, outcome, sessionVars>>
  /\ KeepHandlers

\* ctx.Err() at the entry of the agent and at the head of every iteration.
StopCancelled(t) ==
  /\ pc[t] \in {"enter", "check"} /\ t \in cancelled
  /\ outcome' = [outcome EXCEPT ![t] = "cancel"]
  /\ Goto(t, "sync")
  /\ UNCHANGED <<inboxVars, steer, fresh, mirrored, more, rounds, sessionVars>>
  /\ KeepHandlers

-----------------------------------------------------------------------------
(* The loop of the agent (runTurn, runInnerLoop).                           *)

\* Mutant: Drain forgets the promoted copy.
DrainUnmarked(t) ==
  /\ steer' = [steer EXCEPT ![t] = pending]
  /\ pending' = {}
  /\ UNCHANGED promoted

\* drainSteering: the texts move to the turn and are marked as promoted.
DrainInto(t) ==
  /\ steer' = [steer EXCEPT ![t] = pending]
  /\ promoted' = promoted \cup pending
  /\ pending' = {}

\* At the end of an iteration, and before the first one.
Drain(t) ==
  /\ pc[t] = "drain"
  /\ DrainInto(t)
  /\ Goto(t, IF more[t] \/ pending # {} THEN "check" ELSE "final")
  /\ UNCHANGED <<fresh, mirrored, more, rounds, outcome, sessionVars>>
  /\ KeepHandlers

\* Mutant: an iteration is not counted.
IterateUncounted(t) ==
  /\ pc[t] = "check" /\ t \notin cancelled
  /\ rounds[t] < MaxRounds
  /\ fresh' = [fresh EXCEPT ![t] = @ \cup steer[t]]
  /\ steer' = [steer EXCEPT ![t] = {}]
  /\ Goto(t, "stream")
  /\ UNCHANGED <<inboxVars, mirrored, more, rounds, outcome, sessionVars>>
  /\ KeepHandlers

\* Next iteration: the texts drained before join the agent's session.
Iterate(t) ==
  /\ pc[t] = "check" /\ t \notin cancelled
  /\ rounds[t] < MaxRounds
  /\ rounds' = [rounds EXCEPT ![t] = @ + 1]
  /\ fresh' = [fresh EXCEPT ![t] = @ \cup steer[t]]
  /\ steer' = [steer EXCEPT ![t] = {}]
  /\ Goto(t, "stream")
  /\ UNCHANGED <<inboxVars, mirrored, more, outcome, sessionVars>>
  /\ KeepHandlers

\* finishAtIterationLimit: the texts just drained do not join.
IterationLimit(t) ==
  /\ pc[t] = "check" /\ t \notin cancelled
  /\ rounds[t] = MaxRounds
  /\ outcome' = [outcome EXCEPT ![t] = "ok"]
  /\ Goto(t, "sync")
  /\ UNCHANGED <<inboxVars, steer, fresh, mirrored, more, rounds, sessionVars>>
  /\ KeepHandlers

StreamFails(t) ==
  /\ pc[t] = "stream"
  /\ \E how \in {"error"} \cup (IF t \in cancelled THEN {"cancel"} ELSE {}) :
        outcome' = [outcome EXCEPT ![t] = how]
  /\ Goto(t, "sync")
  /\ UNCHANGED <<inboxVars, steer, fresh, mirrored, more, rounds, sessionVars>>
  /\ KeepHandlers

\* A malformed call is retried without a drain (retryRequested); a truncated
\* text or a batch of duplicate calls continues after one.
StreamAgain(t) ==
  /\ pc[t] = "stream"
  /\ more' = [more EXCEPT ![t] = TRUE]
  /\ \E next \in {"check", "drain"} : Goto(t, next)
  /\ UNCHANGED <<inboxVars, steer, fresh, mirrored, rounds, outcome, sessionVars>>
  /\ KeepHandlers

StreamAnswers(t) ==
  /\ pc[t] = "stream"
  /\ more' = [more EXCEPT ![t] = FALSE]
  /\ Goto(t, "drain")
  /\ UNCHANGED <<inboxVars, steer, fresh, mirrored, rounds, outcome, sessionVars>>
  /\ KeepHandlers

\* The user messages msgs are appended to the persistent history.
Record(msgs) == recorded' = [i \in Text |-> recorded[i] + IF i \in msgs THEN 1 ELSE 0]

\* turnMirror.sync
Mirror(t) ==
  /\ Record(fresh[t])
  /\ mirrored' = [mirrored EXCEPT ![t] = @ \cup fresh[t]]
  /\ fresh' = [fresh EXCEPT ![t] = {}]

\* Tools ran: the checkpoint mirrors the batch, then the loop drains.
StreamTools(t) ==
  /\ pc[t] = "stream"
  /\ Mirror(t)
  /\ lastPrompt' = NoTurn
  /\ more' = [more EXCEPT ![t] = TRUE]
  /\ Goto(t, "drain")
  /\ UNCHANGED <<inboxVars, steer, rounds, outcome, resume>> /\ KeepHandlers

\* runTurn after the inner loop: one drain, then another one when the turn has
\* been held for its background subagents; what either finds starts the loop again.
FinalDrain(t) ==
  /\ pc[t] \in {"final", "hold"}
  /\ DrainInto(t)
  /\ IF pending # {}
       THEN Goto(t, "check") /\ UNCHANGED outcome
       ELSE \E ends \in IF pc[t] = "hold" THEN {TRUE} ELSE BOOLEAN :
              IF ends
                THEN Goto(t, "sync") /\ outcome' = [outcome EXCEPT ![t] = "ok"]
                ELSE Goto(t, "hold") /\ UNCHANGED outcome
  /\ more' = [more EXCEPT ![t] = TRUE]
  /\ UNCHANGED <<fresh, mirrored, rounds, sessionVars>>
  /\ KeepHandlers

-----------------------------------------------------------------------------
(* The end of sendToLLM and of ProcessPrompt.                               *)

FinalSync(t) ==
  /\ pc[t] = "sync"
  /\ Mirror(t)
  /\ lastPrompt' \in (IF fresh[t] = {} THEN {lastPrompt} ELSE {}) \cup {NoTurn}
  /\ Goto(t, IF outcome[t] = "cancel" THEN "release" ELSE "take")
  /\ UNCHANGED <<inboxVars, steer, more, rounds, outcome, resume>>
  /\ KeepHandlers

\* Mutant: everything promoted is appended, mirrored or not.
TakePromotedAgain(t) ==
  /\ pc[t] = "take"
  /\ Record(promoted)
  /\ promoted' = {} /\ lastPrompt' = NoTurn
  /\ Goto(t, IF outcome[t] = "ok" THEN "clear" ELSE "release")
  /\ UNCHANGED <<pending, turnVars, resume>> /\ KeepHandlers

\* Mutant: a turn that failed drops what it had been steered.
TakePromotedOnSuccess(t) ==
  /\ pc[t] = "take"
  /\ Record(IF outcome[t] = "ok" THEN promoted \ mirrored[t] ELSE {})
  /\ promoted' = {} /\ lastPrompt' = NoTurn
  /\ Goto(t, IF outcome[t] = "ok" THEN "clear" ELSE "release")
  /\ UNCHANGED <<pending, turnVars, resume>> /\ KeepHandlers

\* What was drained but not mirrored by this turn goes to the history now.
TakePromoted(t) ==
  LET late == promoted \ mirrored[t] IN
  /\ pc[t] = "take"
  /\ Record(late)
  /\ promoted' = {}
  /\ lastPrompt' = IF late = {} THEN lastPrompt ELSE NoTurn
  /\ Goto(t, IF outcome[t] = "ok" THEN "clear" ELSE "release")
  /\ UNCHANGED <<pending, turnVars, resume>> /\ KeepHandlers

ClearResumePrompt(t) ==
  /\ pc[t] = "clear"
  /\ resume' = NoTurn
  /\ Goto(t, "release")
  /\ UNCHANGED <<inboxVars, turnVars, recorded, lastPrompt>> /\ KeepHandlers

\* Mutant: a turn deletes whatever entry it finds.
ReleaseAnyEntry(t) ==
  /\ pc[t] = "release"
  /\ entry' = NoTurn
  /\ mutex' = IF t = Boot THEN mutex ELSE NoTurn
  /\ Goto(t, "done")
  /\ UNCHANGED <<generation, gen, cancelled, turnVars, inboxVars, sessionVars,
                 ghostVars>>

\* The deferred calls.  clearCancelFunc compares pointers: setCancelFunc stored
\* an entry of its own, so only the resuming turn finds its entry in the map.
Release(t) ==
  /\ pc[t] = "release"
  /\ entry' = IF t = Boot /\ entry = Boot THEN NoTurn ELSE entry
  /\ mutex' = IF t = Boot THEN mutex ELSE NoTurn
  /\ steer' = [steer EXCEPT ![t] = {}]
  /\ fresh' = [fresh EXCEPT ![t] = {}]
  /\ mirrored' = [mirrored EXCEPT ![t] = {}]
  /\ more' = [more EXCEPT ![t] = FALSE]
  /\ rounds' = [rounds EXCEPT ![t] = 0]
  /\ Goto(t, "done")
  /\ UNCHANGED <<generation, gen, cancelled, outcome, inboxVars, sessionVars,
                 ghostVars>>

-----------------------------------------------------------------------------
(* /clear and /newsession (handleNewSession), without the mutex.            *)

CancelActiveRequest(r) ==
  /\ pc[r] = "cancelActive"
  /\ CancelEntry
  /\ entry' = NoTurn
  /\ stale' = {t \in Turn : pc[t] \notin {"idle", "boot"} \cup Ended}
  /\ Goto(r, "clearInput")
  /\ UNCHANGED <<mutex, generation, gen, inboxVars, turnVars, sessionVars,
                 crashes, discarded>>

ClearInput(r) ==
  /\ pc[r] = "clearInput"
  /\ pending' = {} /\ promoted' = {}
  /\ discarded' = discarded \cup pending \cup promoted
  /\ Goto(r, "wipe")
  /\ UNCHANGED <<mutex, generation, gen, entry, cancelled, turnVars, sessionVars,
                 crashes, stale>>

\* ClearPeerSession: Session.Reset, which clears the inbox once more.
ClearPeerSession(r) ==
  /\ pc[r] = "wipe"
  /\ recorded' = [i \in Text |-> 0]
  /\ resume' = NoTurn /\ lastPrompt' = NoTurn
  /\ pending' = {} /\ promoted' = {}
  /\ discarded' = discarded \cup pending \cup promoted
                    \cup {i \in Text : recorded[i] > 0}
  /\ Goto(r, "bump")
  /\ UNCHANGED <<mutex, generation, gen, entry, cancelled, turnVars, crashes,
                 stale>>

BumpPeerGeneration(r) ==
  /\ pc[r] = "bump"
  /\ generation' = generation + 1
  /\ Goto(r, "done")
  /\ UNCHANGED <<mutex, gen, entry, cancelled, inboxVars, turnVars, sessionVars,
                 ghostVars>>

-----------------------------------------------------------------------------
(* A crash loses everything but the persistent session.                     *)

Crash ==
  /\ Accepting /\ crashes < MaxCrashes
  /\ crashes' = crashes + 1
  /\ pc' = [p \in Proc |->
       CASE p = Boot -> "boot"
         [] p # Boot /\ pc[p] \in {"idle"} \cup Ended -> pc[p]
         [] OTHER -> "lost"]
  /\ mutex' = NoTurn /\ entry' = NoTurn /\ cancelled' = {}
  /\ generation' = 0 /\ gen' = [t \in Turn |-> 0]
  /\ pending' = {} /\ promoted' = {}
  /\ steer' = [t \in Turn |-> {}]
  /\ fresh' = [t \in Turn |-> {}]
  /\ mirrored' = [t \in Turn |-> {}]
  /\ more' = [t \in Turn |-> FALSE]
  /\ rounds' = [t \in Turn |-> 0]
  /\ outcome' = [t \in Turn |-> "none"]
  /\ discarded' = discarded \cup pending \cup promoted
  /\ stale' = {}
  /\ UNCHANGED sessionVars

-----------------------------------------------------------------------------
Arrive ==
  \/ \E m \in Texts : LaunchText(m) \/ SaturatedText(m)
  \/ \E c \in Commands : LaunchCommand(c) \/ SaturatedCommand(c)
  \/ \E n \in Notes : Notify(n)

HandlerStep(t) ==
  \/ BeginWait(t) \/ Acquire(t) \/ SameGeneration(t) \/ DropStale(t)
  \/ Claim(t) \/ DropPromoted(t) \/ Register(t)

BootStep == ScheduleResume \/ ResumeInterruptedTask

StreamStep(t) ==
  StreamFails(t) \/ StreamAgain(t) \/ StreamAnswers(t) \/ StreamTools(t)

TurnStep(t) ==
  \/ SyncModel(t) \/ SyncModelFails(t) \/ SetResumePrompt(t) \/ AddPrompt(t)
  \/ Enter(t) \/ StopCancelled(t)
  \/ Drain(t) \/ Iterate(t) \/ IterationLimit(t) \/ StreamStep(t) \/ FinalDrain(t)
  \/ FinalSync(t) \/ TakePromoted(t) \/ ClearResumePrompt(t) \/ Release(t)

ResetStep(r) ==
  \/ CancelActiveRequest(r) \/ ClearInput(r) \/ ClearPeerSession(r)
  \/ BumpPeerGeneration(r)

Next ==
  \/ Arrive
  \/ \E t \in Texts \cup Pins : HandlerStep(t)
  \/ BootStep
  \/ \E t \in Turn : TurnStep(t)
  \/ \E r \in Resets : ResetStep(r)
  \/ Crash

Spec == Init /\ [][Next]_vars

\* Every goroutine keeps running, and sync.Mutex does not starve a waiter for
\* ever.  Messages need not arrive and the process need not crash.
Fairness ==
  /\ WF_vars(BootStep)
  /\ \A t \in Texts \cup Pins : WF_vars(HandlerStep(t)) /\ SF_vars(Acquire(t))
  /\ \A t \in Turn : WF_vars(TurnStep(t))
  /\ \A r \in Resets : WF_vars(ResetStep(r))

FairSpec == Spec /\ Fairness

-----------------------------------------------------------------------------
(* Properties.                                                              *)

\* Every variable stays in the set of values its code can give it.
TypeOK ==
  /\ pc \in [Proc -> PC]
  /\ mutex \in Turn \cup {NoTurn} /\ entry \in Turn \cup {NoTurn}
  /\ generation \in Nat /\ gen \in [Turn -> Nat]
  /\ cancelled \subseteq Turn
  /\ pending \subseteq Input /\ promoted \subseteq Input
  /\ steer \in [Turn -> SUBSET Input]
  /\ fresh \in [Turn -> SUBSET Text] /\ mirrored \in [Turn -> SUBSET Text]
  /\ more \in [Turn -> BOOLEAN] /\ rounds \in [Turn -> 0..MaxRounds]
  /\ outcome \in [Turn -> {"none", "ok", "error", "cancel"}]
  /\ resume \in Turn \cup {NoTurn} /\ lastPrompt \in Turn \cup {NoTurn}
  /\ recorded \in [Text -> Nat]
  /\ crashes \in 0..MaxCrashes
  /\ discarded \subseteq Text /\ stale \subseteq Turn

\* The processing mutex is with the one handler that runs a turn or is about to,
\* and no handler that has ended, however it ended, has kept it.
HandlersSerialised ==
  \A t \in Texts \cup Pins : mutex = t <=> pc[t] \in Holding \cup Working

\* At most one turn of the peer runs with a context nobody has cancelled: the
\* resuming turn takes no mutex, so cancelFuncs alone must keep it apart from
\* the handlers' turns.
OneLiveTurn == \A s, t \in Turn : Live(s) /\ Live(t) => s = t

\* Text i is in the hands of a turn other than the one it starts itself.
Steered(i) == \E t \in Turn : i \in steer[t] \/ (t # i /\ i \in fresh[t])

\* A text whose handler got past Claim is not also steered into a running turn:
\* the user would be answered twice.
ClaimedOrSteered ==
  \A m \in Texts :
    pc[m] \in {"register"} \cup Working => m \notin pending \cup promoted /\ ~Steered(m)

\* Whatever has been admitted and is not run by its own handler is waiting in
\* the inbox, is promoted, is in the history, or was thrown away by a reset or
\* a crash.  So "already promoted into running turn" is never said of a text
\* nobody has.
AdmittedIsAccountedFor ==
  \A i \in Input :
    pc[i] \in {"admitted", "queued", "locked", "claim", "promoted", "inbox"}
      => i \in pending \cup promoted \cup discarded \/ recorded[i] > 0

\* A reset leaves no live turn behind the moment it cancels the active request:
\* every turn that runs is the registered one.
ResetCancelsLiveTurn ==
  [][\A r \in Resets : CancelActiveRequest(r) => \A t \in Turn : ~Live(t)']_vars

\* A text that other turns were given is in the history once, however the
\* checkpoints, the last sync and TakePromoted share the work.  (Of a peer
\* whose turns nobody cancels.)
SteeredOnce ==
  \A i \in Input : pc[i] \in {"promoted", "inbox"} => recorded[i] <= 1

\* From SetResumePrompt until the turn itself clears it, a live turn has left a
\* resume prompt behind: a crash in between can be resumed.
ResumeCoversTurn ==
  \A t \in Turn :
    Live(t) /\ pc[t] \notin {"look", "start", "prompt", "release"} => resume # NoTurn

\* A message that had arrived when a reset began runs no turn in the session
\* the reset leaves.  Not so in the code when the reset falls between its check of
\* the generation and its entry in cancelFuncs.
StaleTurnsCancelled ==
  \A t \in stale : (\A r \in Resets : pc[r] \notin Resetting) => ~Live(t)

\* No text of a turn that a reset cancelled is in the history after the reset.  Not so
\* in the code: the cancelled turn mirrors its messages after the reset as well.
ClearedHistoryStaysClear ==
  (\A r \in Resets : pc[r] \notin Resetting)
    => \A t \in stale \cap cancelled : recorded[t] = 0

\* Every handler and the resuming turn come to an end, whoever holds the mutex,
\* cancels or resets.
HandlersFinish ==
  \A p \in Handler \cup {Boot} : pc[p] \notin {"idle"} \cup Ended ~> pc[p] \in Ended

\* A text whose handler waits ends in the history, by its own turn or by one
\* that was steered, unless its own turn could not even start.
AdmittedIsRecorded ==
  \A m \in Texts :
    pc[m] = "admitted" ~> recorded[m] > 0 \/ outcome[m] = "error"

=============================================================================
