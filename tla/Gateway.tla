------------------------------- MODULE Gateway -------------------------------
(***************************************************************************)
(* The restarter (cmd/vk-gateway-restarter): a process that starts the     *)
(* agent, builds it anew and stops it.  Three of its goroutines handle the *)
(* agent's process under one mutex: main starts it once, the monitor obeys *)
(* the signal files that the agent writes, and the listener reads the same *)
(* messages as the agent does and obeys those that the agent cannot read.  *)
(* Neither looks at what the other is at.                                  *)
(***************************************************************************)
EXTENDS Integers, Sequences, SequencesExt, FiniteSets, FiniteSetsExt

CONSTANTS Pids,         \* process numbers, reused when a process is gone
          MaxCommands,  \* bound: messages of the user
          MaxPending    \* bound: messages that wait to be read

NoPid == 0

Workers == {"main", "monitor", "listener"}

Requests == {"restart", "update", "branch"}   \* each has a signal file
Commands == Requests \cup {"stop", "model"}   \* "model" is /r <alias>

VARIABLES sent,     \* how many commands the user has sent
          toHost,   \* messages that the restarter has yet to read
          toAgent,  \* messages that the agent has yet to read
          files,    \* the signal files that exist
          cmd,      \* agentProc.cmd: the process that the restarter knows
          alive,    \* agent processes
          fresh,    \* those made from the binary that is there now
          at, job,  \* where each goroutine is, and at what
          phase,    \* the restarter: "up", "stopped", "cancelled" or "exited"
          refused,  \* history: the last start of a process failed
          entries,  \* models.json: "whole", or "bare" when the models have no fields left
          holder    \* what the agent's process has read of it

vars == <<sent, toHost, toAgent, files, cmd, alive, fresh, at, job, phase, refused, entries, holder>>

user    == <<sent, toHost, toAgent>>
process == <<cmd, alive, fresh, refused, holder>>

Init == /\ sent = 0 /\ toHost = <<>> /\ toAgent = <<>> /\ files = {}
        /\ cmd = NoPid /\ alive = {} /\ fresh = {}
        /\ at = [w \in Workers |-> IF w = "main" THEN "start" ELSE "idle"]
        /\ job = [w \in Workers |-> "restart"]
        /\ phase = "up" /\ refused = FALSE /\ entries = "whole" /\ holder = "whole"

\* isRunning: an agent that has exited still counts until its Wait has returned.
Running == cmd # NoPid

Up == phase # "exited"

Move(w, to) == at' = [at EXCEPT ![w] = to]

Take(w, what) == Move(w, "stop") /\ job' = [job EXCEPT ![w] = what]

-----------------------------------------------------------------------------
(* The user and the agent.                                                  *)

\* A message reaches the restarter, and the agent if one is there to read it.
Send(c) == /\ sent < MaxCommands /\ Len(toHost) < MaxPending
           /\ sent' = sent + 1
           /\ toHost' = Append(toHost, c)
           /\ \/ alive # {} /\ toAgent' = Append(toAgent, c)
              \/ UNCHANGED toAgent  \* none is there, or it has not asked VK yet
           /\ UNCHANGED <<files, process, at, job, phase, entries>>

\* The agent writes a signal file, or switches the model: the file gets what the
\* process holds.  To it, /stop is no command of its own.
AgentReads ==
  /\ alive # {} /\ toAgent # <<>>
  /\ toAgent' = Tail(toAgent)
  /\ files' = IF Head(toAgent) \in Requests THEN files \cup {Head(toAgent)} ELSE files
  /\ entries' = IF Head(toAgent) = "model" THEN holder ELSE entries
  /\ UNCHANGED <<sent, toHost, process, at, job, phase>>

AgentExits(p) == /\ p \in alive
                 /\ alive' = alive \ {p} /\ toAgent' = <<>>
                 /\ UNCHANGED <<sent, toHost, files, cmd, fresh, at, job, phase, refused, entries, holder>>

\* The goroutine that start leaves behind returns from Wait.
Noticed == /\ Up /\ Running /\ cmd \notin alive
           /\ cmd' = NoPid
           /\ UNCHANGED <<user, files, alive, fresh, at, job, phase, refused, entries, holder>>

-----------------------------------------------------------------------------
(* agentProc.  Each holds the mutex from its beginning to its end.          *)

Kill == /\ alive' = alive \ {cmd}
        /\ toAgent' = IF cmd \in alive THEN <<>> ELSE toAgent

StartOverIt ==  \* Mutant: start does not kill.
  /\ toAgent' = <<>> /\ Pids \ alive # {}
  /\ LET p == Min(Pids \ alive)
     IN cmd' = p /\ alive' = alive \cup {p} /\ fresh' = fresh \cup {p}
  /\ refused' = FALSE /\ holder' = entries

\* start kills what it finds first.
StartProcess ==
  LET left == alive \ {cmd}
      p    == Min(Pids \ left)
  IN /\ toAgent' = <<>>
     /\ \/ /\ cmd' = p /\ alive' = left \cup {p} /\ fresh' = (fresh \ {cmd}) \cup {p}
           /\ refused' = FALSE /\ holder' = entries
        \/ cmd' = NoPid /\ alive' = left /\ refused' = TRUE /\ UNCHANGED <<fresh, holder>>

Stop(w) ==
  /\ Up /\ at[w] = "stop"
  /\ Kill /\ cmd' = NoPid
  /\ Move(w, CASE w = "listener" /\ job[w] = "stop" -> "idle" [] job[w] = "restart" -> "start" [] OTHER -> "pull")
  /\ UNCHANGED <<sent, toHost, files, fresh, job, phase, refused, entries, holder>>

PullOrStay(w) ==  \* Mutant: a failure is reported, and that is all.
  /\ Up /\ at[w] = "pull"
  /\ \E to \in {"build", "idle"} : Move(w, to)
  /\ UNCHANGED <<user, files, process, job, phase, entries>>

\* git pull, or fetch, checkout and pull: whatever fails, the agent that was
\* there is started again.
Pull(w) ==
  /\ Up /\ at[w] = "pull"
  /\ \E to \in {"build", "start"} : Move(w, to)
  /\ UNCHANGED <<user, files, process, job, phase, entries>>

Build(w) ==
  /\ Up /\ at[w] = "build"
  /\ Move(w, "start")
  /\ \/ fresh' = {}         \* a new binary
     \/ UNCHANGED fresh     \* the build failed
  /\ UNCHANGED <<user, files, cmd, alive, job, phase, refused, entries, holder>>

Start(w) ==
  /\ Up /\ at[w] = "start"
  /\ StartProcess
  /\ Move(w, "idle")
  /\ UNCHANGED <<sent, toHost, files, job, phase, entries>>

-----------------------------------------------------------------------------
(* monitorAgent: at a tick the first file that is there is removed and obeyed. *)

FirstFile(set) == CHOOSE f \in set : \/ f = "restart"
                                     \/ f = "update" /\ "restart" \notin set
                                     \/ set = {"branch"}

Tick == /\ Up /\ phase # "cancelled" /\ at["monitor"] = "idle" /\ files # {}
        /\ files' = files \ {FirstFile(files)}
        /\ Take("monitor", FirstFile(files))
        /\ UNCHANGED <<user, process, phase, entries>>

-----------------------------------------------------------------------------
(* runVKListener.                                                           *)

\* handleModelSwitch: the type it reads the file into knows no field of a model.
SwitchModel == entries' = "bare"

\* While an agent runs the listener leaves the requests to it.
Listen ==
  /\ Up /\ phase # "cancelled" /\ at["listener"] = "idle" /\ toHost # <<>>
  /\ toHost' = Tail(toHost)
  /\ LET c == Head(toHost)
     IN /\ IF (c \in Requests /\ ~Running) \/ (c = "stop" /\ Running)
             THEN Take("listener", c) ELSE UNCHANGED <<at, job>>
        /\ IF c = "model" THEN SwitchModel ELSE UNCHANGED entries
  /\ UNCHANGED <<sent, toAgent, files, process, phase>>

\* An error of the long poll: it begins anew, after the messages there are now.
PollAnew ==
  /\ Up /\ phase # "cancelled" /\ at["listener"] = "idle" /\ toHost # <<>>
  /\ toHost' = <<>>
  /\ UNCHANGED <<sent, toAgent, files, process, at, job, phase, entries>>

-----------------------------------------------------------------------------
(* SIGINT or SIGTERM: stop the agent, cancel the others' context, return.   *)

Shutdown ==
  /\ \/ phase = "up" /\ phase' = "stopped" /\ Kill /\ cmd' = NoPid
     \/ phase = "stopped" /\ phase' = "cancelled" /\ UNCHANGED <<toAgent, cmd, alive>>
     \/ phase = "cancelled" /\ phase' = "exited" /\ UNCHANGED <<toAgent, cmd, alive>>
  /\ UNCHANGED <<sent, toHost, files, fresh, at, job, refused, entries, holder>>

-----------------------------------------------------------------------------
Work(w) == Stop(w) \/ Pull(w) \/ Build(w) \/ Start(w)

Next == \/ \E c \in Commands : Send(c)
        \/ AgentReads \/ Noticed \/ Tick \/ Listen \/ PollAnew \/ Shutdown
        \/ \E p \in Pids : AgentExits(p)
        \/ \E w \in Workers : Work(w)

\* The goroutines of the restarter go on; the user, the agent, the network and
\* the one who ends the restarter need not.
Fairness == /\ WF_vars(Tick) /\ WF_vars(Listen) /\ WF_vars(Noticed)
            /\ \A w \in Workers : WF_vars(Work(w))

Spec == Init /\ [][Next]_vars

FairSpec == Spec /\ Fairness

-----------------------------------------------------------------------------
(* Properties.                                                              *)

\* There is one agent at most, and it is the one that the restarter can stop,
\* however the monitor, the listener, main and the end of the restarter overlap.
OneAgent == alive \subseteq {cmd}

\* When nobody is at work, the agent that runs is the binary of the last build,
\* also when two updates overlapped.
RunsWhatWasBuilt == (\A w \in Workers : at[w] = "idle") /\ cmd \in alive => cmd \in fresh

\* There is one agent at most, of the last build.
OneBuiltAgent == OneAgent /\ RunsWhatWasBuilt

\* Whoever stops the agent to update it brings it back, whatever fails on the
\* way, unless the start itself fails or the restarter ends.
AgentReturns ==
  \A w \in Workers : at[w] = "pull" ~> alive # {} \/ refused \/ phase # "up"

\* A request that the agent has written down is taken up, also when the agent is
\* gone before that.
SignalsServed == \A f \in Requests : f \in files ~> f \notin files \/ phase # "up"

\* Switching the model leaves the models in models.json as they were.
SwitchKeepsModels == entries = "whole"
=============================================================================
