------------------------------ MODULE Consent ------------------------------
(***************************************************************************)
(* What a tool call goes through before it runs (pkg/agent/tool_executor.go):*)
(* the permission gate, the path gate, the question to the user and its      *)
(* answer (main.go, pkg/tools/question_tool.go), the grant that the answer   *)
(* leaves in memory (pkg/access) and in the store, and the tool's own check. *)
(*                                                                          *)
(* A caller is whatever runs tools for a peer: its turn, or a background     *)
(* subagent, which asks under the same peer.  All callers share the map of   *)
(* pending questions and the working directory of the process.  /clear and   *)
(* /newsession run beside them, and the process may crash.                   *)
(*                                                                          *)
(* A path is a sequence of names.  Whether a command is critical and what    *)
(* the rules of an agent say of it are attributes of the call.               *)
(***************************************************************************)
EXTENDS Naturals, Sequences, FiniteSets, SequencesExt

CONSTANTS
  Peers, Callers,
  Settings,      \* what a run starts with: the peer of each caller, the calls made and a
                 \* bound on them, and one on resets, crashes and stops together
  Calls,         \* tool calls: [tool, paths, kind, verdict]
  Dirs,          \* the directories that exist
  Cwd,           \* working directory of the process
  Configured,    \* PeerID of the configuration: whose directory a start restores
  NewDirs,       \* directories given to /newsession
  None

Actions == {"allow", "ask", "deny"}
Paths == [rel : BOOLEAN, names : Seq(STRING)]

ASSUME CallsAssumption ==
  /\ Calls # {}
  /\ \A k \in Calls : /\ k.tool \in {"read", "edit", "bash"} /\ k.paths \in Seq(Paths)
                      /\ k.kind \in {"cd", "critical", "plain"} /\ k.verdict \in Actions
ASSUME SettingsAssumption ==
  Settings \subseteq [owner : [Callers -> Peers], made : SUBSET Calls,
                      calls : [Callers -> Nat], events : Nat]
ASSUME PeersAssumption == None \notin Callers /\ Configured \in Peers
ASSUME DirsAssumption ==
  /\ Dirs \subseteq Seq(STRING) /\ <<>> \in Dirs
  /\ Cwd \in Dirs /\ NewDirs \subseteq Dirs

VARIABLES
  setting,     \* one of Settings
  \* the callers
  pc, call,
  question,    \* the kind of question a caller asks
  reply,       \* what its question returned
  todo,        \* paths it is still to grant
  learned,     \* calls the permission adapter of its turn has approved
  cancelled,   \* callers whose context is cancelled
  \* tools
  registered,  \* pendingQuestions: the caller whose channel a peer's text goes to
  box,         \* the channel of each caller: empty, closed, or an answer
  workingDir,  \* tools.WorkingDir
  \* access.Controller, and the store
  allowed, grants, saved,
  home,        \* working directory of each peer's session
  \* /clear and /newsession
  reset,       \* how far each peer's has come
  target,      \* the directory it was given
  \* history
  asked,       \* questions the current call of each caller has put since its peer's grants were cleared
  consented,   \* paths each peer's user has allowed
  calls, events,
  clears       \* peers that have begun a reset

callerVars == <<pc, call, question, reply, todo, learned, cancelled>>
toolVars   == <<registered, box, workingDir>>
accessVars == <<allowed, grants, saved, home>>
resetVars  == <<reset, target>>
pastVars   == <<asked, consented, calls, events, clears>>
vars == <<setting, callerVars, toolVars, accessVars, resetVars, pastVars>>

owner == setting.owner

-----------------------------------------------------------------------------
(* Paths and rules.                                                         *)

From(dir, path) == IF path.rel THEN dir \o path.names ELSE path.names

Under(names, dirs) == \E d \in dirs : IsPrefix(d, names)

\* The deepest directory above a path that exists: what a grant grants.
Ancestor(names) ==
  CHOOSE d \in Dirs : /\ IsPrefix(d, names)
                      /\ \A e \in Dirs : IsPrefix(e, names) => IsPrefix(e, d)

\* A grant takes a path as it is, so that a relative one starts from the process.
Grant(path) == Ancestor(From(Cwd, path))

Mine(c) == allowed \cup grants[owner[c]]

\* FileToolPaths; a shell command has none.
FilePaths(k) == IF k.tool = "edit" THEN ToSet(k.paths) ELSE {}

\* resolvePath and PathsAllAllowed ask the controller about no peer.
AllAllowed(paths) == \A p \in paths : Under(From(workingDir, p), allowed)

Granted(c, k) == k.paths # <<>> /\ Under(From(workingDir, Head(k.paths)), Mine(c))

Verdict(c, k) == IF k \in learned[c] THEN "allow" ELSE k.verdict

\* checkPermissionAsk: what the permission gate says of call k of caller c.
Gate(c, k) ==
  CASE Granted(c, k) \/ k.tool = "read" -> "allow"
    [] k.tool = "bash" /\ k.kind = "cd" -> "allow"
    [] k.tool = "bash" /\ k.kind = "critical" -> "critical"
    [] Verdict(c, k) # "ask" -> Verdict(c, k)
    [] k.tool = "bash" -> IF AllAllowed(ToSet(k.paths)) THEN "allow" ELSE "shell"
    [] OTHER -> IF AllAllowed(FilePaths(k)) THEN "allow" ELSE "tool"

NoCall == CHOOSE k \in Calls : TRUE
Answers == {"allow", "always", "no"}
Allowing(kind) == IF kind \in {"tool", "shell"} THEN {"allow", "always"} ELSE {"allow"}

Resolved(paths) == [i \in DOMAIN paths |->
                      [rel |-> FALSE, names |-> From(workingDir, paths[i])]]

\* What a caller grants once its question is allowed.
ToGrant(c) ==
  CASE question[c] = "critical" -> <<>>
    [] question[c] = "tool" -> call[c].paths
    [] question[c] = "shell" -> Resolved(call[c].paths)
    [] question[c] = "path" -> todo[c]

-----------------------------------------------------------------------------
Idle == [c \in Callers |-> "idle"]

Init ==
  /\ setting \in Settings
  /\ pc = Idle /\ call = [c \in Callers |-> NoCall]
  /\ question = [c \in Callers |-> "tool"] /\ reply = [c \in Callers |-> "no"]
  /\ todo = [c \in Callers |-> <<>>] /\ learned = [c \in Callers |-> {}]
  /\ cancelled = {}
  /\ registered = [p \in Peers |-> None] /\ box = [c \in Callers |-> "empty"]
  /\ workingDir = Cwd /\ home = [p \in Peers |-> Cwd]
  /\ allowed = {Cwd} /\ grants = [p \in Peers |-> {}] /\ saved = [p \in Peers |-> {}]
  /\ reset = [p \in Peers |-> "none"] /\ target = [p \in Peers |-> Cwd]
  /\ asked = [c \in Callers |-> 0]
  /\ consented = [p \in Peers |-> {}]
  /\ calls = [c \in Callers |-> 0] /\ events = 0 /\ clears = {}

Goto(c, label) == pc' = [pc EXCEPT ![c] = label]

\* The caller has its result.
Return(c) ==
  /\ Goto(c, "idle")
  /\ call' = [call EXCEPT ![c] = NoCall] /\ question' = [question EXCEPT ![c] = "tool"]

-----------------------------------------------------------------------------
(* A call and its gates.                                                    *)

\* The request for the next round makes the session's directory the process's.
Round(c, k) ==
  /\ pc[c] = "idle" /\ calls[c] < setting.calls[c]
  /\ calls' = [calls EXCEPT ![c] = @ + 1]
  /\ call' = [call EXCEPT ![c] = k]
  /\ asked' = [asked EXCEPT ![c] = 0]
  /\ workingDir' = home[owner[c]]
  /\ Goto(c, "gate")
  /\ UNCHANGED <<setting, question, reply, todo, learned, cancelled, registered, box,
                 accessVars, resetVars, consented, events, clears>>

PermissionGate(c) ==
  /\ pc[c] = "gate"
  /\ LET gate == Gate(c, call[c]) IN
       \/ /\ gate = "allow" /\ Goto(c, "path") /\ UNCHANGED <<call, question>>
       \/ /\ gate = "deny" /\ Return(c)
       \/ /\ gate \in {"critical", "shell", "tool"}
          /\ IF c \in cancelled THEN Return(c)
             ELSE /\ question' = [question EXCEPT ![c] = gate]
                  /\ Goto(c, "ask") /\ UNCHANGED call
  /\ UNCHANGED <<setting, reply, todo, learned, cancelled, toolVars, accessVars,
                 resetVars, pastVars>>

PathGate(c) ==
  /\ pc[c] = "path"
  /\ \/ /\ \A p \in FilePaths(call[c]) : Under(From(workingDir, p), Mine(c))
        /\ Goto(c, "run") /\ UNCHANGED <<question, todo>>
     \/ /\ \E p \in FilePaths(call[c]) : ~Under(From(workingDir, p), Mine(c))
        /\ Goto(c, "ask") /\ question' = [question EXCEPT ![c] = "path"]
        /\ todo' = [todo EXCEPT ![c] = Resolved(call[c].paths)]
  /\ UNCHANGED <<setting, call, reply, learned, cancelled, toolVars, accessVars,
                 resetVars, pastVars>>

\* A tool that writes checks its path once more, without the peer's grants.
Execute(c) ==
  /\ pc[c] = "run"
  /\ Goto(c, IF AllAllowed(FilePaths(call[c])) THEN "ran" ELSE "refused")
  /\ UNCHANGED <<setting, call, question, reply, todo, learned, cancelled, toolVars,
                 accessVars, resetVars, pastVars>>

EndCall(c) ==
  /\ pc[c] \in {"ran", "refused"}
  /\ Return(c)
  /\ UNCHANGED <<setting, reply, todo, learned, cancelled, toolVars, accessVars,
                 resetVars, pastVars>>

\* The next turn has an adapter and a context of its own.
NextTurn(c) ==
  /\ pc[c] = "idle" /\ (c \in cancelled \/ learned[c] # {})
  /\ cancelled' = cancelled \ {c} /\ learned' = [learned EXCEPT ![c] = {}]
  /\ UNCHANGED <<setting, pc, call, question, reply, todo, toolVars, accessVars, resetVars,
                 pastVars>>

-----------------------------------------------------------------------------
(* A question: registered, sent, answered or closed, unregistered.          *)

Ask(c) ==
  /\ pc[c] = "ask"
  /\ registered' = [registered EXCEPT ![owner[c]] = c]
  /\ box' = [box EXCEPT ![c] = "empty"]
  /\ asked' = [asked EXCEPT ![c] = @ + 1]
  /\ Goto(c, "send")
  /\ UNCHANGED <<setting, call, question, reply, todo, learned, cancelled, workingDir,
                 accessVars, resetVars, consented, calls, events, clears>>

Send(c) ==
  /\ pc[c] = "send"
  /\ \/ Goto(c, "wait") /\ UNCHANGED reply
     \/ Goto(c, "leave") /\ reply' = [reply EXCEPT ![c] = "no"]
  /\ UNCHANGED <<setting, call, question, todo, learned, cancelled, toolVars, accessVars,
                 resetVars, pastVars>>

ReceiveAnswer(c) ==  \* Mutant: goes on waiting when the channel is closed.
  /\ pc[c] = "wait" /\ box[c] # "empty"
  /\ IF box[c] = "closed" THEN UNCHANGED <<reply, box, pc>>
     ELSE /\ reply' = [reply EXCEPT ![c] = box[c]] /\ box' = [box EXCEPT ![c] = "empty"]
          /\ Goto(c, "leave")
  /\ UNCHANGED <<setting, call, question, todo, learned, cancelled, registered, workingDir,
                 accessVars, resetVars, pastVars>>

Receive(c) ==
  /\ pc[c] = "wait" /\ box[c] # "empty"
  /\ reply' = [reply EXCEPT ![c] = IF box[c] = "closed" THEN "no" ELSE box[c]]
  /\ box' = [box EXCEPT ![c] = "empty"]
  /\ Goto(c, "leave")
  /\ UNCHANGED <<setting, call, question, todo, learned, cancelled, registered, workingDir,
                 accessVars, resetVars, pastVars>>

\* UnregisterPendingQuestion closes whatever channel is registered for the peer.
Unregister(p) ==
  /\ registered' = [registered EXCEPT ![p] = None]
  /\ box' = [c \in Callers |-> IF c = registered[p] THEN "closed" ELSE box[c]]

Leave(c) ==
  /\ pc[c] = "leave"
  /\ Unregister(owner[c])
  /\ \/ /\ reply[c] \in Allowing(question[c])
        /\ todo' = [todo EXCEPT ![c] = ToGrant(c)]
        /\ learned' = IF question[c] = "shell" /\ reply[c] = "always"
                      THEN [learned EXCEPT ![c] = @ \cup {call[c]}] ELSE learned
        /\ Goto(c, "grant") /\ UNCHANGED <<call, question>>
     \/ /\ reply[c] \notin Allowing(question[c])
        /\ todo' = [todo EXCEPT ![c] = <<>>]
        /\ Return(c) /\ UNCHANGED learned
  /\ reply' = [reply EXCEPT ![c] = "no"]
  /\ UNCHANGED <<setting, cancelled, workingDir, accessVars, resetVars, pastVars>>

GrantToConfigured(c) ==  \* Mutant: the peer of the configuration, not the one that answered.
  /\ pc[c] = "grant" /\ todo[c] # <<>>
  /\ grants' = [grants EXCEPT ![Configured] = @ \cup {Grant(Head(todo[c]))}]
  /\ Goto(c, "save")
  /\ UNCHANGED <<setting, call, question, reply, todo, learned, cancelled, toolVars, allowed,
                 saved, home, resetVars, pastVars>>

\* GrantPath: the controller first, then the store.
GrantInMemory(c) ==
  /\ pc[c] = "grant" /\ todo[c] # <<>>
  /\ grants' = [grants EXCEPT ![owner[c]] = @ \cup {Grant(Head(todo[c]))}]
  /\ Goto(c, "save")
  /\ UNCHANGED <<setting, call, question, reply, todo, learned, cancelled, toolVars, allowed,
                 saved, home, resetVars, pastVars>>

SaveGrant(c) ==
  /\ pc[c] = "save"
  /\ saved' = [saved EXCEPT ![owner[c]] = @ \cup {Head(todo[c])}]
  /\ todo' = [todo EXCEPT ![c] = Tail(@)]
  /\ Goto(c, "grant")
  /\ UNCHANGED <<setting, call, question, reply, learned, cancelled, toolVars, allowed,
                 grants, home, resetVars, pastVars>>

GrantsDone(c) ==
  /\ pc[c] = "grant" /\ todo[c] = <<>>
  /\ Goto(c, IF question[c] = "path" THEN "run" ELSE "path")
  /\ UNCHANGED <<setting, call, question, reply, todo, learned, cancelled, toolVars,
                 accessVars, resetVars, pastVars>>

-----------------------------------------------------------------------------
(* The user of a peer.                                                      *)

\* A text goes to the registered question, whichever the user has in mind.
Text(p, t) ==
  /\ registered[p] # None
  /\ LET c == registered[p]
         heard == IF t \in Allowing(question[c]) THEN ToSet(call[c].paths) ELSE {} IN
       /\ box' = [box EXCEPT ![c] = t]
       /\ consented' = [consented EXCEPT ![p] = @ \cup heard]
  /\ registered' = [registered EXCEPT ![p] = None]
  /\ UNCHANGED <<setting, callerVars, workingDir, accessVars, resetVars, asked, calls,
                 events, clears>>

\* /stop cancels the context; who waits for an answer goes on waiting.
Stop(c) ==
  /\ events < setting.events /\ pc[c] # "idle" /\ c \notin cancelled
  /\ cancelled' = cancelled \cup {c} /\ events' = events + 1
  /\ UNCHANGED <<setting, pc, call, question, reply, todo, learned, toolVars, accessVars,
                 resetVars, asked, consented, calls, clears>>

-----------------------------------------------------------------------------
(* /clear and /newsession, one at a time for each peer.                     *)

Resetting(p, from, to) == reset[p] = from /\ reset' = [reset EXCEPT ![p] = to]

\* Cancels the turn, not a background subagent; which of the two a caller is is open.
BeginReset(p, dir) ==
  /\ Resetting(p, "none", "question")
  /\ events < setting.events /\ events' = events + 1 /\ clears' = clears \cup {p}
  /\ target' = [target EXCEPT ![p] = dir]
  /\ \E turn \in SUBSET {c \in Callers : owner[c] = p /\ pc[c] # "idle"} :
       Cardinality(turn) <= 1 /\ cancelled' = cancelled \cup turn
  /\ UNCHANGED <<setting, pc, call, question, reply, todo, learned, toolVars, accessVars,
                 asked, consented, calls>>

ResetQuestion(p) ==
  /\ Resetting(p, "question", "memory")
  /\ Unregister(p)
  /\ UNCHANGED <<setting, callerVars, workingDir, accessVars, target, pastVars>>

ResetMemory(p) ==
  /\ Resetting(p, "memory", "store")
  /\ grants' = [grants EXCEPT ![p] = {}]
  /\ asked' = [c \in Callers |-> IF owner[c] = p THEN 0 ELSE asked[c]]
  /\ UNCHANGED <<setting, callerVars, toolVars, allowed, saved, home, target, consented,
                 calls, events, clears>>

ResetStore(p) ==
  /\ Resetting(p, "store", "dir")
  /\ saved' = [saved EXCEPT ![p] = {}]
  /\ UNCHANGED <<setting, callerVars, toolVars, allowed, grants, home, target, pastVars>>

\* The directory is allowed to every peer, and becomes the one of the process.
ResetDir(p) ==
  /\ Resetting(p, "dir", "none")
  /\ allowed' = allowed \cup {target[p]}
  /\ home' = [home EXCEPT ![p] = target[p]]
  /\ workingDir' = target[p]
  /\ UNCHANGED <<setting, callerVars, registered, box, grants, saved, target, pastVars>>

-----------------------------------------------------------------------------
\* A start reads the grants, and the directory of the configured peer, from the store.
Crash ==
  /\ events < setting.events /\ events' = events + 1
  /\ pc' = Idle /\ call' = [c \in Callers |-> NoCall]
  /\ question' = [c \in Callers |-> "tool"] /\ reply' = [c \in Callers |-> "no"]
  /\ todo' = [c \in Callers |-> <<>>]
  /\ learned' = [c \in Callers |-> {}] /\ cancelled' = {}
  /\ registered' = [p \in Peers |-> None] /\ box' = [c \in Callers |-> "empty"]
  /\ reset' = [p \in Peers |-> "none"]
  /\ allowed' = {Cwd} /\ workingDir' = home[Configured]
  /\ grants' = [p \in Peers |-> {Grant(path) : path \in saved[p]}]
  /\ asked' = [c \in Callers |-> 0]
  /\ UNCHANGED <<setting, saved, home, target, consented, calls, clears>>

CallStep(c) ==
  \/ PermissionGate(c) \/ PathGate(c) \/ Execute(c) \/ EndCall(c)
  \/ Ask(c) \/ Send(c) \/ Receive(c) \/ Leave(c)
  \/ GrantInMemory(c) \/ SaveGrant(c) \/ GrantsDone(c)

ResetStep(p) == ResetQuestion(p) \/ ResetMemory(p) \/ ResetStore(p) \/ ResetDir(p)

\* The calls of the run are used up.
Rest ==
  /\ calls = setting.calls /\ pc = Idle /\ \A p \in Peers : reset[p] = "none"
  /\ UNCHANGED vars

Next ==
  \/ \E c \in Callers : CallStep(c) \/ NextTurn(c) \/ Stop(c) \/ \E k \in setting.made : Round(c, k)
  \/ \E p \in Peers : \/ \E t \in Answers : Text(p, t)
                      \/ \E dir \in NewDirs \cup {home[p]} : BeginReset(p, dir)
                      \/ ResetStep(p)
  \/ Crash \/ Rest

Spec == Init /\ [][Next]_vars

\* The steps of the program go on, and a user answers what is asked.
FairSpec ==
  /\ Spec
  /\ \A c \in Callers : WF_vars(CallStep(c))
  /\ \A p \in Peers : WF_vars(ResetStep(p)) /\ WF_vars(\E t \in Answers : Text(p, t))
-----------------------------------------------------------------------------
(* Properties.                                                              *)

\* The variables hold values of their kinds.
TypeOK ==
  /\ setting \in Settings
  /\ pc \in [Callers -> {"idle", "gate", "ask", "send", "wait", "leave", "grant", "save",
                         "path", "run", "ran", "refused"}]
  /\ call \in [Callers -> Calls]
  /\ question \in [Callers -> {"critical", "shell", "tool", "path"}]
  /\ reply \in [Callers -> Answers]
  /\ todo \in [Callers -> Seq(Paths)]
  /\ learned \in [Callers -> SUBSET Calls] /\ cancelled \subseteq Callers
  /\ registered \in [Peers -> Callers \cup {None}]
  /\ box \in [Callers -> {"empty", "closed"} \cup Answers]
  /\ workingDir \in Dirs /\ allowed \subseteq Dirs /\ home \in [Peers -> Dirs]
  /\ grants \in [Peers -> SUBSET Dirs] /\ saved \in [Peers -> SUBSET Paths]
  /\ reset \in [Peers -> {"none", "question", "memory", "store", "dir"}]
  /\ target \in [Peers -> Dirs]
  /\ consented \in [Peers -> SUBSET Paths]
  /\ asked \in [Callers -> Nat] /\ calls \in [Callers -> Nat] /\ events \in Nat /\ clears \subseteq Peers

\* A text of the peer still reaches whoever waits for one (handleQuestion,
\* RegisterPendingQuestion): no question is overwritten, deleted or closed under its
\* waiter without the waiter being told.  It holds of callers of different peers only: of
\* two callers of one peer the second question takes the place of the first.
WaitIsReachable ==
  \A c \in Callers : pc[c] = "wait" /\ box[c] = "empty" => registered[owner[c]] = c

\* Every directory granted to a peer, before or after a restart, is the one above a path
\* that the user of this peer allowed (GrantPath, main.go's loading of the grants).
GrantsComeFromOwner ==
  \A p \in Peers : \A g \in grants[p] :
    \E path \in consented[p], dir \in Dirs : g = Ancestor(From(dir, path))

\* A call never asks twice about an absolute path unless /clear took its grant away:
\* the grant of the permission gate satisfies the path gate.
AskedOnce ==
  \A c \in Callers :
    pc[c] # "idle" /\ asked[c] > 1 =>
      \E i \in DOMAIN call[c].paths : call[c].paths[i].rel

\* Until its first reset a restart brings back just the grants a peer has in memory, those
\* a caller is about to save aside (GrantPath, GetPermissions).
RestartKeepsGrants ==
  \A p \in Peers \ clears :
      grants[p] = {Grant(path) : path \in saved[p]}
                  \cup {Grant(Head(todo[c])) : c \in {d \in Callers : owner[d] = p
                                                             /\ pc[d] = "save"}}

\* An answer counts for the user who gave it, for as long as that user lets it: it grants
\* nothing to others, is not asked for again by the next gate, and survives a restart.
GrantsAsAnswered == GrantsComeFromOwner /\ AskedOnce /\ RestartKeepsGrants

\* When users answer, no caller waits for ever: neither an answer nor /clear is lost.
WaitEnds == \A c \in Callers : pc[c] = "wait" ~> pc[c] # "wait"
=============================================================================
