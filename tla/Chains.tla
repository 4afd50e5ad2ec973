------------------------------- MODULE Chains -------------------------------
(***************************************************************************)
(* The chains of agents of one peer and what the store keeps of them for   *)
(* the next start: RunAgent of the orchestrator (a task for a #target),    *)
(* the `task` tool by which an agent delegates, one subagent or a batch,   *)
(* the crash of the process, the resumption of the stored chain, and       *)
(* /clear.                                                                 *)
(*                                                                         *)
(* The table agent_sessions has a row per unfinished agent; the table      *)
(* active_agent_chain has ONE row per peer, written by every agent of the  *)
(* peer.  A call of the store is a step of its own, so a crash or another  *)
(* agent may come between any two of them.                                 *)
(***************************************************************************)
EXTENDS Naturals, Sequences, SequencesExt, FiniteSets, Functions

CONSTANTS MaxAgents,   \* agents ever created, refused members of batches included
          MaxDepth,    \* SubAgentTool.MaxDepth
          MaxCrashes,  \* crashes of the process
          MaxClears,   \* /clear and /newsession commands
          Overlap,     \* may a task begin while another agent still works?
          None         \* no agent

ASSUME BoundsAssumption == /\ {MaxAgents, MaxDepth, MaxCrashes, MaxClears} \subseteq Nat
                           /\ Overlap \in BOOLEAN
                           /\ None \notin Nat

Ids == 1 .. MaxAgents

VARIABLES rows,     \* agent_sessions: id -> the row of an unfinished agent
          chain,    \* active_agent_chain of the peer
          agents,   \* the goroutines: id -> the agent that works now
          created,  \* how many agents were created
          resume,   \* resumeChain: the chain it read and the place it is at
          clearing, \* the step /clear is at
          crashes, clears, \* how often each happened
          batched,  \* ids of agents that were members of a batch
          returned, \* ids of agents whose result went to whoever waits for it
          cleared,  \* ids whose rows /clear deleted
          left      \* ids whose rows were left to the next start

vars == <<rows, chain, agents, created, resume, clearing, crashes, clears,
          batched, returned, cleared, left>>

history == <<batched, returned, cleared, left>>

(***************************************************************************)
(* An agent at work.  path is the chain it was stored under, tool the      *)
(* Chain of its own `task` tool: the tool keeps what its last spawn made   *)
(* of it.  todo counts the members of a batch that still have to start.    *)
(***************************************************************************)
Agent(kind, parent, path, depth, pc) ==
  [kind |-> kind, parent |-> parent, path |-> path, tool |-> path,
   depth |-> depth, pc |-> pc, todo |-> 0]

Children(a) == {c \in DOMAIN agents : agents[c].parent = a /\ agents[c].kind = "child"}

Idle(a) == /\ agents[a].pc = "works"
           /\ agents[a].todo = 0 \/ created = MaxAgents
           /\ Children(a) = {}

\* The function f, but e at x.
Put(f, x, e) == [y \in DOMAIN f \cup {x} |-> IF y = x THEN e ELSE f[y]]

NotResuming == [phase |-> "idle", at |-> 0, read |-> <<>>]

Quiet == DOMAIN agents = {} /\ resume = NotResuming /\ clearing = "no"

Prefix(s, n) == SubSeq(s, 1, n)

At(a, pc) == a \in DOMAIN agents /\ agents[a].pc = pc

Goto(a, pc) == [agents EXCEPT ![a].pc = pc]

Gone(a) == Restrict(agents, DOMAIN agents \ {a})

----------------------------------------------------------------------------
(* The store                                                               *)

SaveRow(id, parent) ==
  rows' = Put(rows, id, [parent |-> parent, status |-> "active"])

MarkRow(id) ==  \* Mutant: CompleteAgentSession instead, which a resumption does not read.
  rows' = [r \in DOMAIN rows |-> IF r = id THEN [rows[r] EXCEPT !.status = "cancelled"]
                                           ELSE rows[r]]

DeleteRow(id) == rows' = Restrict(rows, DOMAIN rows \ {id})

SaveChain(ids) == chain' = ids

----------------------------------------------------------------------------
(* RunAgent: the root of a chain                                           *)

\* makeSubAgent and registerAgentContext
StartRoot ==
  /\ created < MaxAgents
  /\ Overlap \/ Quiet
  /\ created' = created + 1
  /\ agents' = Put(agents, created', Agent("root", None, <<created'>>, 0, "creates"))
  /\ UNCHANGED <<rows, chain, resume, clearing, crashes, clears, history>>

\* the path a spawn of agent p stores its child under
ChildPath(p, c) == Append(agents[p].tool, c)

\* SaveAgentSession of beginRootSession and of createAgent
StoreRow(a) ==
  /\ At(a, "creates")
  /\ SaveRow(a, agents[a].parent)
  /\ agents' = Goto(a, "chains")
  /\ UNCHANGED <<chain, created, resume, clearing, crashes, clears, history>>

\* SaveAgentChain of beginRootSession and of createAgent
StoreChain(a) ==
  /\ At(a, "chains")
  /\ SaveChain(agents[a].path)
  /\ agents' = Goto(a, "works")
  /\ UNCHANGED <<rows, created, resume, clearing, crashes, clears, history>>

\* ProcessMessage returns an answer.  The root's row is deleted by
\* endRootSession, a child's by completeAgentSession, a resumed agent's by
\* resumeChain.
Finish(a) ==
  /\ a \in DOMAIN agents /\ Idle(a)
  /\ DeleteRow(a)
  /\ returned' = returned \cup {a}
  /\ agents' = Goto(a, "pops")
  /\ UNCHANGED <<chain, created, resume, clearing, crashes, clears,
                 batched, cleared, left>>

\* ProcessMessage returns an error, or the context was cancelled: a child
\* is forgotten (cancelAgentSession), and so is a resumed agent; the root
\* keeps its row and its chain (handleAgentFailure)
Fail(a) ==
  /\ a \in DOMAIN agents /\ Idle(a)
  /\ IF agents[a].kind = "root"
     THEN /\ agents' = Gone(a)
          /\ left' = left \cup {a}
          /\ UNCHANGED rows
     ELSE /\ agents' = Goto(a, IF agents[a].kind = "child" THEN "pops" ELSE "aborts")
          /\ DeleteRow(a)
          /\ UNCHANGED left
  /\ UNCHANGED <<chain, created, resume, clearing, crashes, clears,
                 batched, returned, cleared>>

PopAll(a) == <<>>  \* Mutant: a child ends the chain as a root does.

\* popChain for a child, SaveAgentChain(nil) for a root
PopTo(a) == IF agents[a].kind = "root" THEN <<>> ELSE Front(agents[a].path)

Pop(a) ==
  /\ At(a, "pops") /\ agents[a].kind # "resumed"
  /\ SaveChain(PopTo(a))
  /\ agents' = Gone(a)
  /\ UNCHANGED <<rows, created, resume, clearing, crashes, clears, history>>

----------------------------------------------------------------------------
(* The `task` tool                                                         *)

\* a single task: createAgent leaves the longer chain in the tool
Spawn(p) ==
  /\ p \in DOMAIN agents /\ Idle(p)
  /\ agents[p].depth < MaxDepth
  /\ created < MaxAgents
  /\ created' = created + 1
  /\ agents' = LET path == ChildPath(p, created')
               IN Put([agents EXCEPT ![p].tool = path], created',
                      Agent("child", p, path, agents[p].depth + 1, "creates"))
  /\ UNCHANGED <<rows, chain, resume, clearing, crashes, clears, history>>

\* a batch of two: every member has its own copy of the tool
SpawnBatch(p) ==
  /\ p \in DOMAIN agents /\ Idle(p)
  /\ agents[p].depth < MaxDepth
  /\ created < MaxAgents
  /\ agents' = [agents EXCEPT ![p].todo = 2]
  /\ UNCHANGED <<rows, chain, created, resume, clearing, crashes, clears, history>>

StartSibling(p) ==
  /\ p \in DOMAIN agents /\ agents[p].todo > 0
  /\ created < MaxAgents
  /\ created' = created + 1
  /\ batched' = batched \cup {created'}
  /\ agents' = Put([agents EXCEPT ![p].todo = @ - 1], created',
                   Agent("child", p, ChildPath(p, created'), agents[p].depth + 1, "creates"))
  /\ UNCHANGED <<rows, chain, resume, clearing, crashes, clears,
                 returned, cleared, left>>

\* runSpawn of a member is refused before it creates anything: unknown name,
\* a subagent the parent may not use, no prompt file, no context length (it
\* takes a number all the same, so that refusals are bounded too)
RefuseSibling(p) ==
  /\ p \in DOMAIN agents /\ agents[p].todo > 0
  /\ created < MaxAgents
  /\ created' = created + 1
  /\ agents' = [agents EXCEPT ![p].todo = @ - 1]
  /\ UNCHANGED <<rows, chain, resume, clearing, crashes, clears, history>>

----------------------------------------------------------------------------
(* The crash of the process and resumeChain                                *)

Crash ==
  /\ crashes < MaxCrashes
  /\ crashes' = crashes + 1
  /\ agents' = Restrict(agents, {})
  /\ resume' = [phase |-> "due", at |-> 0, read |-> <<>>]
  /\ clearing' = "no"
  /\ UNCHANGED <<rows, chain, created, clears, history>>

\* ResumeActiveChainsForPeer reads the chain once, before it walks it
BeginResume ==
  /\ resume.phase = "due"
  /\ resume' = [phase |-> "walk", at |-> Len(chain), read |-> chain]
  /\ UNCHANGED <<rows, chain, agents, created, clearing, crashes, clears, history>>

\* a turn of the user holds the peer: spawnCancellableTurn refuses
SkipResume ==
  /\ resume.phase = "due"
  /\ resume' = NotResuming
  /\ left' = left \cup DOMAIN rows
  /\ UNCHANGED <<rows, chain, agents, created, clearing, crashes, clears,
                 batched, returned, cleared>>

Upto(n) == SubSeq(resume.read, 1, n)

NextInChain ==
  /\ resume.phase = "walk" /\ resume.at > 0
  /\ resume.read[resume.at] \notin DOMAIN agents

StopAtMissing ==  \* Mutant: a missing row is an error.
  /\ NextInChain
  /\ resume.read[resume.at] \notin DOMAIN rows
  /\ resume' = NotResuming
  /\ UNCHANGED <<rows, chain, agents, created, clearing, crashes, clears, history>>

\* the row is gone: the chain is cut and the walk goes on
ResumeMissing ==
  /\ NextInChain
  /\ resume.read[resume.at] \notin DOMAIN rows
  /\ SaveChain(Upto(resume.at - 1))
  /\ resume' = [resume EXCEPT !.at = @ - 1]
  /\ UNCHANGED <<rows, agents, created, clearing, crashes, clears, history>>

\* runResumedAgent: whatever the status of the row says
ResumeAgent ==
  /\ NextInChain
  /\ LET id == resume.read[resume.at]
     IN /\ id \in DOMAIN rows
        /\ agents' = Put(agents, id, Agent("resumed", rows[id].parent, Upto(resume.at), 0, "works"))
  /\ UNCHANGED <<rows, chain, created, resume, clearing, crashes, clears, history>>

\* its row is deleted: the chain is cut and the parent gets the result
PopResumed(a) ==
  /\ At(a, "pops") /\ agents[a].kind = "resumed"
  /\ SaveChain(Upto(resume.at - 1))
  /\ resume' = [resume EXCEPT !.at = @ - 1]
  /\ agents' = Gone(a)
  /\ UNCHANGED <<rows, created, clearing, crashes, clears, history>>

\* a resumed agent failed: its ancestors wait for the next start
AbortResume(a) ==
  /\ At(a, "aborts")
  /\ SaveChain(Upto(resume.at - 1))
  /\ resume' = NotResuming
  /\ agents' = Gone(a)
  /\ left' = left \cup DOMAIN rows
  /\ UNCHANGED <<rows, created, clearing, crashes, clears, batched, returned, cleared>>

EndResume ==
  /\ resume.phase = "walk" /\ resume.at = 0
  /\ resume' = NotResuming
  /\ UNCHANGED <<rows, chain, agents, created, clearing, crashes, clears, history>>

----------------------------------------------------------------------------
(* /clear: the contexts of the agents are cancelled (an agent may fail at  *)
(* any time anyway), ClearAgentChain, then ClearPeerData                   *)

ClearAgentChain ==
  /\ clearing = "no" /\ clears < MaxClears
  /\ clears' = clears + 1
  /\ clearing' = "rows"
  /\ rows' = [r \in DOMAIN rows |-> [rows[r] EXCEPT !.status = "cancelled"]]
  /\ SaveChain(<<>>)
  /\ UNCHANGED <<agents, created, resume, crashes, history>>

ClearPeerData ==
  /\ clearing = "rows"
  /\ clearing' = "no"
  /\ cleared' = cleared \cup DOMAIN rows
  /\ rows' = Restrict(rows, {})
  /\ SaveChain(<<>>)
  /\ UNCHANGED <<agents, created, resume, crashes, clears, batched, returned, left>>

----------------------------------------------------------------------------
Init ==
  /\ rows = [r \in {} |-> None] /\ chain = <<>>
  /\ agents = [a \in {} |-> None] /\ created = 0
  /\ resume = NotResuming /\ clearing = "no"
  /\ crashes = 0 /\ clears = 0
  /\ batched = {} /\ returned = {} /\ cleared = {} /\ left = {}

\* a step of the agent a that brings its end nearer
Progress(a) ==
  \/ StoreRow(a) \/ StoreChain(a)
  \/ Finish(a) \/ Fail(a)
  \/ Pop(a) \/ PopResumed(a) \/ AbortResume(a)
  \/ RefuseSibling(a)

ResumeStep == BeginResume \/ SkipResume \/ ResumeMissing \/ ResumeAgent \/ EndResume

Next ==
  \/ StartRoot
  \/ \E a \in Ids : Progress(a) \/ Spawn(a) \/ SpawnBatch(a) \/ StartSibling(a)
  \/ ResumeStep
  \/ Crash
  \/ ClearAgentChain \/ ClearPeerData

Spec == Init /\ [][Next]_vars

\* the model answers in the end, the store answers, the commands are handled
FairSpec == /\ Spec
            /\ \A a \in Ids : WF_vars(Progress(a))
            /\ WF_vars(ResumeStep)
            /\ WF_vars(ClearPeerData)

----------------------------------------------------------------------------
(* Properties                                                              *)

Row == [parent : Ids \cup {None}, status : {"active", "cancelled"}]

\* Types, and what the shape of the code promises: an agent is at work only
\* under its own id, and the walk of resumeChain stays inside what it read.
TypeOK ==
  /\ DOMAIN rows \subseteq 1 .. created
  /\ \A r \in DOMAIN rows : rows[r] \in Row
  /\ chain \in Seq(1 .. created)
  /\ DOMAIN agents \subseteq 1 .. created
  /\ \A a \in DOMAIN agents :
       /\ agents[a].path # <<>> /\ Last(agents[a].path) = a
       /\ agents[a].todo \in 0 .. 2 /\ agents[a].depth \in 0 .. MaxDepth
  /\ resume.phase \in {"idle", "due", "walk"}
  /\ resume.at \in 0 .. Len(resume.read)
  /\ clearing \in {"no", "rows"}

\* resumeChain hands the result of each agent to the next one it finds a row
\* for: in the stored chain that next one is its parent.
ResultGoesToParent ==
  \A i, j \in 1 .. Len(chain) :
    /\ i < j /\ {chain[i], chain[j]} \subseteq DOMAIN rows
    /\ \A k \in i + 1 .. j - 1 : chain[k] \notin DOMAIN rows
    => rows[chain[j]].parent = chain[i]

\* The ids under which an agent starts to work in a step.
Started == DOMAIN agents' \ DOMAIN agents

\* The next start finds every agent that works: it has a row and is in the
\* chain.  Members of a batch, and what they delegate, are lost to the chain
\* that their siblings write.
Solo(a) == Range(agents[a].path) \cap batched = {}

InFlightIsRecorded ==
  clearing = "no" =>
    \A a \in DOMAIN agents :
      At(a, "works") /\ Solo(a) /\ a \notin cleared
        => a \in DOMAIN rows /\ a \in Range(chain)

\* The stored chain is what a start needs: everyone who works is in it, and each before
\* the one it works for.
ChainDescribesWork == ResultGoesToParent /\ InFlightIsRecorded

\* Nothing that is over is ever run again, whatever stale ids the chains of the tools
\* keep: neither an agent that has given its result away, nor one that /clear deleted,
\* although those it interrupted write the chain again when they end.
OverStaysOver == [][Started \cap (returned \cup cleared) = {}]_vars

\* A task that the store knows does not wait for ever: it is finished, dropped
\* by /clear, or left to a later start by a failure.
Waits(r) == /\ r \in DOMAIN rows /\ rows[r].status = "active"
            /\ rows[r].parent = None

RootSettles ==
  \A r \in Ids : Waits(r) /\ r \in Range(chain) ~> ~Waits(r) \/ r \in left
=============================================================================
