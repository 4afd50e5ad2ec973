---------------------------- MODULE Chains_proofs ----------------------------
(***************************************************************************)
(* Proofs about the chains of agents, for any numbers of agents, levels,    *)
(* crashes and /clear commands.  A chain is a sequence of increasing ids,   *)
(* so the proofs speak of the sets of ids that it, the paths of the agents  *)
(* and the chains of their tools consist of.                                *)
(***************************************************************************)
EXTENDS Chains, SequenceTheorems, TLAPS

Nodes == DOMAIN agents

Held == DOMAIN rows

\* What an agent was stored under, what its tool keeps, what the store has, and
\* what resumeChain has yet to walk.
P(a) == Range(agents[a].path)
T(a) == Range(agents[a].tool)
C    == Range(chain)
U    == Range(Upto(resume.at))

Increasing(s) == \A i, j \in DOMAIN s : i < j => s[i] < s[j]

\* Chains of ids that were given out.
Ups(n) == {s \in Seq(1 .. n) : Increasing(s)}

Places == {"creates", "chains", "works", "pops", "aborts"}

AgentRecords(n) ==
  [kind : {"root", "child", "resumed"}, parent : (1 .. n) \cup {None},
   path : Ups(n), tool : Ups(n),
   depth : 0 .. MaxDepth, pc : Places, todo : 0 .. 2]

StoreTypes ==
  /\ created \in 0 .. MaxAgents
  /\ Held \subseteq 1 .. created
  /\ \A r \in Held : rows[r] \in [parent : (1 .. created) \cup {None},
                                 status : {"active", "cancelled"}]
  /\ chain \in Ups(created)
  /\ clearing \in {"no", "rows"}

AgentTypes ==
  /\ Nodes \subseteq 1 .. created
  /\ \A a \in Nodes : /\ agents[a] \in AgentRecords(created)
                      /\ agents[a].path # <<>> /\ Last(agents[a].path) = a
                      /\ agents[a].todo > 0 => agents[a].depth < MaxDepth
                      /\ agents[a].pc = "aborts" => agents[a].kind = "resumed"

\* The agent that was resumed is where the walk is.
WalkTypes ==
  /\ resume \in [phase : {"idle", "due", "walk"}, at : Nat, read : Ups(created)]
  /\ resume.at <= Len(resume.read)
  /\ \A a \in Nodes : agents[a].kind = "resumed"
                        => resume.phase = "walk" /\ resume.at > 0 /\ a = resume.read[resume.at]

TypeInv == StoreTypes /\ AgentTypes /\ WalkTypes

-----------------------------------------------------------------------------
(* Nothing that is over starts again.                                       *)

Over == returned \cup cleared

OverInv == /\ Over \subseteq 1 .. created
           /\ Held \cap Over = {}
           /\ \A a \in Nodes : agents[a].pc = "creates" => a \notin Held \cup Over

-----------------------------------------------------------------------------
(* The agents at work.                                                      *)

IsChild(c, p) == agents[c].kind = "child" /\ agents[c].parent = p

\* A path ends with its agent and the tool goes on from it; a child's parent waits for it,
\* and what is no child is above everyone.
TreeInv ==
  \A a \in Nodes :
    /\ a \in P(a) /\ \A x \in P(a) : x <= a
    /\ P(a) \subseteq T(a) /\ \A x \in T(a) \ P(a) : x > a
    /\ agents[a].pc = "creates" => T(a) = P(a) /\ agents[a].kind # "resumed"
    /\ agents[a].kind = "root" => P(a) = {a}
    /\ agents[a].kind = "child" => /\ agents[a].parent \in Nodes \cap P(a)
                                   /\ agents[a].parent < a
                                   /\ agents[agents[a].parent].pc = "works"
    /\ agents[a].kind # "child" => \A x \in Nodes : a \in P(x)

\* Between an agent and one that is above it there is a child of the latter.
AboveInv ==
  \A a, x \in Nodes : x \in P(a) /\ x # a => \E c \in Nodes : IsChild(c, x) /\ c \in P(a)

\* What a tool keeps of agents at work, beyond its own agent's path, is its single child.
ToolInv ==
  \A p, x \in Nodes : x \in T(p) \ P(p) => IsChild(x, p) /\ x \notin batched /\ T(p) = P(x)

\* While members of a batch have to start, there are only members, and who started it waits
\* (or no number is left for them).
BatchInv ==
  \A p \in Nodes : agents[p].todo > 0 =>
    /\ agents[p].pc = "works" \/ created = MaxAgents
    /\ \A c \in Nodes : IsChild(c, p) => c \in batched

\* Whoever has no member of a batch above it is above or below everyone.
LineInv == \A s, a \in Nodes : P(s) \cap batched = {} => s \in P(a) \/ a \in P(s)

-----------------------------------------------------------------------------
(* The store.                                                               *)

\* Rows of agents at work.
RowInv ==
  \A a \in Nodes :
    /\ agents[a].pc = "creates" => a \notin Held \cup C \cup U
    /\ agents[a].pc \in {"chains", "works"} => a \in Held \cup cleared
    /\ agents[a].pc \in {"pops", "aborts"} => a \notin Held

\* Who is below a row has one, from its creation; before that its parent has.
AncestorInv ==
  \A a \in Nodes : \A z \in P(a) \ {a} :
    z \in Held => IF agents[a].pc = "creates"
                  THEN agents[a].parent \in Held /\ z <= agents[a].parent
                  ELSE agents[a].pc \in {"chains", "works"} => a \in Held

\* The sets of ids that a chain may consist of: below an agent at work only agents at work
\* have rows, they are below it, and the next row below a row is that of a child.
Good ==
  {S \in SUBSET Nat :
     \A x, y \in S : x < y =>
       /\ x \in Nodes /\ y \in Held => y \in Nodes
       /\ x \in Nodes /\ y \in Nodes => x \in P(y)
       /\ x \in Held /\ y \in Held /\ (\A z \in S \cap Held : z <= x \/ y <= z)
            => rows[y].parent = x}

GoodInv == {C, U} \subseteq Good /\ \A a \in Nodes : {P(a), T(a)} \subseteq Good

\* Where resumeChain is, and what it finds.
WalkInv ==
  /\ resume.phase # "walk" => resume.at = 0
  /\ resume.phase = "due" => Nodes = {}
  /\ \A a \in Nodes : agents[a].kind = "root" => resume.phase = "idle"
  /\ resume.phase = "walk" /\ Nodes # {}
       => /\ resume.at > 0 /\ resume.read[resume.at] \in Nodes
          /\ agents[resume.read[resume.at]].kind = "resumed"
  /\ resume.phase = "walk" /\ Nodes = {}
       => \/ chain = Upto(resume.at)
          \/ chain = <<>> /\ (clearing = "rows" \/ U \cap Held = {})

RecordInv ==
  clearing = "no" =>
    \A a \in Nodes : agents[a].pc = "works" /\ P(a) \cap batched = {} /\ a \notin cleared => a \in C

AgentsInv == /\ batched \subseteq 1 .. created
             /\ TreeInv /\ AboveInv /\ ToolInv /\ BatchInv /\ LineInv

StoreInv == RowInv /\ AncestorInv /\ GoodInv /\ RecordInv

IInv == TypeInv /\ AgentsInv /\ WalkInv /\ StoreInv

-----------------------------------------------------------------------------
(* Increasing sequences.                                                    *)

LEMMA EmptyIsUp == ASSUME NEW n \in Nat PROVE <<>> \in Ups(n) /\ Range(<<>>) = {}
<1>1. <<>> \in Seq(1 .. n) /\ DOMAIN <<>> = {}
  BY EmptySeq
<1> QED BY <1>1 DEF Ups, Increasing, Range

LEMMA OneIsUp == ASSUME NEW n \in Nat \ {0} PROVE <<n>> \in Ups(n) /\ Range(<<n>>) = {n}
BY DEF Ups, Increasing, Range

LEMMA UpsGrow == ASSUME NEW m \in Nat, NEW n \in Nat, m <= n PROVE Ups(m) \subseteq Ups(n)
<1>1. 1 .. m \subseteq 1 .. n
  OBVIOUS
<1> QED BY <1>1, SeqMonotonic DEF Ups

LEMMA UpRange ==
  ASSUME NEW n \in Nat, NEW s \in Ups(n)
  PROVE  /\ Range(s) \subseteq 1 .. n /\ Len(s) \in Nat /\ DOMAIN s = 1 .. Len(s)
         /\ s \in Seq(1 .. n) /\ \A i \in 1 .. Len(s) : s[i] \in 1 .. n /\ s[i] \in Range(s)
BY LenProperties DEF Ups, Range

LEMMA AppendIsUp ==
  ASSUME NEW n \in Nat, NEW s \in Ups(n)
  PROVE  Append(s, n + 1) \in Ups(n + 1) /\ Range(Append(s, n + 1)) = Range(s) \cup {n + 1}
<1> DEFINE t == Append(s, n + 1)
<1>1. s \in Seq(1 .. n + 1) /\ Len(s) \in Nat /\ DOMAIN s = 1 .. Len(s)
  BY UpRange, UpsGrow
<1>2. /\ t \in Seq(1 .. n + 1) /\ Len(t) = Len(s) + 1
      /\ \A i \in 1 .. Len(s) : t[i] = s[i]
      /\ t[Len(s) + 1] = n + 1
  BY <1>1, AppendProperties
<1>3. DOMAIN t = 1 .. Len(s) + 1
  BY <1>2, LenProperties
<1>4. Increasing(t)
  <2> SUFFICES ASSUME NEW i \in 1 .. Len(s) + 1, NEW j \in 1 .. Len(s) + 1, i < j
               PROVE  t[i] < t[j]
    BY <1>3 DEF Increasing
  <2>1. i \in 1 .. Len(s) /\ s[i] \in 1 .. n /\ t[i] = s[i]
    BY <1>1, <1>2, UpRange
  <2>2. CASE j = Len(s) + 1
    BY <2>1, <2>2, <1>2
  <2>3. CASE j \in 1 .. Len(s)
    BY <2>1, <2>3, <1>1, <1>2 DEF Ups, Increasing
  <2> QED BY <1>1, <2>2, <2>3
<1>5. Range(t) = Range(s) \cup {n + 1}
  BY <1>1, <1>2, <1>3 DEF Range
<1> QED BY <1>2, <1>4, <1>5 DEF Ups

\* A prefix of a chain is a chain, and consists of the smaller ids.
LEMMA PrefixIsUp ==
  ASSUME NEW n \in Nat, NEW s \in Ups(n), NEW k \in 0 .. Len(s)
  PROVE  /\ SubSeq(s, 1, k) \in Ups(n) /\ Range(SubSeq(s, 1, k)) = {s[i] : i \in 1 .. k}
         /\ Len(SubSeq(s, 1, k)) = k /\ \A i \in 1 .. k : SubSeq(s, 1, k)[i] = s[i]
<1> DEFINE t == SubSeq(s, 1, k)
<1>1. Len(s) \in Nat /\ DOMAIN s = 1 .. Len(s) /\ \A i \in 1 .. Len(s) : s[i] \in 1 .. n
  BY UpRange
<1>2. t \in Seq(1 .. n) /\ Len(t) = k /\ \A i \in 1 .. k : t[i] = s[i]
  BY <1>1, SubSeqProperties
<1>3. DOMAIN t = 1 .. k
  BY <1>2, LenProperties
<1> HIDE DEF t
<1>4. Increasing(t)
  BY <1>1, <1>2, <1>3 DEF Ups, Increasing
<1>5. Range(t) = {s[i] : i \in 1 .. k}
  BY <1>2, <1>3 DEF Range
<1> QED BY <1>2, <1>4, <1>5 DEF Ups, t

\* What is left of a chain when its last id is dropped.
LEMMA DropLast ==
  ASSUME NEW n \in Nat, NEW s \in Ups(n), NEW k \in 1 .. Len(s)
  PROVE  /\ Range(SubSeq(s, 1, k - 1)) = Range(SubSeq(s, 1, k)) \ {s[k]}
         /\ s[k] \in Range(SubSeq(s, 1, k))
         /\ \A x \in Range(SubSeq(s, 1, k)) : x <= s[k]
<1>1. Len(s) \in Nat /\ DOMAIN s = 1 .. Len(s) /\ \A i \in 1 .. Len(s) : s[i] \in 1 .. n
  BY UpRange
<1>2. \A i \in 1 .. k : i # k => s[i] < s[k]
  BY <1>1 DEF Ups, Increasing
<1>3. k - 1 \in 0 .. Len(s) /\ k \in 0 .. Len(s)
  BY <1>1
<1>4. /\ Range(SubSeq(s, 1, k)) = {s[i] : i \in 1 .. k}
      /\ Range(SubSeq(s, 1, k - 1)) = {s[i] : i \in 1 .. k - 1}
  BY <1>3, PrefixIsUp
<1>5. \A i \in 1 .. k - 1 : i \in 1 .. k /\ s[i] # s[k]
  BY <1>1, <1>2
<1>6. \A i \in 1 .. k : s[i] <= s[k]
  BY <1>1, <1>2
<1> QED BY <1>4, <1>5, <1>6

LEMMA FrontDrops ==
  ASSUME NEW n \in Nat, NEW s \in Ups(n), NEW a \in Range(s), \A x \in Range(s) : x <= a
  PROVE  Front(s) \in Ups(n) /\ Range(Front(s)) = Range(s) \ {a}
<1>1. Len(s) \in Nat /\ DOMAIN s = 1 .. Len(s) /\ \A i \in 1 .. Len(s) : s[i] \in 1 .. n /\ s[i] \in Range(s)
  BY UpRange
<1>2. PICK i \in 1 .. Len(s) : s[i] = a
  BY <1>1 DEF Range
<1>3. i = Len(s)
  <2>1. Len(s) \in 1 .. Len(s) /\ s[Len(s)] <= s[i]
    BY <1>1, <1>2
  <2>2. \A j \in 1 .. Len(s) : i < j => s[i] < s[j]
    BY <1>1 DEF Ups, Increasing
  <2>3. CASE i < Len(s)
    <3>1. s[i] < s[Len(s)]
      BY <2>1, <2>2, <2>3
    <3>2. s[Len(s)] \in Nat /\ s[i] \in Nat
      BY <1>1, <2>1
    <3> QED BY <2>1, <3>1, <3>2
  <2>4. i \in Int /\ Len(s) \in Int /\ i <= Len(s)
    BY <1>1
  <2> QED BY <2>3, <2>4
<1>4. SubSeq(s, 1, Len(s)) = s
  BY <1>1, SubSeqFull, UpRange
<1>5. Range(SubSeq(s, 1, Len(s) - 1)) = Range(s) \ {a}
  BY <1>2, <1>3, <1>4, DropLast
<1>6. Len(s) - 1 \in 0 .. Len(s)
  BY <1>1, <1>2
<1> QED BY <1>5, <1>6, PrefixIsUp DEF Front

-----------------------------------------------------------------------------
(* What the operators on the tables and the agents do.                      *)

\* What agents keep in a step that moves them or counts down their batch.
Kept(x) == /\ agents'[x].kind = agents[x].kind /\ agents'[x].parent = agents[x].parent
           /\ agents'[x].path = agents[x].path /\ agents'[x].depth = agents[x].depth

\* An agent goes to its next place; nothing else of it changes.
LEMMA Goes ==
  ASSUME TypeInv, NEW a \in Nodes, NEW to \in Places, agents' = Goto(a, to)
  PROVE  /\ Nodes' = Nodes
         /\ \A x \in Nodes : /\ agents'[x] \in AgentRecords(created) /\ Kept(x)
                            /\ agents'[x].tool = agents[x].tool
                            /\ agents'[x].todo = agents[x].todo
                            /\ agents'[x].pc = IF x = a THEN to ELSE agents[x].pc
<1>1. Nodes' = Nodes /\ \A x \in Nodes : agents'[x] = IF x = a THEN [agents[a] EXCEPT !.pc = to]
                                                               ELSE agents[x]
  BY DEF Goto, Nodes
<1>2. \A x \in Nodes : agents[x] \in AgentRecords(created)
  BY DEF TypeInv, AgentTypes
<1> QED BY <1>1, <1>2 DEF AgentRecords, Kept

\* So it is when the members of its batch that have yet to start are counted anew.
LEMMA Counts ==
  ASSUME TypeInv, NEW a \in Nodes, NEW n \in 0 .. 2, agents' = [agents EXCEPT ![a].todo = n]
  PROVE  /\ Nodes' = Nodes
         /\ \A x \in Nodes : /\ agents'[x] \in AgentRecords(created) /\ Kept(x)
                            /\ agents'[x].tool = agents[x].tool
                            /\ agents'[x].pc = agents[x].pc
                            /\ agents'[x].todo = IF x = a THEN n ELSE agents[x].todo
<1>1. Nodes' = Nodes /\ \A x \in Nodes : agents'[x] = IF x = a THEN [agents[a] EXCEPT !.todo = n]
                                                               ELSE agents[x]
  BY DEF Nodes
<1>2. \A x \in Nodes : agents[x] \in AgentRecords(created)
  BY DEF TypeInv, AgentTypes
<1> QED BY <1>1, <1>2 DEF AgentRecords, Kept

LEMMA Goners ==
  ASSUME NEW a, agents' = Gone(a)
  PROVE  Nodes' = Nodes \ {a} /\ \A x \in Nodes' : agents'[x] = agents[x]
BY DEF Gone, Restrict, Nodes

LEMMA Bounds == MaxAgents \in Nat /\ MaxDepth \in Nat /\ None \notin Nat
BY BoundsAssumption

LEMMA RecordsGrow ==
  ASSUME NEW m \in Nat, NEW n \in Nat, m <= n
  PROVE  AgentRecords(m) \subseteq AgentRecords(n)
<1>1. 1 .. m \subseteq 1 .. n /\ Ups(m) \subseteq Ups(n)
  BY UpsGrow
<1> QED BY <1>1 DEF AgentRecords

\* The new agent is below p and has the next number.
Child(p, c) == Agent("child", p, ChildPath(p, c), agents[p].depth + 1, "creates")

LEMMA ChildIs ==
  ASSUME TypeInv, NEW p \in Nodes, agents[p].depth < MaxDepth, created < MaxAgents
  PROVE  LET c == created + 1
         IN /\ c \in 1 .. MaxAgents /\ c \notin Nodes
            /\ ChildPath(p, c) \in Ups(c) /\ Range(ChildPath(p, c)) = T(p) \cup {c}
            /\ Child(p, c) \in AgentRecords(c)
            /\ ChildPath(p, c) # <<>> /\ Last(ChildPath(p, c)) = c
            /\ Child(p, c).kind = "child" /\ Child(p, c).parent = p
            /\ Child(p, c).path = ChildPath(p, c) /\ Child(p, c).tool = ChildPath(p, c)
            /\ Child(p, c).pc = "creates" /\ Child(p, c).todo = 0
<1> DEFINE c == created + 1
<1>1. c \in 1 .. MaxAgents /\ created \in Nat /\ c \notin Nodes /\ p \in 1 .. c
  <2>1. created \in 0 .. MaxAgents /\ Nodes \subseteq 1 .. created
    BY DEF TypeInv, StoreTypes, AgentTypes
  <2>2. p \in 1 .. created
    BY <2>1
  <2> QED BY <2>1, <2>2, Bounds
<1>2. agents[p] \in AgentRecords(created)
  BY DEF TypeInv, StoreTypes, AgentTypes
<1>3. agents[p].tool \in Ups(created) /\ agents[p].depth + 1 \in 0 .. MaxDepth
  BY <1>2, Bounds DEF AgentRecords
<1>4. ChildPath(p, c) \in Ups(c) /\ Range(ChildPath(p, c)) = T(p) \cup {c}
  BY <1>1, <1>3, AppendIsUp DEF ChildPath, T
<1>5. ChildPath(p, c) # <<>> /\ Last(ChildPath(p, c)) = c
  <2>1. agents[p].tool \in Seq(1 .. c) /\ c \in 1 .. c
    BY <1>1, <1>3, UpsGrow DEF Ups
  <2> QED BY <2>1, AppendProperties DEF ChildPath, Last
<1>6. Child(p, c) \in AgentRecords(c)
  BY <1>1, <1>3, <1>4 DEF Child, Agent, AgentRecords, Places
<1> QED BY <1>1, <1>4, <1>5, <1>6 DEF Child, Agent

LEMMA Spawns ==
  ASSUME TypeInv, NEW p, Spawn(p)
  PROVE  LET c == created + 1
         IN /\ p \in Nodes /\ Idle(p) /\ agents[p].todo = 0
            /\ Nodes' = Nodes \cup {c} /\ agents'[c] = Child(p, c)
            /\ \A x \in Nodes : /\ agents'[x] \in AgentRecords(c) /\ Kept(x)
                               /\ agents'[x].pc = agents[x].pc /\ agents'[x].todo = agents[x].todo
                               /\ agents'[x].tool = IF x = p THEN ChildPath(p, c) ELSE agents[x].tool
<1> DEFINE c == created + 1
           kept == [agents EXCEPT ![p].tool = ChildPath(p, c)]
<1>1. p \in Nodes /\ Idle(p) /\ agents[p].depth < MaxDepth /\ created < MaxAgents
  BY DEF Spawn, Nodes
<1>2. agents' = Put(kept, c, Child(p, c))
  BY DEF Spawn, Child
<1>3. DOMAIN kept = Nodes /\ \A x \in Nodes : kept[x] = IF x = p THEN [agents[p] EXCEPT !.tool = ChildPath(p, c)]
                                                                ELSE agents[x]
  BY <1>1 DEF Nodes
<1> HIDE DEF kept
<1>4. c \notin Nodes /\ ChildPath(p, c) \in Ups(c) /\ created \in Nat /\ created <= c /\ c \in Nat
  <2>1. created \in Nat
    BY Bounds DEF TypeInv, StoreTypes
  <2>2. c \notin Nodes /\ ChildPath(p, c) \in Ups(c)
    BY <1>1, ChildIs
  <2> QED BY <2>1, <2>2
<1>5. Nodes' = Nodes \cup {c} /\ agents'[c] = Child(p, c) /\ \A x \in Nodes : agents'[x] = kept[x]
  <2>1. /\ DOMAIN agents' = DOMAIN kept \cup {c} /\ agents'[c] = Child(p, c)
        /\ \A x \in DOMAIN kept : x # c => agents'[x] = kept[x]
    BY <1>2 DEF Put
  <2> QED BY <2>1, <1>3, <1>4 DEF Nodes
<1>6. \A x \in Nodes : agents[x] \in AgentRecords(created) /\ agents[x] \in AgentRecords(c)
  BY <1>4, RecordsGrow DEF TypeInv, StoreTypes, AgentTypes
<1>7. agents[p].todo = 0
  BY <1>1, <1>4 DEF Idle
<1> QED BY <1>1, <1>3, <1>4, <1>5, <1>6, <1>7 DEF Kept, AgentRecords

LEMMA Siblings ==
  ASSUME TypeInv, NEW p, StartSibling(p)
  PROVE  LET c == created + 1
         IN /\ p \in Nodes /\ agents[p].todo > 0
            /\ Nodes' = Nodes \cup {c} /\ agents'[c] = Child(p, c)
            /\ \A x \in Nodes : /\ agents'[x] \in AgentRecords(c) /\ Kept(x)
                               /\ agents'[x].pc = agents[x].pc /\ agents'[x].tool = agents[x].tool
                               /\ agents'[x].todo = IF x = p THEN agents[p].todo - 1 ELSE agents[x].todo
<1> DEFINE c == created + 1
           kept == [agents EXCEPT ![p].todo = @ - 1]
<1>1. p \in Nodes /\ agents[p].todo > 0 /\ created < MaxAgents /\ agents[p].depth < MaxDepth
  BY DEF StartSibling, Nodes, TypeInv, AgentTypes
<1>2. agents' = Put(kept, c, Child(p, c))
  BY DEF StartSibling, Child
<1>3. DOMAIN kept = Nodes /\ \A x \in Nodes : kept[x] = IF x = p THEN [agents[p] EXCEPT !.todo = agents[p].todo - 1]
                                                                ELSE agents[x]
  BY <1>1 DEF Nodes
<1> HIDE DEF kept
<1>4. c \notin Nodes /\ created \in Nat /\ created <= c /\ c \in Nat
  BY <1>1, ChildIs, Bounds DEF TypeInv, StoreTypes, AgentTypes
<1>5. Nodes' = Nodes \cup {c} /\ agents'[c] = Child(p, c) /\ \A x \in Nodes : agents'[x] = kept[x]
  <2>1. /\ DOMAIN agents' = DOMAIN kept \cup {c} /\ agents'[c] = Child(p, c)
        /\ \A x \in DOMAIN kept : x # c => agents'[x] = kept[x]
    BY <1>2 DEF Put
  <2> QED BY <2>1, <1>3, <1>4 DEF Nodes
<1>6. \A x \in Nodes : agents[x] \in AgentRecords(created) /\ agents[x] \in AgentRecords(c)
  BY <1>4, RecordsGrow DEF TypeInv, StoreTypes, AgentTypes
<1> QED BY <1>1, <1>3, <1>4, <1>5, <1>6 DEF Kept, AgentRecords

-----------------------------------------------------------------------------
(* Types.                                                                   *)

LEMMA UptoIs ==
  ASSUME WalkTypes, StoreTypes
  PROVE  /\ Upto(resume.at) \in Ups(created)
         /\ resume.at > 0 => Upto(resume.at) # <<>> /\ Last(Upto(resume.at)) = resume.read[resume.at]
         /\ resume.at > 0 => /\ Upto(resume.at - 1) \in Ups(created)
                             /\ Range(Upto(resume.at - 1)) = U \ {resume.read[resume.at]}
                             /\ resume.read[resume.at] \in U /\ U \subseteq 1 .. created
                             /\ \A x \in U : x <= resume.read[resume.at]
<1>1. created \in Nat /\ resume.read \in Ups(created) /\ resume.at \in Nat /\ resume.at <= Len(resume.read)
  BY Bounds DEF WalkTypes, StoreTypes
<1>2. Len(resume.read) \in Nat
  BY <1>1, UpRange
<1>3. resume.at \in 0 .. Len(resume.read) /\ (resume.at > 0 => resume.at - 1 \in 0 .. Len(resume.read)
                                                          /\ resume.at \in 1 .. Len(resume.read))
  BY <1>1, <1>2
<1>4. Upto(resume.at) \in Ups(created)
  BY <1>1, <1>3, PrefixIsUp DEF Upto
<1>5. U \subseteq 1 .. created
  BY <1>1, <1>4, UpRange DEF U
<1>6. resume.at > 0 => Upto(resume.at) # <<>> /\ Last(Upto(resume.at)) = resume.read[resume.at]
  <2>1. /\ Len(Upto(resume.at)) = resume.at
        /\ \A i \in 1 .. resume.at : Upto(resume.at)[i] = resume.read[i]
    BY <1>1, <1>3, PrefixIsUp DEF Upto
  <2> QED BY <1>1, <2>1, EmptySeq DEF Last
<1> QED BY <1>1, <1>3, <1>4, <1>5, <1>6, PrefixIsUp, DropLast DEF Upto, U

LEMMA StoreTypesNext == TypeInv /\ [Next]_vars => StoreTypes'
<1> SUFFICES ASSUME TypeInv, [Next]_vars PROVE StoreTypes'
  OBVIOUS
<1> USE DEF TypeInv, StoreTypes
<1>0. created \in Nat /\ created \in 0 .. MaxAgents
  BY Bounds
<1>1. ASSUME created < MaxAgents, created' = created + 1, UNCHANGED <<rows, chain, clearing>>
      PROVE  StoreTypes'
  <2>1. created' \in 0 .. MaxAgents /\ created' \in Nat /\ 1 .. created \subseteq 1 .. created'
    BY <1>0, <1>1, Bounds
  <2>2. Ups(created) \subseteq Ups(created')
    BY <1>0, <1>1, <2>1, UpsGrow
  <2> QED BY <1>1, <2>1, <2>2 DEF Held
<1>2. CASE UNCHANGED <<created, rows, chain, clearing>>
  BY <1>2 DEF Held
<1>3. ASSUME NEW a \in Ids, StoreRow(a) PROVE StoreTypes'
  <2>1. a \in Nodes /\ a \in 1 .. created /\ agents[a].parent \in (1 .. created) \cup {None}
    BY <1>3 DEF StoreRow, At, Nodes, AgentTypes, AgentRecords
  <2>2. /\ Held' = Held \cup {a} /\ rows'[a] = [parent |-> agents[a].parent, status |-> "active"]
        /\ \A r \in Held : r # a => rows'[r] = rows[r]
    BY <1>3 DEF StoreRow, SaveRow, Held, Put
  <2> QED BY <1>3, <2>1, <2>2 DEF StoreRow
<1>4. ASSUME NEW x, DeleteRow(x), UNCHANGED <<created, chain, clearing>> PROVE StoreTypes'
  BY <1>4 DEF DeleteRow, Restrict, Held
<1>5. ASSUME chain' \in Ups(created), UNCHANGED <<created, rows, clearing>> PROVE StoreTypes'
  BY <1>5 DEF Held
<1>6. ASSUME NEW a \in Ids, StoreChain(a) PROVE StoreTypes'
  <2>1. agents[a].path \in Ups(created)
    BY <1>6 DEF StoreChain, At, Nodes, AgentTypes, AgentRecords
  <2> QED BY <1>5, <1>6, <2>1 DEF StoreChain, SaveChain
<1>7. ASSUME NEW a \in Ids, Pop(a) PROVE StoreTypes'
  <2>1. /\ agents[a].path \in Ups(created) /\ agents[a].path # <<>> /\ Last(agents[a].path) = a
        /\ a \in Nodes
    BY <1>7 DEF Pop, At, Nodes, AgentTypes, AgentRecords
  <2>2. Front(agents[a].path) \in Ups(created)
    <3>1. Len(agents[a].path) \in Nat /\ Len(agents[a].path) # 0
      BY <1>0, <2>1, EmptySeq, UpRange
    <3>2. Len(agents[a].path) - 1 \in 0 .. Len(agents[a].path)
      BY <3>1
    <3> QED BY <1>0, <2>1, <3>2, PrefixIsUp DEF Front
  <2> QED BY <1>0, <1>5, <1>7, <2>2, EmptyIsUp DEF Pop, SaveChain, PopTo
<1>8. ASSUME NEW a \in Ids, PopResumed(a) \/ AbortResume(a) PROVE StoreTypes'
  <2>1. agents[a].kind = "resumed" /\ a \in Nodes
    BY <1>8 DEF PopResumed, AbortResume, At, Nodes, AgentTypes
  <2>2. resume.at > 0
    BY <2>1 DEF WalkTypes
  <2> QED BY <1>5, <1>8, <2>2, UptoIs DEF PopResumed, AbortResume, SaveChain
<1>9. CASE ResumeMissing
  BY <1>5, <1>9, UptoIs DEF ResumeMissing, NextInChain, SaveChain
<1>10. CASE ClearAgentChain
  BY <1>10, <1>0, EmptyIsUp DEF ClearAgentChain, SaveChain, Held
<1>11. CASE ClearPeerData
  BY <1>11, <1>0, EmptyIsUp DEF ClearPeerData, SaveChain, Held, Restrict
<1>12. ASSUME NEW a \in Ids, Progress(a) \/ Spawn(a) \/ SpawnBatch(a) \/ StartSibling(a)
       PROVE  StoreTypes'
  <2>1. CASE Finish(a)
    BY <2>1, <1>4 DEF Finish
  <2>2. CASE Fail(a)
    BY <2>2, <1>2, <1>4 DEF Fail
  <2>3. CASE RefuseSibling(a) \/ Spawn(a) \/ StartSibling(a)
    BY <2>3, <1>1 DEF RefuseSibling, Spawn, StartSibling
  <2>4. CASE SpawnBatch(a)
    BY <2>4, <1>2 DEF SpawnBatch
  <2> QED BY <1>12, <1>3, <1>6, <1>7, <1>8, <2>1, <2>2, <2>3, <2>4 DEF Progress
<1>13. CASE StartRoot
  BY <1>13, <1>1 DEF StartRoot
<1>14. CASE ResumeStep
  BY <1>14, <1>2, <1>9 DEF ResumeStep, BeginResume, SkipResume, ResumeAgent, EndResume
<1>15. CASE Crash
  BY <1>15, <1>0, <1>5 DEF Crash, Held
<1>16. CASE UNCHANGED vars
  BY <1>16, <1>2 DEF vars
<1> QED BY <1>10, <1>11, <1>12, <1>13, <1>14, <1>15, <1>16 DEF Next

LEMMA AgentTypesNext == TypeInv /\ [Next]_vars => AgentTypes'
<1> SUFFICES ASSUME TypeInv, [Next]_vars PROVE AgentTypes'
  OBVIOUS
<1>0. created \in Nat /\ created \in 0 .. MaxAgents
  BY Bounds DEF TypeInv, StoreTypes
<1> DEFINE Typed(r, a, n) == /\ r \in AgentRecords(n) /\ r.path # <<>> /\ Last(r.path) = a
                             /\ r.todo > 0 => r.depth < MaxDepth
                             /\ r.pc = "aborts" => r.kind = "resumed"
<1>a. AgentTypes' = (Nodes' \subseteq 1 .. created' /\ \A a \in Nodes' : Typed(agents'[a], a, created'))
  BY DEF AgentTypes
<1>b. Nodes \subseteq 1 .. created /\ \A a \in Nodes : Typed(agents[a], a, created)
  BY DEF TypeInv, AgentTypes
<1>1. CASE UNCHANGED <<agents, created>>
  BY <1>1 DEF TypeInv, AgentTypes, Nodes
<1>2. ASSUME NEW a \in Nodes, NEW to \in Places, agents' = Goto(a, to), created' = created,
             to = "aborts" => agents[a].kind = "resumed"
      PROVE  AgentTypes'
  <2>1. ASSUME NEW x \in Nodes PROVE Typed(agents'[x], x, created)
    BY <1>2, <1>b, Goes DEF Kept
  <2>2. Nodes' = Nodes
    BY <1>2, Goes
  <2> QED BY <1>2, <1>a, <1>b, <2>1, <2>2
<1>3. ASSUME NEW a, agents' = Gone(a), created' = created PROVE AgentTypes'
  BY <1>3, <1>a, <1>b, Goners
<1>4. ASSUME agents' = Restrict(agents, {}) PROVE AgentTypes'
  BY <1>4, <1>a DEF Restrict, Nodes
<1>5. ASSUME NEW c, c = created + 1, created' = c,
             Nodes' = Nodes \cup {c}, Typed(agents'[c], c, c),
             \A x \in Nodes : Kept(x) /\ agents'[x] \in AgentRecords(c) /\ agents'[x].pc = agents[x].pc
                             /\ agents'[x].todo <= agents[x].todo
      PROVE  AgentTypes'
  <2>1. ASSUME NEW x \in Nodes PROVE Typed(agents'[x], x, c)
    <3>1. agents[x].todo \in Nat /\ agents'[x].todo \in Nat
      BY <1>5, <1>b DEF AgentRecords
    <3> QED BY <1>5, <1>b, <3>1 DEF Kept
  <2>2. 1 .. created \subseteq 1 .. c /\ c \in 1 .. c
    BY <1>0, <1>5
  <2> QED BY <1>5, <1>a, <1>b, <2>1, <2>2
<1>6. ASSUME NEW p \in Nodes, NEW n \in 0 .. 2, agents' = [agents EXCEPT ![p].todo = n],
             created' \in {created, created + 1}, n > 0 => agents[p].depth < MaxDepth
      PROVE  AgentTypes'
  <2>1. AgentRecords(created) \subseteq AgentRecords(created')
    BY <1>0, <1>6, RecordsGrow
  <2>0. /\ Nodes' = Nodes
        /\ \A x \in Nodes : /\ agents'[x] \in AgentRecords(created) /\ Kept(x)
                           /\ agents'[x].pc = agents[x].pc
                           /\ agents'[x].todo = IF x = p THEN n ELSE agents[x].todo
    BY <1>6, Counts
  <2>2. ASSUME NEW x \in Nodes PROVE Typed(agents'[x], x, created')
    BY <1>6, <1>b, <2>0, <2>1 DEF Kept
  <2>3. 1 .. created \subseteq 1 .. created'
    BY <1>0, <1>6
  <2> QED BY <1>a, <1>b, <2>0, <2>2, <2>3
<1>7. ASSUME NEW p \in Ids, Spawn(p) PROVE AgentTypes'
  <2>1. p \in Nodes /\ agents[p].depth < MaxDepth /\ created < MaxAgents /\ created' = created + 1
    BY <1>7 DEF Spawn, Nodes
  <2>2. Typed(agents'[created + 1], created + 1, created + 1)
    <3>1. agents'[created + 1] = Child(p, created + 1)
      BY <1>7, Spawns
    <3> QED BY <2>1, <3>1, ChildIs
  <2>3. ASSUME NEW x \in Nodes
        PROVE  agents'[x].todo <= agents[x].todo
    <3>1. agents'[x].todo = agents[x].todo /\ agents[x].todo \in Nat
      BY <1>7, <1>b, Spawns DEF AgentRecords
    <3> QED BY <3>1
  <2> QED BY <1>5, <1>7, <2>1, <2>2, <2>3, Spawns
<1>8. ASSUME NEW p \in Ids, StartSibling(p) PROVE AgentTypes'
  <2>1. p \in Nodes /\ agents[p].todo > 0 /\ created < MaxAgents /\ created' = created + 1
    BY <1>8 DEF StartSibling, Nodes
  <2>2. agents[p].depth < MaxDepth
    BY <2>1, <1>b
  <2>3. Typed(agents'[created + 1], created + 1, created + 1)
    <3>1. agents'[created + 1] = Child(p, created + 1)
      BY <1>8, Siblings
    <3> QED BY <2>1, <2>2, <3>1, ChildIs
  <2>4. ASSUME NEW x \in Nodes
        PROVE  agents'[x].todo <= agents[x].todo
    <3>1. agents[x].todo \in Nat /\ agents'[x].todo = IF x = p THEN agents[p].todo - 1 ELSE agents[x].todo
      BY <1>8, <1>b, Siblings DEF AgentRecords
    <3> QED BY <3>1
  <2> QED BY <1>5, <1>8, <2>1, <2>3, <2>4, Siblings
<1>9. CASE StartRoot
  <2> DEFINE c == created + 1
  <2>1. c \in 1 .. MaxAgents /\ created' = c /\ agents' = Put(agents, c, Agent("root", None, <<c>>, 0, "creates"))
    BY <1>0, <1>9, Bounds DEF StartRoot
  <2>2. Nodes' = Nodes \cup {c} /\ agents'[c] = Agent("root", None, <<c>>, 0, "creates")
        /\ \A x \in Nodes : x # c => agents'[x] = agents[x]
    BY <2>1 DEF Put, Nodes
  <2>3. <<c>> \in Ups(c) /\ <<c>> # <<>> /\ Last(<<c>>) = c
    BY <2>1, Bounds, OneIsUp DEF Last
  <2>4. Typed(agents'[c], c, c)
    BY <2>2, <2>3, Bounds DEF Agent, AgentRecords, Places
  <2>5. ASSUME NEW x \in Nodes PROVE Typed(agents'[x], x, c)
    <3>1. AgentRecords(created) \subseteq AgentRecords(c)
      BY <1>0, RecordsGrow
    <3>2. x # c
      BY <1>0, <1>b
    <3> QED BY <1>b, <2>2, <3>1, <3>2
  <2>6. 1 .. created \subseteq 1 .. c /\ c \in 1 .. c
    BY <1>0
  <2> QED BY <1>a, <1>b, <2>1, <2>2, <2>4, <2>5, <2>6
<1>10. CASE ResumeAgent
  <2> DEFINE id == resume.read[resume.at]
             new == Agent("resumed", rows[id].parent, Upto(resume.at), 0, "works")
  <2>1. id \in Held /\ resume.at > 0 /\ agents' = Put(agents, id, new) /\ created' = created /\ id \notin Nodes
    BY <1>10 DEF ResumeAgent, NextInChain, Held, Nodes
  <2>2. Nodes' = Nodes \cup {id} /\ agents'[id] = new /\ \A x \in Nodes : agents'[x] = agents[x]
    BY <2>1 DEF Put, Nodes
  <2>3. /\ Upto(resume.at) \in Ups(created) /\ Upto(resume.at) # <<>> /\ Last(Upto(resume.at)) = id
        /\ id \in 1 .. created /\ rows[id].parent \in (1 .. created) \cup {None}
    BY <2>1, UptoIs DEF TypeInv, StoreTypes
  <2>4. Typed(new, id, created)
    BY <2>3, Bounds DEF Agent, AgentRecords, Places
  <2> QED BY <1>a, <1>b, <2>1, <2>2, <2>3, <2>4
<1>11. ASSUME NEW a \in Ids, Progress(a) \/ Spawn(a) \/ SpawnBatch(a) \/ StartSibling(a)
       PROVE  AgentTypes'
  <2>1. CASE StoreRow(a) \/ StoreChain(a) \/ Finish(a)
    BY <2>1, <1>2 DEF StoreRow, StoreChain, Finish, At, Nodes, Places
  <2>2. CASE Fail(a)
    <3>1. agents[a].kind \in {"root", "child", "resumed"} /\ a \in Nodes
      BY <2>2, <1>b DEF Fail, Nodes, AgentRecords
    <3> QED BY <2>2, <3>1, <1>2, <1>3 DEF Fail, Places
  <2>3. CASE Pop(a) \/ PopResumed(a) \/ AbortResume(a)
    BY <2>3, <1>3 DEF Pop, PopResumed, AbortResume
  <2>4. CASE RefuseSibling(a)
    <3>1. a \in Nodes /\ agents[a].todo \in 0 .. 2 /\ agents[a].todo > 0 /\ agents[a].depth < MaxDepth
      BY <2>4, <1>b DEF RefuseSibling, Nodes, AgentRecords
    <3>2. agents[a].todo - 1 \in 0 .. 2
      BY <3>1
    <3>3. agents' = [agents EXCEPT ![a].todo = agents[a].todo - 1] /\ created' = created + 1
      BY <2>4 DEF RefuseSibling
    <3> QED BY <3>1, <3>2, <3>3, <1>6
  <2>5. CASE SpawnBatch(a)
    <3>1. /\ a \in Nodes /\ agents[a].depth < MaxDepth
          /\ agents' = [agents EXCEPT ![a].todo = 2] /\ created' \in {created, created + 1}
      BY <2>5 DEF SpawnBatch, Nodes
    <3>2. \A n \in 0 .. 2 : agents' = [agents EXCEPT ![a].todo = n] => AgentTypes'
      BY <3>1, <1>6
    <3> QED BY <3>1, <3>2
  <2> QED BY <1>11, <1>7, <1>8, <2>1, <2>2, <2>3, <2>4, <2>5 DEF Progress
<1>12. CASE Crash
  BY <1>12, <1>4 DEF Crash
<1>13. CASE ResumeStep \/ ClearAgentChain \/ ClearPeerData
  BY <1>13, <1>1, <1>10
     DEF ResumeStep, BeginResume, SkipResume, ResumeMissing, EndResume, ClearAgentChain, ClearPeerData
<1>14. CASE UNCHANGED vars
  BY <1>14, <1>1 DEF vars
<1> QED BY <1>9, <1>11, <1>12, <1>13, <1>14 DEF Next

\* Numbers are given out one by one.
LEMMA CreatedGrows == [Next]_vars => created' \in {created, created + 1}
<1> SUFFICES ASSUME [Next]_vars PROVE created' \in {created, created + 1}
  OBVIOUS
<1>1. ASSUME NEW a \in Ids, Progress(a) PROVE created' \in {created, created + 1}
  <2>1. CASE StoreRow(a) \/ StoreChain(a)
    BY <2>1 DEF StoreRow, StoreChain
  <2>2. CASE Finish(a) \/ Fail(a)
    BY <2>2 DEF Finish, Fail
  <2>3. CASE Pop(a) \/ PopResumed(a) \/ AbortResume(a)
    BY <2>3 DEF Pop, PopResumed, AbortResume
  <2>4. CASE RefuseSibling(a)
    BY <2>4 DEF RefuseSibling
  <2> QED BY <1>1, <2>1, <2>2, <2>3, <2>4 DEF Progress
<1>2. ASSUME NEW a \in Ids, Spawn(a) \/ SpawnBatch(a) \/ StartSibling(a)
      PROVE  created' \in {created, created + 1}
  BY <1>2 DEF Spawn, SpawnBatch, StartSibling
<1>3. CASE StartRoot
  BY <1>3 DEF StartRoot
<1>4. CASE ResumeStep
  BY <1>4 DEF ResumeStep, BeginResume, SkipResume, ResumeMissing, ResumeAgent, EndResume
<1>5. CASE Crash \/ ClearAgentChain \/ ClearPeerData
  BY <1>5 DEF Crash, ClearAgentChain, ClearPeerData
<1>6. CASE UNCHANGED vars
  BY <1>6 DEF vars
<1> QED BY <1>1, <1>2, <1>3, <1>4, <1>5, <1>6 DEF Next

LEMMA WalkTypesNext == TypeInv /\ [Next]_vars => WalkTypes'
<1> SUFFICES ASSUME TypeInv, [Next]_vars PROVE WalkTypes'
  OBVIOUS
<1>0. created \in Nat /\ created' \in Nat /\ Nodes \subseteq 1 .. created
  BY Bounds, StoreTypesNext DEF TypeInv, StoreTypes, AgentTypes
<1>1. created <= created'
  BY <1>0, CreatedGrows
<1>2. Ups(created) \subseteq Ups(created')
  BY <1>0, <1>1, UpsGrow
<1> DEFINE Resumed(a) == agents[a].kind = "resumed"
<1>3. ASSUME resume' = resume, \A a \in Nodes' : agents'[a].kind = "resumed" => a \in Nodes /\ Resumed(a)
      PROVE  WalkTypes'
  BY <1>2, <1>3 DEF TypeInv, WalkTypes
<1>4. ASSUME NEW a \in Nodes, NEW to \in Places, agents' = Goto(a, to), resume' = resume PROVE WalkTypes'
  BY <1>3, <1>4, Goes DEF Kept
<1>5. ASSUME NEW a, agents' = Gone(a), resume' = resume PROVE WalkTypes'
  BY <1>3, <1>5, Goners
<1>6. CASE UNCHANGED <<agents, resume>>
  BY <1>3, <1>6 DEF Nodes
<1>7. CASE StartRoot
  <2>1. /\ Nodes' = Nodes \cup {created + 1} /\ agents'[created + 1].kind = "root"
        /\ \A x \in Nodes : x # created + 1 => agents'[x] = agents[x]
    BY <1>7 DEF StartRoot, Put, Nodes, Agent
  <2>2. created + 1 \notin Nodes
    BY <1>0
  <2> QED BY <1>3, <1>7, <2>1, <2>2 DEF StartRoot
<1>8. ASSUME NEW p \in Ids, Spawn(p) PROVE WalkTypes'
  <2>1. /\ p \in Nodes /\ agents[p].depth < MaxDepth /\ created < MaxAgents /\ resume' = resume
        /\ Nodes' = Nodes \cup {created + 1} /\ agents'[created + 1] = Child(p, created + 1)
        /\ \A x \in Nodes : Kept(x)
    BY <1>8, Spawns DEF Spawn, Nodes
  <2>2. agents'[created + 1].kind = "child"
    BY <2>1, ChildIs
  <2> QED BY <1>3, <2>1, <2>2 DEF Kept
<1>9. ASSUME NEW p \in Ids, StartSibling(p) PROVE WalkTypes'
  <2>1. /\ p \in Nodes /\ agents[p].todo > 0 /\ created < MaxAgents /\ resume' = resume
        /\ Nodes' = Nodes \cup {created + 1} /\ agents'[created + 1] = Child(p, created + 1)
        /\ \A x \in Nodes : Kept(x)
    BY <1>9, Siblings DEF StartSibling, Nodes
  <2>2. agents'[created + 1].kind = "child"
    BY <2>1, ChildIs DEF TypeInv, AgentTypes
  <2> QED BY <1>3, <2>1, <2>2 DEF Kept
<1>10. ASSUME NEW p \in Ids, RefuseSibling(p) \/ SpawnBatch(p) PROVE WalkTypes'
  <2>1. p \in Nodes /\ agents[p].todo \in 0 .. 2 /\ resume' = resume
    BY <1>10 DEF RefuseSibling, SpawnBatch, Nodes, TypeInv, AgentTypes, AgentRecords
  <2>2. \E n \in 0 .. 2 : agents' = [agents EXCEPT ![p].todo = n]
    <3>1. CASE RefuseSibling(p)
      <4>1. agents[p].todo - 1 \in 0 .. 2 /\ agents' = [agents EXCEPT ![p].todo = agents[p].todo - 1]
        BY <2>1, <3>1 DEF RefuseSibling
      <4> QED BY <4>1
    <3>2. CASE SpawnBatch(p)
      BY <3>2 DEF SpawnBatch
    <3> QED BY <1>10, <3>1, <3>2
  <2> QED BY <1>3, <2>1, <2>2, Counts DEF Kept
<1>11. ASSUME NEW a \in Nodes, Resumed(a), Nodes' = Nodes \ {a}, \A x \in Nodes' : agents'[x] = agents[x]
       PROVE  \A x \in Nodes' : agents'[x].kind # "resumed"
  BY <1>11 DEF TypeInv, WalkTypes
<1>12. ASSUME NEW a \in Ids, PopResumed(a) \/ AbortResume(a) PROVE WalkTypes'
  <2>1. Resumed(a) /\ a \in Nodes
    BY <1>12 DEF PopResumed, AbortResume, At, Nodes, TypeInv, AgentTypes
  <2>2. resume.at > 0
    BY <2>1 DEF TypeInv, WalkTypes
  <2>3. Nodes' = Nodes \ {a} /\ \A x \in Nodes' : agents'[x] = agents[x]
    BY <1>12, Goners DEF PopResumed, AbortResume
  <2>4. \A x \in Nodes' : agents'[x].kind # "resumed"
    BY <1>11, <2>1, <2>3
  <2>5. resume' \in {[resume EXCEPT !.at = resume.at - 1], NotResuming}
    BY <1>12 DEF PopResumed, AbortResume
  <2>6. /\ resume' \in [phase : {"idle", "due", "walk"}, at : Nat, read : Ups(created')]
        /\ resume'.at <= Len(resume'.read)
    <3>1. CASE resume' = NotResuming
      BY <3>1, <1>0, EmptyIsUp, EmptySeq DEF NotResuming
    <3>2. CASE resume' = [resume EXCEPT !.at = resume.at - 1]
      <4>1. Len(resume.read) \in Nat
        BY <1>0, UpRange DEF TypeInv, WalkTypes
      <4> QED BY <1>2, <2>2, <3>2, <4>1 DEF TypeInv, WalkTypes
    <3> QED BY <2>5, <3>1, <3>2
  <2> QED BY <2>4, <2>6 DEF WalkTypes
<1>13. CASE Crash
  <2>1. Nodes' = {} /\ resume' = [phase |-> "due", at |-> 0, read |-> <<>>]
    BY <1>13 DEF Crash, Restrict, Nodes
  <2> QED BY <2>1, <1>0, EmptyIsUp, EmptySeq DEF WalkTypes
<1>14. CASE BeginResume
  <2>1. chain \in Ups(created) /\ Len(chain) \in Nat
    BY <1>0, UpRange DEF TypeInv, StoreTypes
  <2>2. \A a \in Nodes : ~Resumed(a)
    BY <1>14 DEF BeginResume, TypeInv, WalkTypes
  <2> QED BY <1>2, <1>14, <2>1, <2>2 DEF BeginResume, WalkTypes, Nodes
<1>15. CASE SkipResume \/ EndResume
  <2>1. \A a \in Nodes : ~Resumed(a)
    BY <1>15 DEF SkipResume, EndResume, TypeInv, WalkTypes
  <2>2. resume' = NotResuming /\ agents' = agents
    BY <1>15 DEF SkipResume, EndResume
  <2> QED BY <1>0, <2>1, <2>2, EmptyIsUp, EmptySeq DEF NotResuming, WalkTypes, Nodes
<1>16. CASE ResumeMissing
  <2>1. \A a \in Nodes : ~Resumed(a)
    BY <1>16 DEF ResumeMissing, NextInChain, TypeInv, WalkTypes, Nodes
  <2>2. Len(resume.read) \in Nat
    BY <1>0, UpRange DEF TypeInv, WalkTypes
  <2>3. resume' = [resume EXCEPT !.at = resume.at - 1] /\ agents' = agents /\ resume.at > 0
    BY <1>16 DEF ResumeMissing, NextInChain
  <2> QED BY <1>2, <2>1, <2>2, <2>3 DEF TypeInv, WalkTypes, Nodes
<1>17. CASE ResumeAgent
  <2> DEFINE id == resume.read[resume.at]
  <2>1. /\ resume.phase = "walk" /\ resume.at > 0 /\ resume' = resume
        /\ Nodes' = Nodes \cup {id} /\ \A x \in Nodes : x # id => agents'[x] = agents[x]
    BY <1>17 DEF ResumeAgent, NextInChain, Put, Nodes
  <2> QED BY <1>2, <2>1 DEF TypeInv, WalkTypes
<1>18. ASSUME NEW a \in Ids, Progress(a) PROVE WalkTypes'
  <2>1. CASE StoreRow(a) \/ StoreChain(a) \/ Finish(a)
    BY <2>1, <1>4 DEF StoreRow, StoreChain, Finish, At, Nodes, Places
  <2>2. CASE Fail(a)
    <3>1. a \in Nodes
      BY <2>2 DEF Fail, Nodes
    <3> QED BY <2>2, <3>1, <1>4, <1>5 DEF Fail, Places
  <2>3. CASE Pop(a)
    BY <2>3, <1>5 DEF Pop
  <2> QED BY <1>18, <1>10, <1>12, <2>1, <2>2, <2>3 DEF Progress
<1>19. CASE ClearAgentChain \/ ClearPeerData
  BY <1>19, <1>6 DEF ClearAgentChain, ClearPeerData
<1>20. CASE UNCHANGED vars
  BY <1>20, <1>6 DEF vars
<1> QED BY <1>7, <1>8, <1>9, <1>10, <1>13, <1>14, <1>15, <1>16, <1>17, <1>18, <1>19, <1>20
        DEF Next, ResumeStep

LEMMA InitTypes == Init => TypeInv
<1> SUFFICES ASSUME Init PROVE TypeInv
  OBVIOUS
<1>1. <<>> \in Ups(0) /\ Len(<<>>) = 0
  BY EmptyIsUp, EmptySeq
<1>2. Held = {} /\ Nodes = {} /\ 0 \in 0 .. MaxAgents
  BY Bounds DEF Init, Held, Nodes
<1> QED BY <1>1, <1>2 DEF Init, NotResuming, TypeInv, StoreTypes, AgentTypes, WalkTypes

LEMMA NextTypes == TypeInv /\ [Next]_vars => TypeInv'
BY StoreTypesNext, AgentTypesNext, WalkTypesNext DEF TypeInv

\* What the store, the agents and the walk of resumeChain consist of, whatever is
\* interrupted (the tables agent_sessions and active_agent_chain, resumeChain).
THEOREM TypesOfChains == Spec => []TypeOK
<1>1. TypeInv => TypeOK
  <2> SUFFICES ASSUME TypeInv PROVE TypeOK
    OBVIOUS
  <2>1. created \in Nat /\ 1 .. created \subseteq Ids
    BY Bounds DEF TypeInv, StoreTypes, Ids
  <2>2. \A r \in DOMAIN rows : rows[r] \in Row
    BY <2>1 DEF TypeInv, StoreTypes, Held, Row
  <2>3. chain \in Seq(1 .. created)
    BY DEF TypeInv, StoreTypes, Ups
  <2>4. Len(resume.read) \in Nat
    BY <2>1, UpRange DEF TypeInv, WalkTypes
  <2> QED BY <2>1, <2>2, <2>3, <2>4
          DEF TypeOK, TypeInv, StoreTypes, AgentTypes, WalkTypes, Held, Nodes, AgentRecords
<1> QED BY <1>1, InitTypes, NextTypes, PTL DEF Spec

-----------------------------------------------------------------------------
(* What is over stays over.                                                 *)

\* An agent starts under the next number, or in resumeChain under an id that has a row.
Fresh(a) == a = created + 1 \/ (a \in Held /\ agents'[a].pc = "works")

LEMMA NodesNext ==
  TypeInv /\ [Next]_vars =>
    \A a \in Nodes' : IF a \in Nodes THEN agents'[a].pc = "creates" => agents[a].pc = "creates"
                                     ELSE Fresh(a)
<1> SUFFICES ASSUME TypeInv, [Next]_vars,
                    NEW a \in Nodes'
             PROVE  IF a \in Nodes THEN agents'[a].pc = "creates" => agents[a].pc = "creates"
                                   ELSE Fresh(a)
  OBVIOUS
<1> DEFINE Claim == IF a \in Nodes THEN agents'[a].pc = "creates" => agents[a].pc = "creates"
                                   ELSE Fresh(a)
<1>1. CASE agents' = agents
  BY <1>1 DEF Nodes
<1>2. ASSUME NEW x \in Nodes, NEW to \in Places \ {"creates"}, agents' = Goto(x, to) PROVE Claim
  BY <1>2, Goes
<1>3. ASSUME NEW x, agents' = Gone(x) PROVE Claim
  BY <1>3, Goners
<1>4. ASSUME NEW x \in Ids, Progress(x) PROVE Claim
  <2>1. CASE StoreRow(x) \/ StoreChain(x) \/ Finish(x)
    BY <2>1, <1>2 DEF StoreRow, StoreChain, Finish, At, Nodes, Places
  <2>2. CASE Fail(x)
    <3>1. x \in Nodes
      BY <2>2 DEF Fail, Nodes
    <3> QED BY <2>2, <3>1, <1>2, <1>3 DEF Fail, Places
  <2>3. CASE Pop(x) \/ PopResumed(x) \/ AbortResume(x)
    BY <2>3, <1>3 DEF Pop, PopResumed, AbortResume
  <2>4. CASE RefuseSibling(x)
    BY <2>4 DEF RefuseSibling, Nodes
  <2> QED BY <1>4, <2>1, <2>2, <2>3, <2>4 DEF Progress
<1>5. ASSUME NEW x \in Ids, Spawn(x) PROVE Claim
  BY <1>5, Spawns DEF Fresh
<1>6. ASSUME NEW x \in Ids, StartSibling(x) PROVE Claim
  BY <1>6, Siblings DEF Fresh
<1>7. ASSUME NEW x \in Ids, SpawnBatch(x) PROVE Claim
  BY <1>7 DEF SpawnBatch, Nodes
<1>8. CASE StartRoot
  <2>1. created + 1 \notin Nodes
    BY Bounds DEF TypeInv, StoreTypes, AgentTypes
  <2>2. agents' = Put(agents, created + 1, Agent("root", None, <<created + 1>>, 0, "creates"))
    BY <1>8 DEF StartRoot
  <2> QED BY <2>1, <2>2 DEF Put, Nodes, Fresh
<1>9. CASE ResumeAgent
  BY <1>9 DEF ResumeAgent, NextInChain, Put, Nodes, Fresh, Held, Agent
<1>10. CASE Crash
  BY <1>10 DEF Crash, Restrict, Nodes
<1>11. CASE ResumeStep \/ ClearAgentChain \/ ClearPeerData
  BY <1>11, <1>1, <1>9
     DEF ResumeStep, BeginResume, SkipResume, ResumeMissing, EndResume, ClearAgentChain, ClearPeerData
<1>12. CASE UNCHANGED vars
  BY <1>12, <1>1 DEF vars
<1> QED BY <1>4, <1>5, <1>6, <1>7, <1>8, <1>10, <1>11, <1>12 DEF Next

LEMMA OverNext == TypeInv /\ OverInv /\ [Next]_vars => OverInv'
<1> SUFFICES ASSUME TypeInv, OverInv, [Next]_vars PROVE OverInv'
  OBVIOUS
<1>0. /\ created \in Nat /\ created' \in {created, created + 1}
      /\ Held \subseteq 1 .. created /\ Nodes \subseteq 1 .. created
  BY Bounds, CreatedGrows DEF TypeInv, StoreTypes, AgentTypes
<1>1. 1 .. created \subseteq 1 .. created' /\ created + 1 \notin 1 .. created
  BY <1>0
<1>2. ASSUME NEW a \in Nodes', agents'[a].pc = "creates"
      PROVE  IF a \in Nodes THEN agents[a].pc = "creates" ELSE a = created + 1
  BY <1>2, NodesNext DEF Fresh
<1>3. \A a \in Nodes' : agents'[a].pc = "creates" => a \notin Held \cup Over
  BY <1>0, <1>1, <1>2 DEF OverInv
<1>4. ASSUME Over' = Over, Held' \subseteq Held PROVE OverInv'
  BY <1>1, <1>3, <1>4 DEF OverInv
<1>5. ASSUME NEW a \in Ids, StoreRow(a) PROVE OverInv'
  <2>1. a \in Nodes /\ agents[a].pc = "creates" /\ agents' = Goto(a, "chains")
    BY <1>5 DEF StoreRow, At, Nodes
  <2>2. Held' = Held \cup {a} /\ Over' = Over
    BY <1>5 DEF StoreRow, SaveRow, Put, Held, Over, history
  <2>3. agents'[a].pc # "creates"
    BY <2>1, Goes DEF Places
  <2> QED BY <1>1, <1>3, <2>1, <2>2, <2>3 DEF OverInv
<1>6. ASSUME NEW a \in Ids, Finish(a) PROVE OverInv'
  <2>1. a \in Nodes /\ agents' = Goto(a, "pops")
    BY <1>6 DEF Finish, Nodes
  <2>2. Held' = Held \ {a} /\ Over' = Over \cup {a}
    BY <1>6 DEF Finish, DeleteRow, Restrict, Held, Over
  <2>3. agents'[a].pc # "creates"
    BY <2>1, Goes DEF Places
  <2> QED BY <1>0, <1>1, <1>3, <2>1, <2>2, <2>3 DEF OverInv
<1>7. CASE ClearPeerData
  <2>1. Held' = {} /\ Over' = Over \cup Held
    BY <1>7 DEF ClearPeerData, Restrict, Held, Over
  <2> QED BY <1>0, <1>1, <1>3, <2>1 DEF OverInv
<1>8. ASSUME NEW a \in Ids, Progress(a) PROVE OverInv'
  <2>1. CASE Fail(a)
    BY <2>1, <1>4 DEF Fail, DeleteRow, Restrict, Held, Over
  <2>2. CASE StoreChain(a) \/ Pop(a) \/ PopResumed(a) \/ AbortResume(a) \/ RefuseSibling(a)
    BY <2>2, <1>4 DEF StoreChain, Pop, PopResumed, AbortResume, RefuseSibling, Held, Over, history
  <2> QED BY <1>5, <1>6, <1>8, <2>1, <2>2 DEF Progress
<1>9. ASSUME NEW a \in Ids, Spawn(a) \/ SpawnBatch(a) \/ StartSibling(a) PROVE OverInv'
  BY <1>4, <1>9 DEF Spawn, SpawnBatch, StartSibling, Held, Over, history
<1>10. CASE StartRoot \/ Crash \/ ClearAgentChain
  BY <1>4, <1>10 DEF StartRoot, Crash, ClearAgentChain, Held, Over, history
<1>11. CASE ResumeStep
  BY <1>4, <1>11 DEF ResumeStep, BeginResume, SkipResume, ResumeMissing, ResumeAgent, EndResume,
                     Held, Over, history
<1>12. CASE UNCHANGED vars
  BY <1>4, <1>12 DEF vars, Held, Over
<1> QED BY <1>7, <1>8, <1>9, <1>10, <1>11, <1>12 DEF Next

\* No agent whose result was given away, and none whose row /clear deleted, ever works again,
\* whatever stale ids the chains of the tools keep (resumeChain, createAgent).
THEOREM OverForGood == Spec => OverStaysOver
<1>1. Init => OverInv
  BY DEF Init, OverInv, Over, Held, Nodes
<1>2. TypeInv /\ OverInv /\ [Next]_vars => [Started \cap Over = {}]_vars
  <2> SUFFICES ASSUME TypeInv, OverInv, [Next]_vars, NEW a \in Started PROVE a \notin Over
    OBVIOUS
  <2>1. Fresh(a)
    BY NodesNext DEF Started, Nodes
  <2>2. created + 1 \notin 1 .. created
    BY Bounds DEF TypeInv, StoreTypes
  <2> QED BY <2>1, <2>2 DEF Fresh, OverInv
<1>3. Spec => [][Started \cap Over = {}]_vars
  BY <1>1, <1>2, InitTypes, NextTypes, OverNext, PTL DEF Spec
<1> QED BY <1>3 DEF OverStaysOver, Over

-----------------------------------------------------------------------------
(* The agents at work, while a task begins only when no agent works.        *)

\* Nobody works for a.
Leaf(a) == \A x \in Nodes : ~IsChild(x, a)

\* An agent of which a step changes at most the place it is at and what is left of its batch.
Stays(x) == /\ agents'[x].kind = agents[x].kind /\ agents'[x].parent = agents[x].parent
            /\ P(x)' = P(x) /\ T(x)' = T(x)

LEMMA Moved ==
  ASSUME TypeInv, NEW a \in Nodes, NEW to \in Places, agents' = Goto(a, to)
  PROVE  /\ Nodes' = Nodes
         /\ \A x \in Nodes : /\ Stays(x) /\ agents'[x].todo = agents[x].todo
                            /\ agents'[x].pc = IF x = a THEN to ELSE agents[x].pc
<1>1. /\ Nodes' = Nodes
      /\ \A x \in Nodes : /\ Kept(x) /\ agents'[x].tool = agents[x].tool
                          /\ agents'[x].todo = agents[x].todo
                          /\ agents'[x].pc = IF x = a THEN to ELSE agents[x].pc
  BY Goes
<1> QED BY <1>1 DEF Stays, Kept, P, T

LEMMA Counted ==
  ASSUME TypeInv, NEW a \in Nodes, NEW n \in 0 .. 2, agents' = [agents EXCEPT ![a].todo = n]
  PROVE  /\ Nodes' = Nodes
         /\ \A x \in Nodes : /\ Stays(x) /\ agents'[x].pc = agents[x].pc
                            /\ agents'[x].todo = IF x = a THEN n ELSE agents[x].todo
<1>1. /\ Nodes' = Nodes
      /\ \A x \in Nodes : /\ Kept(x) /\ agents'[x].tool = agents[x].tool /\ agents'[x].pc = agents[x].pc
                          /\ agents'[x].todo = IF x = a THEN n ELSE agents[x].todo
  BY Counts
<1> QED BY <1>1 DEF Stays, Kept, P, T

LEMMA Removed ==
  ASSUME NEW a, agents' = Gone(a)
  PROVE  /\ Nodes' = Nodes \ {a}
         /\ \A x \in Nodes' : /\ Stays(x) /\ agents'[x].pc = agents[x].pc
                             /\ agents'[x].todo = agents[x].todo
BY Goners DEF Stays, P, T

LEMMA Unmoved ==
  ASSUME agents' = agents
  PROVE  /\ Nodes' = Nodes
         /\ \A x \in Nodes : /\ Stays(x) /\ agents'[x].pc = agents[x].pc
                            /\ agents'[x].todo = agents[x].todo
BY DEF Stays, P, T, Nodes

\* Who is idle, or not at work, is above nobody.
LEMMA Leaves ==
  ASSUME TreeInv, AboveInv, NEW a \in Nodes, Idle(a) \/ agents[a].pc # "works"
  PROVE  Leaf(a) /\ \A x \in Nodes : a \in P(x) => x = a
<1>1. Leaf(a)
  <2> SUFFICES ASSUME NEW x \in Nodes, IsChild(x, a) PROVE FALSE
    BY DEF Leaf
  <2>1. agents[a].pc = "works"
    BY DEF TreeInv, IsChild
  <2>2. x \notin Children(a)
    BY <2>1 DEF Idle
  <2> QED BY <2>2 DEF Children, IsChild, Nodes
<1> QED BY <1>1 DEF AboveInv, Leaf

\* An agent that is no child and has none is alone.
LEMMA Alone ==
  ASSUME TreeInv, AboveInv, NEW a \in Nodes, Idle(a) \/ agents[a].pc # "works",
         agents[a].kind # "child"
  PROVE  Nodes = {a}
BY Leaves DEF TreeInv

LEMMA LeavesMove ==
  ASSUME TypeInv, AgentsInv, Nodes' \subseteq Nodes, batched' = batched,
         \/ created' = created
         \/ created < MaxAgents /\ created' = created + 1,
         \A x \in Nodes \ Nodes' : Leaf(x),
         \A x \in Nodes' :
           /\ Stays(x)
           /\ agents'[x].pc = agents[x].pc \/ (Leaf(x) /\ agents'[x].pc # "creates")
           /\ agents'[x].todo > 0 => agents[x].todo > 0 \/ Leaf(x)
           /\ agents'[x].todo > 0 => agents'[x].pc = "works" \/ created' = MaxAgents
  PROVE  AgentsInv'
<1>1. batched' \subseteq 1 .. created'
  <2>1. created \in Nat /\ batched \subseteq 1 .. created
    BY Bounds DEF TypeInv, StoreTypes, AgentsInv
  <2> QED BY <2>1
<1>2. \A x, y \in Nodes' : IsChild(x, y)' = IsChild(x, y)
  BY DEF Stays, IsChild
<1>3. TreeInv'
  <2> SUFFICES ASSUME NEW a \in Nodes'
               PROVE  /\ a \in P(a)' /\ \A x \in P(a)' : x <= a
                      /\ P(a)' \subseteq T(a)' /\ \A x \in T(a)' \ P(a)' : x > a
                      /\ agents'[a].pc = "creates" => T(a)' = P(a)' /\ agents'[a].kind # "resumed"
                      /\ agents'[a].kind = "root" => P(a)' = {a}
                      /\ agents'[a].kind = "child" => /\ agents'[a].parent \in Nodes' \cap P(a)'
                                                     /\ agents'[a].parent < a
                                                     /\ agents'[agents'[a].parent].pc = "works"
                      /\ agents'[a].kind # "child" => \A x \in Nodes' : a \in P(x)'
    BY DEF TreeInv
  <2>1. a \in Nodes /\ Stays(a)
    OBVIOUS
  <2>2. ASSUME agents[a].kind = "child"
        PROVE  LET p == agents[a].parent
               IN p \in Nodes' \cap P(a) /\ p < a /\ agents'[p].pc = "works"
    <3> DEFINE p == agents[a].parent
    <3>1. p \in Nodes \cap P(a) /\ p < a /\ agents[p].pc = "works" /\ ~Leaf(p)
      BY <2>1, <2>2 DEF AgentsInv, TreeInv, Leaf, IsChild
    <3> QED BY <3>1
  <2> QED BY <2>1, <2>2 DEF AgentsInv, TreeInv, Stays
<1>4. AboveInv'
  <2> SUFFICES ASSUME NEW a \in Nodes', NEW x \in Nodes', x \in P(a)', x # a
               PROVE  \E c \in Nodes' : IsChild(c, x)' /\ c \in P(a)'
    BY DEF AboveInv
  <2>1. PICK c \in Nodes : IsChild(c, x) /\ c \in P(a)
    BY DEF AgentsInv, AboveInv, Stays
  <2>2. c \in Nodes'
    BY <2>1 DEF AgentsInv, AboveInv, Leaf
  <2> QED BY <1>2, <2>1, <2>2 DEF Stays
<1>5. ToolInv'
  BY <1>2 DEF AgentsInv, ToolInv, Stays
<1>6. BatchInv'
  BY <1>2 DEF AgentsInv, BatchInv, Leaf
<1>7. LineInv'
  BY DEF AgentsInv, LineInv, Stays
<1> QED BY <1>1, <1>3, <1>4, <1>5, <1>6, <1>7 DEF AgentsInv

\* The first agent of a chain, and the one that resumeChain starts, are alone.
LEMMA FirstAgent ==
  ASSUME TypeInv, AgentsInv, NEW a, Nodes' = {a}, UNCHANGED batched, created <= created', created' \in Nat,
         P(a)' = T(a)', a \in P(a)', \A x \in P(a)' : x <= a,
         agents'[a].kind = "root" => P(a)' = {a}, agents'[a].kind # "child",
         agents'[a].kind = "resumed" => agents'[a].pc = "works",
         agents'[a].todo = 0
  PROVE  AgentsInv'
<1>1. batched' \subseteq 1 .. created'
  <2>1. created \in Nat /\ batched \subseteq 1 .. created
    BY Bounds DEF TypeInv, StoreTypes, AgentsInv
  <2> QED BY <2>1
<1>2. ~IsChild(a, a)'
  BY DEF IsChild
<1>3. TreeInv'
  BY DEF TreeInv
<1>4. AboveInv' /\ LineInv'
  BY DEF AboveInv, LineInv
<1>5. ToolInv'
  BY DEF ToolInv
<1>6. BatchInv'
  BY DEF BatchInv
<1> QED BY <1>1, <1>3, <1>4, <1>5, <1>6 DEF AgentsInv

LEMMA NoAgents ==
  ASSUME TypeInv, AgentsInv, Nodes' = {}, UNCHANGED <<batched, created>>
  PROVE  AgentsInv'
<1>1. batched' \subseteq 1 .. created'
  BY DEF AgentsInv
<1> QED BY <1>1 DEF AgentsInv, TreeInv, AboveInv, ToolInv, BatchInv, LineInv

LEMMA SetsOfIds ==
  ASSUME TypeInv, NEW a \in Nodes
  PROVE  P(a) \subseteq 1 .. created /\ T(a) \subseteq 1 .. created
<1>1. created \in Nat /\ agents[a].path \in Ups(created) /\ agents[a].tool \in Ups(created)
  BY Bounds DEF TypeInv, StoreTypes, AgentTypes, AgentRecords
<1> QED BY <1>1, UpRange DEF P, T

LEMMA ChildStarts ==
  ASSUME TypeInv, AgentsInv, NEW p \in Nodes, NEW c, c = created + 1,
         created < MaxAgents, created' = c, Nodes' = Nodes \cup {c}, batched' \in {batched, batched \cup {c}},
         agents[p].pc = "works", \A x \in Nodes : x \notin T(p) \ P(p),
         agents'[c].kind = "child", agents'[c].parent = p, agents'[c].pc = "creates",
         agents'[c].todo = 0, P(c)' = T(p) \cup {c}, T(c)' = P(c)',
         \A x \in Nodes :
           /\ agents'[x].kind = agents[x].kind /\ agents'[x].parent = agents[x].parent
           /\ agents'[x].pc = agents[x].pc /\ P(x)' = P(x)
           /\ T(x)' = T(x) \/ (x = p /\ T(x)' = P(c)' /\ c \notin batched')
           /\ agents'[x].todo > 0 => agents[x].todo > 0 /\ (x = p => c \in batched'),
         Leaf(p) \/ c \in batched',
         \A s \in Nodes : P(s) \cap batched = {} /\ p \in P(s) => s = p
  PROVE  AgentsInv'
<1>0. /\ created \in Nat /\ c \notin Nodes /\ c \notin batched /\ p < c
      /\ \A x \in Nodes : x < c /\ c \notin P(x) /\ c \notin T(x)
      /\ \A x \in T(p) : x <= c
  <2>1. created \in Nat /\ Nodes \subseteq 1 .. created /\ batched \subseteq 1 .. created
    BY Bounds DEF TypeInv, StoreTypes, AgentTypes, AgentsInv
  <2>2. \A x \in Nodes : P(x) \subseteq 1 .. created /\ T(x) \subseteq 1 .. created
    BY SetsOfIds
  <2> QED BY <2>1, <2>2
<1>1. batched' \subseteq 1 .. created'
  <2>1. batched \subseteq 1 .. created
    BY DEF AgentsInv
  <2> QED BY <1>0, <2>1
<1>2. /\ \A x, y \in Nodes : IsChild(x, y)' = IsChild(x, y)
      /\ \A y \in Nodes' : IsChild(c, y)' = (y = p)
      /\ \A x \in Nodes : ~IsChild(x, c)'
  <2>1. \A x \in Nodes : agents[x].kind = "child" => agents[x].parent \in Nodes
    BY DEF AgentsInv, TreeInv
  <2> QED BY <1>0, <2>1 DEF IsChild
<1>3. p \in P(p) /\ P(p) \subseteq T(p) /\ \A x \in Nodes \cap T(p) : x \in P(p)
  BY DEF AgentsInv, TreeInv
<1>4. TreeInv'
  <2> SUFFICES ASSUME NEW a \in Nodes'
               PROVE  /\ a \in P(a)' /\ \A x \in P(a)' : x <= a
                      /\ P(a)' \subseteq T(a)' /\ \A x \in T(a)' \ P(a)' : x > a
                      /\ agents'[a].pc = "creates" => T(a)' = P(a)' /\ agents'[a].kind # "resumed"
                      /\ agents'[a].kind = "root" => P(a)' = {a}
                      /\ agents'[a].kind = "child" =>
                           LET q == agents'[a].parent
                           IN q \in Nodes' \cap P(a)' /\ q < a /\ agents'[q].pc = "works"
                      /\ agents'[a].kind # "child" => \A x \in Nodes' : a \in P(x)'
    BY DEF TreeInv
  <2>1. CASE a = c
    BY <1>0, <1>3, <2>1
  <2>2. CASE a \in Nodes
    <3>1. /\ a \in P(a) /\ \A x \in P(a) : x <= a
          /\ P(a) \subseteq T(a) /\ \A x \in T(a) \ P(a) : x > a
          /\ agents[a].pc = "creates" => T(a) = P(a) /\ agents[a].kind # "resumed"
          /\ agents[a].kind = "root" => P(a) = {a}
      BY <2>2 DEF AgentsInv, TreeInv
    <3>2. agents[a].kind = "child" =>
            LET q == agents[a].parent
            IN q \in Nodes \cap P(a) /\ q < a /\ agents[q].pc = "works"
      BY <2>2 DEF AgentsInv, TreeInv
    <3>3. agents[a].kind # "child" => \A x \in Nodes : a \in P(x)
      BY <2>2 DEF AgentsInv, TreeInv
    <3>4. P(a)' = P(a) /\ agents'[a].pc = agents[a].pc /\ agents'[a].kind = agents[a].kind
          /\ agents'[a].parent = agents[a].parent
      BY <2>2
    <3>5. P(a)' \subseteq T(a)' /\ \A x \in T(a)' \ P(a)' : x > a
      BY <1>0, <1>3, <2>2, <3>1, <3>4
    <3>6. agents'[a].pc = "creates" => T(a)' = P(a)'
      BY <2>2, <3>1, <3>4
    <3>7. agents'[a].kind # "child" => \A x \in Nodes' : a \in P(x)'
      BY <1>3, <2>2, <3>3, <3>4
    <3> QED BY <2>2, <3>1, <3>2, <3>4, <3>5, <3>6, <3>7
  <2> QED BY <2>1, <2>2
<1>5. AboveInv'
  <2> SUFFICES ASSUME NEW a \in Nodes', NEW x \in Nodes', x \in P(a)', x # a
               PROVE  \E d \in Nodes' : IsChild(d, x)' /\ d \in P(a)'
    BY DEF AboveInv
  <2>1. ASSUME NEW b \in Nodes, x \in P(b), x # b, P(b) \subseteq P(a)'
        PROVE  \E d \in Nodes' : IsChild(d, x)' /\ d \in P(a)'
    <3>1. x \in Nodes
      BY <1>0, <2>1
    <3>2. PICK d \in Nodes : IsChild(d, x) /\ d \in P(b)
      BY <2>1, <3>1 DEF AgentsInv, AboveInv
    <3> QED BY <1>2, <2>1, <3>1, <3>2
  <2>2. CASE a \in Nodes
    BY <2>1, <2>2
  <2>3. CASE a = c
    <3>1. x \in Nodes /\ x \in P(p)
      BY <1>0, <1>3, <2>3
    <3> QED BY <1>2, <1>3, <2>1, <2>3, <3>1
  <2> QED BY <2>2, <2>3
<1>6. ToolInv'
  <2> SUFFICES ASSUME NEW q \in Nodes', NEW x \in Nodes', x \in T(q)' \ P(q)'
               PROVE  IsChild(x, q)' /\ x \notin batched' /\ T(q)' = P(x)'
    BY DEF ToolInv
  <2>1. q \in Nodes
    OBVIOUS
  <2>2. CASE T(q)' = T(q)
    <3>1. x \in Nodes /\ x \in T(q) \ P(q)
      BY <1>0, <2>1, <2>2
    <3> QED BY <1>0, <1>2, <2>1, <2>2, <3>1 DEF AgentsInv, ToolInv
  <2>3. CASE q = p /\ T(q)' = P(c)' /\ c \notin batched'
    <3>1. P(p)' = P(p) /\ x \in T(p) \cup {c}
      BY <2>3
    <3>2. x = c
      BY <1>3, <2>3, <3>1
    <3> QED BY <1>2, <2>3, <3>2
  <2> QED BY <2>1, <2>2, <2>3
<1>7. BatchInv'
  <2> SUFFICES ASSUME NEW q \in Nodes', agents'[q].todo > 0
               PROVE  /\ agents'[q].pc = "works" \/ created' = MaxAgents
                      /\ \A d \in Nodes' : IsChild(d, q)' => d \in batched'
    BY DEF BatchInv
  <2>1. q \in Nodes /\ agents[q].todo > 0
    OBVIOUS
  <2>2. /\ agents[q].pc = "works" \/ created = MaxAgents
        /\ \A d \in Nodes : IsChild(d, q) => d \in batched
    BY <2>1 DEF AgentsInv, BatchInv
  <2>3. agents'[q].pc = "works"
    BY <1>0, <2>1, <2>2, Bounds
  <2>4. ASSUME NEW d \in Nodes', IsChild(d, q)' PROVE d \in batched'
    <3>1. CASE d = c
      BY <1>2, <2>1, <2>4, <3>1
    <3>2. CASE d \in Nodes
      BY <1>2, <2>1, <2>2, <2>4, <3>2
    <3> QED BY <3>1, <3>2
  <2> QED BY <2>3, <2>4
<1>8. LineInv'
  <2> SUFFICES ASSUME NEW s \in Nodes', NEW a \in Nodes', P(s)' \cap batched' = {}
               PROVE  s \in P(a)' \/ a \in P(s)'
    BY DEF LineInv
  <2>1. \A x, y \in Nodes : P(x) \cap batched = {} => x \in P(y) \/ y \in P(x)
    BY DEF AgentsInv, LineInv
  <2>2. batched \subseteq batched'
    OBVIOUS
  <2>3. CASE s \in Nodes /\ a \in Nodes
    BY <2>1, <2>2, <2>3
  <2>4. CASE s \in Nodes /\ a = c
    BY <1>3, <2>1, <2>2, <2>4
  <2>5. CASE s = c /\ a = c
    BY <2>5
  <2>6. CASE s = c /\ a \in Nodes
    <3>1. Leaf(p) /\ P(p) \cap batched = {}
      BY <1>3, <2>2, <2>6
    <3>2. p \in P(a) => a = p
      BY <2>6, <3>1 DEF AgentsInv, AboveInv, Leaf
    <3> QED BY <1>3, <2>1, <2>6, <3>1, <3>2
  <2> QED BY <2>3, <2>4, <2>5, <2>6
<1> QED BY <1>1, <1>4, <1>5, <1>6, <1>7, <1>8 DEF AgentsInv

\* What a single task and a member of a batch change.
LEMMA SpawnFrame ==
  ASSUME TypeInv, NEW p, Spawn(p), NEW c, c = created + 1
  PROVE  /\ p \in Nodes /\ Idle(p) /\ created < MaxAgents /\ created' = c
         /\ Nodes' = Nodes \cup {c} /\ UNCHANGED batched
         /\ agents'[c].kind = "child" /\ agents'[c].parent = p /\ agents'[c].pc = "creates"
         /\ agents'[c].todo = 0 /\ agents[p].todo = 0
         /\ P(c)' = T(p) \cup {c} /\ T(c)' = P(c)' /\ T(p)' = P(c)'
         /\ \A x \in Nodes :
              /\ agents'[x].kind = agents[x].kind /\ agents'[x].parent = agents[x].parent
              /\ agents'[x].pc = agents[x].pc /\ agents'[x].todo = agents[x].todo
              /\ P(x)' = P(x) /\ (x # p => T(x)' = T(x))
<1>1. p \in Nodes /\ agents[p].depth < MaxDepth /\ created < MaxAgents /\ created' = c /\ UNCHANGED batched
  BY DEF Spawn, Nodes, history
<1>2. /\ Idle(p) /\ agents[p].todo = 0 /\ Nodes' = Nodes \cup {c} /\ agents'[c] = Child(p, c)
      /\ \A x \in Nodes : /\ Kept(x) /\ agents'[x].pc = agents[x].pc /\ agents'[x].todo = agents[x].todo
                          /\ agents'[x].tool = IF x = p THEN ChildPath(p, c) ELSE agents[x].tool
  BY Spawns
<1>3. /\ Range(ChildPath(p, c)) = T(p) \cup {c}
      /\ Child(p, c).kind = "child" /\ Child(p, c).parent = p
      /\ Child(p, c).path = ChildPath(p, c) /\ Child(p, c).tool = ChildPath(p, c)
      /\ Child(p, c).pc = "creates" /\ Child(p, c).todo = 0
  BY <1>1, ChildIs
<1>4. P(c)' = T(p) \cup {c} /\ T(c)' = P(c)' /\ T(p)' = P(c)'
  BY <1>1, <1>2, <1>3 DEF P, T
<1>5. \A x \in Nodes : P(x)' = P(x) /\ (x # p => T(x)' = T(x))
  BY <1>2 DEF P, T, Kept
<1> QED BY <1>1, <1>2, <1>3, <1>4, <1>5 DEF Kept

LEMMA SiblingFrame ==
  ASSUME TypeInv, NEW p, StartSibling(p), NEW c, c = created + 1
  PROVE  /\ p \in Nodes /\ agents[p].todo > 0 /\ created < MaxAgents /\ created' = c
         /\ Nodes' = Nodes \cup {c} /\ batched' = batched \cup {c}
         /\ agents'[c].kind = "child" /\ agents'[c].parent = p /\ agents'[c].pc = "creates"
         /\ agents'[c].todo = 0
         /\ P(c)' = T(p) \cup {c} /\ T(c)' = P(c)'
         /\ \A x \in Nodes :
              /\ agents'[x].kind = agents[x].kind /\ agents'[x].parent = agents[x].parent
              /\ agents'[x].pc = agents[x].pc /\ (agents'[x].todo > 0 => agents[x].todo > 0)
              /\ P(x)' = P(x) /\ T(x)' = T(x)
<1>1. /\ p \in Nodes /\ agents[p].todo > 0 /\ agents[p].depth < MaxDepth /\ created < MaxAgents
      /\ created' = c /\ batched' = batched \cup {c}
  BY DEF StartSibling, Nodes, TypeInv, AgentTypes
<1>2. /\ Nodes' = Nodes \cup {c} /\ agents'[c] = Child(p, c)
      /\ \A x \in Nodes : /\ Kept(x) /\ agents'[x].pc = agents[x].pc /\ agents'[x].tool = agents[x].tool
                          /\ agents'[x].todo = IF x = p THEN agents[p].todo - 1 ELSE agents[x].todo
  BY Siblings
<1>3. /\ Range(ChildPath(p, c)) = T(p) \cup {c}
      /\ Child(p, c).kind = "child" /\ Child(p, c).parent = p
      /\ Child(p, c).path = ChildPath(p, c) /\ Child(p, c).tool = ChildPath(p, c)
      /\ Child(p, c).pc = "creates" /\ Child(p, c).todo = 0
  BY <1>1, ChildIs
<1>4. P(c)' = T(p) \cup {c} /\ T(c)' = P(c)'
  BY <1>1, <1>2, <1>3 DEF P, T
<1>5. \A x \in Nodes : P(x)' = P(x) /\ T(x)' = T(x)
  BY <1>2 DEF P, T, Kept
<1>6. \A x \in Nodes : agents'[x].todo > 0 => agents[x].todo > 0
  BY <1>1, <1>2
<1> QED BY <1>1, <1>2, <1>3, <1>4, <1>5, <1>6 DEF Kept

LEMMA CountFrame ==
  ASSUME TypeInv, NEW p, SpawnBatch(p) \/ RefuseSibling(p)
  PROVE  /\ p \in Nodes /\ Nodes' = Nodes /\ agents[p].todo \in 0 .. 2
         /\ UNCHANGED <<rows, chain, resume, clearing, batched, returned, cleared>>
         /\ \A x \in Nodes : Stays(x) /\ agents'[x].pc = agents[x].pc
<1>1. /\ p \in Nodes /\ agents[p].todo \in 0 .. 2
      /\ UNCHANGED <<rows, chain, resume, clearing, batched, returned, cleared>>
  BY DEF SpawnBatch, RefuseSibling, Nodes, TypeInv, AgentTypes, AgentRecords, history
<1>2. PICK n \in 0 .. 2 : agents' = [agents EXCEPT ![p].todo = n]
  <2>1. CASE SpawnBatch(p)
    BY <2>1 DEF SpawnBatch
  <2>2. CASE RefuseSibling(p)
    <3>1. agents[p].todo - 1 \in 0 .. 2 /\ agents' = [agents EXCEPT ![p].todo = agents[p].todo - 1]
      BY <1>1, <2>2 DEF RefuseSibling
    <3> QED BY <3>1
  <2> QED BY <2>1, <2>2
<1> QED BY <1>1, <1>2, Counted

LEMMA RootFrame ==
  ASSUME TypeInv, StartRoot, Overlap = FALSE, NEW c, c = created + 1
  PROVE  /\ Nodes = {} /\ resume = NotResuming /\ clearing = "no" /\ created' = c
         /\ Nodes' = {c} /\ UNCHANGED <<batched, chain, rows, resume, clearing>>
         /\ agents'[c].kind = "root" /\ agents'[c].pc = "creates" /\ agents'[c].todo = 0
         /\ P(c)' = {c} /\ T(c)' = P(c)'
<1>1. /\ Nodes = {} /\ resume = NotResuming /\ clearing = "no" /\ created' = c
      /\ UNCHANGED <<batched, chain, rows, resume, clearing>>
  BY DEF StartRoot, Quiet, Nodes, history
<1>2. Nodes' = {c} /\ agents'[c] = Agent("root", None, <<c>>, 0, "creates")
  BY <1>1 DEF StartRoot, Put, Nodes
<1>3. Range(<<c>>) = {c}
  BY DEF Range
<1> QED BY <1>1, <1>2, <1>3 DEF Agent, P, T

LEMMA ResumedFrame ==
  ASSUME TypeInv, WalkInv, ResumeAgent, NEW id, id = resume.read[resume.at]
  PROVE  /\ Nodes = {} /\ Nodes' = {id} /\ id \in Held /\ resume.phase = "walk" /\ resume.at > 0
         /\ UNCHANGED <<batched, chain, rows, resume, clearing, cleared, created>>
         /\ agents'[id].kind = "resumed" /\ agents'[id].pc = "works" /\ agents'[id].todo = 0
         /\ P(id)' = U /\ T(id)' = U
<1>1. /\ id \in Held /\ resume.phase = "walk" /\ resume.at > 0 /\ id \notin Nodes
      /\ UNCHANGED <<batched, chain, rows, resume, clearing, cleared, created>>
  BY DEF ResumeAgent, NextInChain, Nodes, Held, history
<1>2. Nodes = {}
  BY <1>1 DEF WalkInv
<1>3. Nodes' = {id} /\ agents'[id] = Agent("resumed", rows[id].parent, Upto(resume.at), 0, "works")
  BY <1>2 DEF ResumeAgent, Put, Nodes
<1> QED BY <1>1, <1>2, <1>3 DEF Agent, P, T, U

LEMMA AgentsNext ==
  ASSUME Overlap = FALSE, TypeInv, TypeInv', AgentsInv, WalkInv, [Next]_vars
  PROVE  AgentsInv'
<1>0. TreeInv /\ AboveInv /\ ToolInv /\ BatchInv /\ created \in Nat /\ created' \in Nat
  BY Bounds DEF AgentsInv, TypeInv, StoreTypes
<1>1. ASSUME NEW a \in Nodes, NEW to \in Places \ {"creates"}, agents' = Goto(a, to),
             Idle(a) \/ agents[a].pc # "works", UNCHANGED <<created, batched>>
      PROVE  AgentsInv'
  <2>1. Leaf(a)
    BY <1>0, <1>1, Leaves
  <2>2. \A x \in Nodes : agents[x].todo > 0 => agents[x].pc = "works" \/ created = MaxAgents
    BY <1>0 DEF BatchInv
  <2>3. agents[a].todo > 0 => created = MaxAgents
    BY <1>1, <2>2 DEF Idle
  <2>4. Nodes' = Nodes
        /\ \A x \in Nodes : /\ Stays(x) /\ agents'[x].todo = agents[x].todo
                            /\ agents'[x].pc = IF x = a THEN to ELSE agents[x].pc
    BY <1>1, Moved
  <2>5. \A x \in Nodes : agents'[x].todo > 0 => agents'[x].pc = "works" \/ created' = MaxAgents
    BY <1>1, <2>2, <2>3, <2>4
  <2> QED BY <1>1, <2>1, <2>4, <2>5, LeavesMove
<1>2. ASSUME NEW a \in Nodes, agents' = Gone(a), Idle(a) \/ agents[a].pc # "works",
             UNCHANGED <<created, batched>>
      PROVE  AgentsInv'
  <2>1. Leaf(a)
    BY <1>0, <1>2, Leaves
  <2>2. \A x \in Nodes : agents[x].todo > 0 => agents[x].pc = "works" \/ created = MaxAgents
    BY <1>0 DEF BatchInv
  <2>3. Nodes' = Nodes \ {a}
        /\ \A x \in Nodes' : Stays(x) /\ agents'[x].pc = agents[x].pc /\ agents'[x].todo = agents[x].todo
    BY <1>2, Removed
  <2>4. \A x \in Nodes' : agents'[x].todo > 0 => agents'[x].pc = "works" \/ created' = MaxAgents
    BY <1>2, <2>2, <2>3
  <2> QED BY <1>2, <2>1, <2>3, <2>4, LeavesMove
<1>3. ASSUME UNCHANGED <<agents, created, batched>> PROVE AgentsInv'
  <2>1. \A x \in Nodes : agents[x].todo > 0 => agents[x].pc = "works" \/ created = MaxAgents
    BY <1>0 DEF BatchInv
  <2>2. Nodes' = Nodes
        /\ \A x \in Nodes : Stays(x) /\ agents'[x].pc = agents[x].pc /\ agents'[x].todo = agents[x].todo
    BY <1>3, Unmoved
  <2> QED BY <1>3, <2>1, <2>2, LeavesMove
<1>4. ASSUME NEW a \in Ids, RefuseSibling(a) PROVE AgentsInv'
  <2>1. /\ a \in Nodes /\ agents[a].todo \in 0 .. 2 /\ agents[a].todo > 0
        /\ agents' = [agents EXCEPT ![a].todo = agents[a].todo - 1]
        /\ created < MaxAgents /\ created' = created + 1 /\ batched' = batched
    BY <1>4 DEF RefuseSibling, Nodes, TypeInv, AgentTypes, AgentRecords, history
  <2>2. agents[a].todo - 1 \in 0 .. 2
    BY <2>1
  <2>3. Nodes' = Nodes
        /\ \A x \in Nodes : /\ Stays(x) /\ agents'[x].pc = agents[x].pc
                            /\ agents'[x].todo = IF x = a THEN agents[a].todo - 1 ELSE agents[x].todo
    BY <2>1, <2>2, Counted
  <2>4. \A x \in Nodes : agents'[x].todo > 0 => agents[x].todo > 0
    BY <2>1, <2>3
  <2>5. \A x \in Nodes : agents[x].todo > 0 => agents[x].pc = "works"
    BY <1>0, <2>1, Bounds DEF BatchInv
  <2> QED BY <2>1, <2>3, <2>4, <2>5, LeavesMove
<1>5. ASSUME NEW a \in Ids, SpawnBatch(a) PROVE AgentsInv'
  <2>1. /\ a \in Nodes /\ Idle(a) /\ UNCHANGED <<created, batched>> /\ agents[a].pc = "works"
        /\ agents' = [agents EXCEPT ![a].todo = 2]
    BY <1>5 DEF SpawnBatch, Nodes, Idle, history
  <2>2. Leaf(a)
    BY <1>0, <2>1, Leaves
  <2>3. PICK n \in 0 .. 2 : agents' = [agents EXCEPT ![a].todo = n]
    BY <2>1
  <2>4. /\ Nodes' = Nodes
        /\ \A x \in Nodes : /\ Stays(x) /\ agents'[x].pc = agents[x].pc
                            /\ x # a => agents'[x].todo = agents[x].todo
    BY <2>1, <2>3, Counted
  <2>5. \A x \in Nodes : agents[x].todo > 0 => agents[x].pc = "works" \/ created = MaxAgents
    BY <1>0 DEF BatchInv
  <2> QED BY <2>1, <2>2, <2>4, <2>5, LeavesMove
<1>6. ASSUME NEW p \in Ids, Spawn(p) PROVE AgentsInv'
  <2> DEFINE n == created + 1
  <2>1. PICK c : c = n
    OBVIOUS
  <2>2. /\ p \in Nodes /\ Idle(p) /\ created < MaxAgents /\ created' = c
        /\ Nodes' = Nodes \cup {c} /\ UNCHANGED batched
        /\ agents'[c].kind = "child" /\ agents'[c].parent = p /\ agents'[c].pc = "creates"
        /\ agents'[c].todo = 0 /\ agents[p].todo = 0
        /\ P(c)' = T(p) \cup {c} /\ T(c)' = P(c)' /\ T(p)' = P(c)'
        /\ \A x \in Nodes :
             /\ agents'[x].kind = agents[x].kind /\ agents'[x].parent = agents[x].parent
             /\ agents'[x].pc = agents[x].pc /\ agents'[x].todo = agents[x].todo
             /\ P(x)' = P(x) /\ (x # p => T(x)' = T(x))
    BY <1>6, <2>1, SpawnFrame
  <2>3. Leaf(p) /\ (\A x \in Nodes : p \in P(x) => x = p) /\ agents[p].pc = "works"
    BY <1>0, <2>2, Leaves DEF Idle
  <2>4. \A x \in Nodes : x \notin T(p) \ P(p)
    BY <1>0, <2>2, <2>3 DEF ToolInv, Leaf
  <2>5. c \notin batched'
    BY <1>0, <2>1, <2>2 DEF AgentsInv
  <2>6. \A x \in Nodes : /\ T(x)' = T(x) \/ (x = p /\ T(x)' = P(c)' /\ c \notin batched')
                         /\ agents'[x].todo > 0 => agents[x].todo > 0 /\ (x = p => c \in batched')
    BY <2>2, <2>5
  <2> QED BY <2>1, <2>2, <2>3, <2>4, <2>6, ChildStarts
<1>7. ASSUME NEW p \in Ids, StartSibling(p) PROVE AgentsInv'
  <2> DEFINE n == created + 1
  <2>1. PICK c : c = n
    OBVIOUS
  <2>2. /\ p \in Nodes /\ agents[p].todo > 0 /\ created < MaxAgents /\ created' = c
        /\ Nodes' = Nodes \cup {c} /\ batched' = batched \cup {c}
        /\ agents'[c].kind = "child" /\ agents'[c].parent = p /\ agents'[c].pc = "creates"
        /\ agents'[c].todo = 0
        /\ P(c)' = T(p) \cup {c} /\ T(c)' = P(c)'
        /\ \A x \in Nodes :
             /\ agents'[x].kind = agents[x].kind /\ agents'[x].parent = agents[x].parent
             /\ agents'[x].pc = agents[x].pc /\ (agents'[x].todo > 0 => agents[x].todo > 0)
             /\ P(x)' = P(x) /\ T(x)' = T(x)
    BY <1>7, <2>1, SiblingFrame
  <2>3. agents[p].pc = "works" /\ \A x \in Nodes : IsChild(x, p) => x \in batched
    BY <1>0, <2>2, Bounds DEF BatchInv
  <2>4. \A x \in Nodes : x \notin T(p) \ P(p)
    BY <1>0, <2>2, <2>3 DEF ToolInv
  <2>5. \A s \in Nodes : P(s) \cap batched = {} /\ p \in P(s) => s = p
    BY <1>0, <2>2, <2>3 DEF AboveInv
  <2> QED BY <2>1, <2>2, <2>3, <2>4, <2>5, ChildStarts
<1>8. CASE StartRoot
  <2>1. PICK c : c = created + 1
    OBVIOUS
  <2>2. /\ Nodes' = {c} /\ UNCHANGED batched /\ created' = c /\ P(c)' = {c} /\ T(c)' = P(c)'
        /\ agents'[c].kind = "root" /\ agents'[c].todo = 0
    BY <1>8, <2>1, RootFrame
  <2>3. created <= created' /\ c \in P(c)' /\ \A x \in P(c)' : x <= c
    BY <1>0, <2>1, <2>2
  <2> QED BY <1>0, <2>2, <2>3, FirstAgent
<1>9. CASE ResumeAgent
  <2>1. PICK id : id = resume.read[resume.at]
    OBVIOUS
  <2>2. /\ Nodes' = {id} /\ UNCHANGED <<batched, created>> /\ P(id)' = U /\ T(id)' = U /\ resume.at > 0
        /\ agents'[id].kind = "resumed" /\ agents'[id].todo = 0 /\ agents'[id].pc = "works"
    BY <1>9, <2>1, ResumedFrame
  <2>3. id \in U /\ \A x \in U : x <= id
    BY <2>1, <2>2, UptoIs DEF TypeInv
  <2>4. created <= created'
    BY <1>0, <2>2
  <2> QED BY <1>0, <2>2, <2>3, <2>4, FirstAgent
<1>10. ASSUME NEW a \in Ids, Progress(a) PROVE AgentsInv'
  <2>1. CASE StoreRow(a) \/ StoreChain(a) \/ Finish(a)
    BY <2>1, <1>1 DEF StoreRow, StoreChain, Finish, At, Nodes, Places, history
  <2>2. CASE Fail(a)
    <3>1. a \in Nodes
      BY <2>2 DEF Fail, Nodes
    <3> QED BY <2>2, <3>1, <1>1, <1>2 DEF Fail, Places
  <2>3. CASE Pop(a) \/ PopResumed(a) \/ AbortResume(a)
    BY <2>3, <1>2 DEF Pop, PopResumed, AbortResume, At, Nodes, history
  <2> QED BY <1>4, <1>10, <2>1, <2>2, <2>3 DEF Progress
<1>11. CASE Crash
  <2>1. Nodes' = {} /\ UNCHANGED <<batched, created>>
    BY <1>11 DEF Crash, Restrict, Nodes, history
  <2> QED BY <2>1, NoAgents
<1>12. CASE ResumeStep
  BY <1>3, <1>9, <1>12
     DEF ResumeStep, BeginResume, SkipResume, ResumeMissing, EndResume, history
<1>13. CASE ClearAgentChain \/ ClearPeerData
  BY <1>3, <1>13 DEF ClearAgentChain, ClearPeerData, history
<1>14. CASE UNCHANGED vars
  BY <1>3, <1>14 DEF vars, history
<1> QED BY <1>5, <1>6, <1>7, <1>8, <1>10, <1>11, <1>12, <1>13, <1>14 DEF Next

-----------------------------------------------------------------------------
(* Where resumeChain is.                                                    *)

LEMMA WalkStays ==
  ASSUME WalkInv, UNCHANGED resume, Nodes # {}, Nodes \subseteq Nodes',
         \A x \in Nodes : agents'[x].kind = agents[x].kind,
         \A x \in Nodes' \ Nodes : agents'[x].kind = "child"
  PROVE  WalkInv'
<1>1. /\ resume.phase # "walk" => resume.at = 0
      /\ resume.phase # "due"
      /\ \A a \in Nodes : agents[a].kind = "root" => resume.phase = "idle"
      /\ resume.phase = "walk" => resume.at > 0 /\ resume.read[resume.at] \in Nodes
      /\ resume.phase = "walk" => agents[resume.read[resume.at]].kind = "resumed"
  BY DEF WalkInv
<1>2. \A a \in Nodes' : agents'[a].kind = "root" => resume.phase = "idle"
  BY <1>1
<1>3. Nodes' # {} /\ (resume.phase = "walk" => resume.read[resume.at] \in Nodes')
  BY <1>1
<1> QED BY <1>1, <1>2, <1>3 DEF WalkInv

LEMMA WalkRests == ASSUME resume'.phase = "idle", resume'.at = 0 PROVE WalkInv'
BY DEF WalkInv

LEMMA WalkGoesOn ==
  ASSUME resume'.phase = "walk", Nodes' = {}, chain' = Upto(resume.at)' PROVE WalkInv'
BY DEF WalkInv

LEMMA WalkNext ==
  ASSUME Overlap = FALSE, TypeInv, AgentsInv, WalkInv, [Next]_vars
  PROVE  WalkInv'
<1>0. TreeInv /\ AboveInv
  BY DEF AgentsInv
<1>1. ASSUME NEW a \in Nodes, NEW to \in Places, agents' = Goto(a, to), UNCHANGED resume PROVE WalkInv'
  <2>1. Nodes' = Nodes /\ \A x \in Nodes : agents'[x].kind = agents[x].kind
    BY <1>1, Moved DEF Stays
  <2> QED BY <1>1, <2>1, WalkStays
<1>2. ASSUME NEW a \in Nodes, agents[a].kind = "root", UNCHANGED resume PROVE WalkInv'
  BY <1>2, WalkRests DEF WalkInv
<1>3. ASSUME NEW a \in Ids, Pop(a) PROVE WalkInv'
  <2>1. /\ a \in Nodes /\ agents[a].pc = "pops" /\ agents' = Gone(a) /\ UNCHANGED resume
        /\ agents[a].kind \in {"root", "child"}
    BY <1>3 DEF Pop, At, Nodes, TypeInv, AgentTypes, AgentRecords
  <2>2. CASE agents[a].kind = "child"
    <3>1. Nodes' = Nodes \ {a} /\ \A x \in Nodes' : agents'[x].kind = agents[x].kind
      BY <2>1, Removed DEF Stays
    <3>2. agents[a].parent \in Nodes'
      BY <1>0, <2>1, <2>2, <3>1 DEF TreeInv
    <3>3. /\ resume.phase # "walk" => resume.at = 0
          /\ resume.phase # "due"
          /\ \A x \in Nodes : agents[x].kind = "root" => resume.phase = "idle"
          /\ resume.phase = "walk" => resume.at > 0 /\ resume.read[resume.at] \in Nodes
          /\ resume.phase = "walk" => agents[resume.read[resume.at]].kind = "resumed"
      BY <2>1 DEF WalkInv
    <3>4. resume.phase = "walk" => resume.read[resume.at] \in Nodes'
      BY <2>2, <3>1, <3>3
    <3>5. Nodes' # {} /\ \A x \in Nodes' : agents'[x].kind = "root" => resume.phase = "idle"
      BY <3>1, <3>2, <3>3
    <3> QED BY <2>1, <3>1, <3>3, <3>4, <3>5 DEF WalkInv
  <2> QED BY <1>2, <2>1, <2>2
<1>4. ASSUME NEW a \in Ids, PopResumed(a) PROVE WalkInv'
  <2>1. /\ a \in Nodes /\ agents[a].pc = "pops" /\ agents' = Gone(a)
        /\ agents[a].kind = "resumed"
        /\ chain' = Upto(resume.at - 1) /\ resume' = [resume EXCEPT !.at = @ - 1]
    BY <1>4 DEF PopResumed, At, Nodes, SaveChain
  <2>2. Nodes = {a}
    BY <1>0, <2>1, Alone
  <2>3. Nodes' = {} /\ resume.phase = "walk"
    BY <2>1, <2>2, Removed DEF TypeInv, WalkTypes
  <2>4. resume'.phase = "walk" /\ resume'.at = resume.at - 1 /\ resume'.read = resume.read
    BY <2>1, <2>3 DEF TypeInv, WalkTypes
  <2> QED BY <2>1, <2>3, <2>4, WalkGoesOn DEF Upto
<1>5. CASE ResumeMissing
  <2>1. /\ resume.phase = "walk" /\ resume.at > 0 /\ resume.read[resume.at] \notin Nodes
        /\ chain' = Upto(resume.at - 1) /\ resume' = [resume EXCEPT !.at = @ - 1]
        /\ agents' = agents
    BY <1>5 DEF ResumeMissing, NextInChain, SaveChain, Nodes
  <2>2. Nodes' = {}
    BY <2>1 DEF WalkInv, Nodes
  <2>3. resume'.phase = "walk" /\ resume'.at = resume.at - 1 /\ resume'.read = resume.read
    BY <2>1 DEF TypeInv, WalkTypes
  <2> QED BY <2>1, <2>2, <2>3, WalkGoesOn DEF Upto
<1>6. CASE BeginResume
  <2>1. /\ resume' = [phase |-> "walk", at |-> Len(chain), read |-> chain]
        /\ chain' = chain /\ Nodes' = {}
    BY <1>6 DEF BeginResume, WalkInv, Nodes
  <2>2. chain \in Seq(1 .. created)
    BY DEF TypeInv, StoreTypes, Ups
  <2>3. SubSeq(chain, 1, Len(chain)) = chain
    BY <2>2, SubSeqFull
  <2> QED BY <2>1, <2>3, WalkGoesOn DEF Upto
<1>7. CASE ResumeAgent
  <2>1. PICK id : id = resume.read[resume.at]
    OBVIOUS
  <2>2. /\ Nodes' = {id} /\ resume.phase = "walk" /\ resume.at > 0 /\ UNCHANGED resume
        /\ agents'[id].kind = "resumed"
    BY <1>7, <2>1, ResumedFrame
  <2> QED BY <2>1, <2>2 DEF WalkInv
<1>8. CASE SkipResume \/ EndResume \/ StartRoot
  <2>1. CASE StartRoot
    <3>1. resume' = NotResuming
      BY <2>1 DEF StartRoot, Quiet
    <3> QED BY <3>1, WalkRests DEF NotResuming
  <2>2. CASE SkipResume \/ EndResume
    BY <2>2, WalkRests DEF SkipResume, EndResume, NotResuming
  <2> QED BY <1>8, <2>1, <2>2
<1>9. ASSUME NEW a \in Ids, AbortResume(a) PROVE WalkInv'
  BY <1>9, WalkRests DEF AbortResume, NotResuming
<1>10. CASE Crash
  BY <1>10 DEF Crash, Restrict, Nodes, WalkInv
<1>11. CASE ClearAgentChain \/ ClearPeerData
  <2>1. /\ UNCHANGED <<agents, resume>> /\ Nodes' = Nodes /\ chain' = <<>>
        /\ clearing' = "rows" \/ Held' = {}
    BY <1>11 DEF ClearAgentChain, ClearPeerData, SaveChain, Nodes, Held, Restrict
  <2>2. CASE Nodes # {}
    BY <2>1, <2>2, WalkStays
  <2>3. CASE Nodes = {}
    BY <2>1, <2>3 DEF WalkInv
  <2> QED BY <2>2, <2>3
<1>12. ASSUME NEW p \in Ids, Spawn(p) \/ StartSibling(p) PROVE WalkInv'
  <2>1. PICK c : c = created + 1
    OBVIOUS
  <2>2. /\ p \in Nodes /\ Nodes' = Nodes \cup {c} /\ agents'[c].kind = "child"
        /\ \A x \in Nodes : agents'[x].kind = agents[x].kind
    BY <1>12, <2>1, SpawnFrame, SiblingFrame
  <2>3. UNCHANGED resume
    BY <1>12 DEF Spawn, StartSibling
  <2> QED BY <2>2, <2>3, WalkStays
<1>13. ASSUME NEW p \in Ids, SpawnBatch(p) \/ RefuseSibling(p) PROVE WalkInv'
  <2>1. /\ p \in Nodes /\ UNCHANGED resume /\ Nodes' = Nodes
        /\ \A x \in Nodes : agents'[x].kind = agents[x].kind
    BY <1>13, CountFrame DEF Stays
  <2> QED BY <2>1, WalkStays
<1>14. ASSUME NEW a \in Ids, Progress(a) PROVE WalkInv'
  <2>1. CASE StoreRow(a) \/ StoreChain(a) \/ Finish(a)
    BY <2>1, <1>1 DEF StoreRow, StoreChain, Finish, At, Nodes, Places
  <2>2. CASE Fail(a)
    <3>1. a \in Nodes
      BY <2>2 DEF Fail, Nodes
    <3> QED BY <2>2, <3>1, <1>1, <1>2 DEF Fail, Places
  <2> QED BY <1>3, <1>4, <1>9, <1>13, <1>14, <2>1, <2>2 DEF Progress
<1>15. CASE UNCHANGED vars
  BY <1>15 DEF vars, WalkInv, Nodes, Upto, U, Held
<1> QED BY <1>5, <1>6, <1>7, <1>8, <1>10, <1>11, <1>12, <1>13, <1>14, <1>15 DEF Next, ResumeStep

-----------------------------------------------------------------------------
(* The sets of ids that a chain may consist of.                             *)

LEMMA EmptyIsGood == {} \in Good /\ {} \in Good'
BY DEF Good

LEMMA GoodWithout ==
  ASSUME NEW S \in Good, NEW a, a \notin Held
  PROVE  S \ {a} \in Good
<1> SUFFICES ASSUME NEW x \in S \ {a}, NEW y \in S \ {a}, x < y
             PROVE  /\ x \in Nodes /\ y \in Held => y \in Nodes
                    /\ x \in Nodes /\ y \in Nodes => x \in P(y)
                    /\ x \in Held /\ y \in Held /\ (\A z \in (S \ {a}) \cap Held : z <= x \/ y <= z)
                         => rows[y].parent = x
  BY DEF Good
<1>1. (S \ {a}) \cap Held = S \cap Held
  OBVIOUS
<1> QED BY <1>1 DEF Good

\* Nothing that concerns the ids of S changes, or nobody works any more.
LEMMA GoodStays ==
  ASSUME NEW S \in Good, Nodes' \cap S \subseteq Nodes, Held' \cap S = Held \cap S,
         \A y \in S \cap Held : rows'[y].parent = rows[y].parent,
         \A x \in S \cap Nodes' : P(x)' = P(x),
         Nodes' = {} \/ \A y \in S \cap Held \cap Nodes : y \in Nodes'
  PROVE  S \in Good'
<1> SUFFICES ASSUME NEW x \in S, NEW y \in S, x < y
             PROVE  /\ x \in Nodes' /\ y \in Held' => y \in Nodes'
                    /\ x \in Nodes' /\ y \in Nodes' => x \in P(y)'
                    /\ x \in Held' /\ y \in Held' /\ (\A z \in S \cap Held' : z <= x \/ y <= z)
                         => rows'[y].parent = x
  BY DEF Good
<1>1. /\ x \in Nodes /\ y \in Held => y \in Nodes
      /\ x \in Nodes /\ y \in Nodes => x \in P(y)
      /\ x \in Held /\ y \in Held /\ (\A z \in S \cap Held : z <= x \/ y <= z)
           => rows[y].parent = x
  BY DEF Good
<1> QED BY <1>1

\* The row of an agent that is above nobody is deleted.
LEMMA GoodDeleted ==
  ASSUME NEW S \in Good, NEW a \in Nodes, Nodes' = Nodes, DeleteRow(a),
         \A x \in Nodes : P(x)' = P(x), \A x \in Nodes : a \in P(x) => x = a
  PROVE  S \in Good'
<1>1. Held' = Held \ {a} /\ \A y \in Held' : rows'[y] = rows[y]
  BY DEF DeleteRow, Restrict, Held
<1> SUFFICES ASSUME NEW x \in S, NEW y \in S, x < y
             PROVE  /\ x \in Nodes' /\ y \in Held' => y \in Nodes'
                    /\ x \in Nodes' /\ y \in Nodes' => x \in P(y)'
                    /\ x \in Held' /\ y \in Held' /\ (\A z \in S \cap Held' : z <= x \/ y <= z)
                         => rows'[y].parent = x
  BY DEF Good
<1>2. /\ x \in Nodes /\ y \in Held => y \in Nodes
      /\ x \in Nodes /\ y \in Nodes => x \in P(y)
      /\ x \in Held /\ y \in Held /\ (\A z \in S \cap Held : z <= x \/ y <= z)
           => rows[y].parent = x
  BY DEF Good
<1>3. ASSUME x \in Held', y \in Held', \A z \in S \cap Held' : z <= x \/ y <= z
      PROVE  rows'[y].parent = x
  <2>1. ASSUME a \in S, ~(a <= x), ~(y <= a) PROVE FALSE
    <3>1. x \in Nat /\ y \in Nat /\ a \in Nat
      BY <2>1 DEF Good
    <3>2. a < y
      BY <2>1, <3>1
    <3>3. y \in Nodes
      BY <1>1, <1>3, <2>1, <3>2 DEF Good
    <3>4. a \in P(y)
      BY <2>1, <3>2, <3>3 DEF Good
    <3> QED BY <1>1, <1>3, <3>3, <3>4
  <2>2. \A z \in S \cap Held : z <= x \/ y <= z
    BY <1>1, <1>3, <2>1
  <2> QED BY <1>1, <1>2, <1>3, <2>2
<1> QED BY <1>1, <1>2, <1>3

\* All rows are deleted.
LEMMA GoodCleared ==
  ASSUME NEW S \in Good, Nodes' = Nodes, \A x \in Nodes : P(x)' = P(x), Held' = {}
  PROVE  S \in Good'
BY DEF Good

\* The agent that resumeChain starts is the last of the ids.
LEMMA GoodResumed ==
  ASSUME NEW S \in Good, NEW id \in S, \A x \in S : x <= id, Nodes' = {id}, UNCHANGED rows
  PROVE  S \in Good'
<1> SUFFICES ASSUME NEW x \in S, NEW y \in S, x < y
             PROVE  /\ x \in Nodes' /\ y \in Held' => y \in Nodes'
                    /\ x \in Nodes' /\ y \in Nodes' => x \in P(y)'
                    /\ x \in Held' /\ y \in Held' /\ (\A z \in S \cap Held' : z <= x \/ y <= z)
                         => rows'[y].parent = x
  BY DEF Good
<1>1. x # id
  <2>1. x \in Nat /\ y \in Nat /\ id \in Nat /\ y <= id
    BY DEF Good
  <2> QED BY <2>1
<1>2. Held' = Held
  BY DEF Held
<1>3. x \in Held /\ y \in Held /\ (\A z \in S \cap Held : z <= x \/ y <= z) => rows[y].parent = x
  BY DEF Good
<1> QED BY <1>1, <1>2, <1>3

-----------------------------------------------------------------------------
(* The store, step by step.                                                 *)

LEMMA SameStore ==
  ASSUME UNCHANGED <<rows, chain, resume>>
  PROVE  Held' = Held /\ C' = C /\ U' = U
BY DEF Held, C, U, Upto

LEMMA StoreIds ==
  ASSUME TypeInv
  PROVE  /\ created \in Nat /\ Held \subseteq 1 .. created /\ C \subseteq 1 .. created
         /\ U \subseteq 1 .. created /\ Nodes \subseteq 1 .. created
<1>1. created \in Nat /\ Held \subseteq 1 .. created /\ chain \in Ups(created) /\ Nodes \subseteq 1 .. created
  BY Bounds DEF TypeInv, StoreTypes, AgentTypes
<1>2. Upto(resume.at) \in Ups(created)
  BY UptoIs DEF TypeInv
<1> QED BY <1>1, <1>2, UpRange DEF C, U

\* Nobody works any more.
LEMMA StoreRests ==
  ASSUME Nodes' = {}, C' \in Good', U' \in Good'
  PROVE  StoreInv'
BY DEF StoreInv, RowInv, AncestorInv, GoodInv, RecordInv

LEMMA GoodRests ==
  ASSUME Nodes' = {}, UNCHANGED rows, NEW S \in Good PROVE S \in Good'
BY GoodStays DEF Held

\* No agent and nothing of the store changes, but more agents may be members of batches.
LEMMA StoreStays ==
  ASSUME StoreInv, Nodes' = Nodes, \A x \in Nodes : Stays(x) /\ agents'[x].pc = agents[x].pc,
         UNCHANGED <<rows, chain, resume, clearing, cleared>>, batched \subseteq batched'
  PROVE  StoreInv'
<1>1. Held' = Held /\ C' = C /\ U' = U
  BY SameStore
<1>2. RowInv'
  BY <1>1 DEF StoreInv, RowInv
<1>3. AncestorInv'
  BY <1>1 DEF StoreInv, AncestorInv, Stays
<1>4. \A S \in Good : S \in Good'
  BY <1>1, GoodStays DEF Stays
<1>5. GoodInv'
  BY <1>1, <1>4 DEF StoreInv, GoodInv, Stays
<1>6. RecordInv'
  BY <1>1 DEF StoreInv, RecordInv, Stays
<1> QED BY <1>2, <1>3, <1>5, <1>6 DEF StoreInv

\* An agent is created, and has no row yet.
LEMMA StoreOfChild ==
  ASSUME TypeInv, TreeInv, StoreInv, NEW p \in Nodes, NEW c, c = created + 1,
         Nodes' = Nodes \cup {c}, batched \subseteq batched',
         UNCHANGED <<rows, chain, resume, clearing, cleared>>,
         agents[p].pc = "works", \A x \in Nodes : x \notin T(p) \ P(p),
         agents'[c].kind = "child", agents'[c].parent = p, agents'[c].pc = "creates",
         P(c)' = T(p) \cup {c}, T(c)' = P(c)',
         \A x \in Nodes :
           /\ agents'[x].parent = agents[x].parent
           /\ agents'[x].pc = agents[x].pc /\ P(x)' = P(x)
           /\ T(x)' = T(x) \/ T(x)' = P(c)'
  PROVE  StoreInv'
<1>1. Held' = Held /\ C' = C /\ U' = U
  BY SameStore
<1>2. /\ c \notin Held /\ c \notin C /\ c \notin U /\ c \notin Nodes
      /\ \A x \in Nodes : c \notin P(x) /\ c \notin T(x)
      /\ \A x \in T(p) : x < c
  <2>1. c \notin 1 .. created /\ \A x \in 1 .. created : x < c
    BY StoreIds
  <2>2. \A x \in Nodes : P(x) \subseteq 1 .. created /\ T(x) \subseteq 1 .. created
    BY SetsOfIds
  <2> QED BY <2>1, <2>2, StoreIds
<1>3. RowInv'
  BY <1>1, <1>2 DEF StoreInv, RowInv
<1>4. AncestorInv'
  <2> SUFFICES ASSUME NEW a \in Nodes', NEW z \in P(a)' \ {a}, z \in Held'
               PROVE  IF agents'[a].pc = "creates"
                      THEN agents'[a].parent \in Held' /\ z <= agents'[a].parent
                      ELSE agents'[a].pc \in {"chains", "works"} => a \in Held'
    BY DEF AncestorInv
  <2>1. CASE a \in Nodes
    <3>1. /\ z \in P(a) \ {a} /\ z \in Held /\ agents'[a].parent = agents[a].parent
          /\ agents'[a].pc = agents[a].pc
      BY <1>1, <2>1
    <3> QED BY <1>1, <2>1, <3>1 DEF StoreInv, AncestorInv
  <2>2. CASE a = c
    <3>1. z \in T(p) /\ z \in Held /\ agents'[a].pc = "creates" /\ agents'[a].parent = p
      BY <1>1, <2>2
    <3>2. z \in P(p)
      <4>1. z \notin P(p) => p < z /\ p \in T(p)
        BY <3>1 DEF TreeInv
      <4>2. T(p) \in Good
        BY DEF StoreInv, GoodInv
      <4>3. z \notin P(p) => z \in Nodes
        BY <3>1, <4>1, <4>2 DEF Good
      <4> QED BY <3>1, <4>3
    <3>3. z <= p
      BY <3>2 DEF TreeInv
    <3>4. p \in Held
      BY <3>1, <3>2 DEF StoreInv, AncestorInv
    <3> QED BY <1>1, <3>1, <3>3, <3>4
  <2> QED BY <2>1, <2>2
<1>5. ASSUME NEW S \in Good, c \notin S PROVE S \in Good'
  <2>1. Nodes' \cap S \subseteq Nodes /\ \A x \in S \cap Nodes' : P(x)' = P(x)
    BY <1>5
  <2> QED BY <1>1, <1>5, <2>1, GoodStays
<1>6. P(c)' \in Good'
  <2>1. T(p) \in Good /\ T(p) \in Good'
    BY <1>2, <1>5 DEF StoreInv, GoodInv
  <2> SUFFICES ASSUME NEW x \in T(p) \cup {c}, NEW y \in T(p) \cup {c}, x < y
               PROVE  /\ x \in Nodes' /\ y \in Held' => y \in Nodes'
                      /\ x \in Nodes' /\ y \in Nodes' => x \in P(y)'
                      /\ x \in Held' /\ y \in Held' /\ (\A z \in (T(p) \cup {c}) \cap Held' : z <= x \/ y <= z)
                           => rows'[y].parent = x
    <3>1. T(p) \cup {c} \in SUBSET Nat
      BY <2>1, StoreIds DEF Good
    <3> QED BY <3>1 DEF Good
  <2>2. CASE x \in T(p) /\ y \in T(p)
    <3>1. (T(p) \cup {c}) \cap Held' = T(p) \cap Held'
      BY <1>1, <1>2
    <3> QED BY <2>1, <2>2, <3>1 DEF Good
  <2>3. CASE y = c
    <3>1. y \notin Held' /\ x \in T(p)
      BY <1>1, <1>2, <2>3, StoreIds
    <3>2. x \in P(c)'
      BY <3>1
    <3> QED BY <2>3, <3>1, <3>2
  <2>4. CASE x = c /\ y \in T(p)
    BY <1>2, <2>4, StoreIds, SetsOfIds
  <2> QED BY <2>2, <2>3, <2>4
<1>7. GoodInv'
  <2>1. C \in Good' /\ U \in Good'
    BY <1>2, <1>5 DEF StoreInv, GoodInv
  <2>2. \A a \in Nodes : P(a) \in Good' /\ T(a) \in Good'
    BY <1>2, <1>5 DEF StoreInv, GoodInv
  <2>3. \A a \in Nodes' : P(a)' \in Good' /\ T(a)' \in Good'
    BY <1>6, <2>2
  <2> QED BY <1>1, <2>1, <2>3 DEF GoodInv
<1>8. RecordInv'
  BY <1>1 DEF StoreInv, RecordInv
<1> QED BY <1>3, <1>4, <1>7, <1>8 DEF StoreInv

LEMMA StoreOfRoot ==
  ASSUME TypeInv, StoreInv, NEW c, c = created + 1, Nodes = {}, Nodes' = {c},
         UNCHANGED <<rows, chain, resume>>,
         P(c)' = {c}, T(c)' = P(c)', agents'[c].pc = "creates"
  PROVE  StoreInv'
<1>1. Held' = Held /\ C' = C /\ U' = U
  BY SameStore
<1>2. c \notin Held /\ c \notin C /\ c \notin U /\ c \in Nat
  BY StoreIds
<1>3. \A S \in Good : c \notin S => S \in Good'
  BY <1>1, GoodStays
<1>4. {c} \in Good'
  BY <1>2 DEF Good
<1>5. GoodInv'
  BY <1>1, <1>2, <1>3, <1>4 DEF StoreInv, GoodInv
<1> QED BY <1>1, <1>2, <1>5 DEF StoreInv, RowInv, AncestorInv, RecordInv

\* SaveAgentSession: the new row continues the chain of rows of the agent's path.
LEMMA StoreOfRow ==
  ASSUME TypeInv, AgentsInv, StoreInv, NEW a \in Ids, StoreRow(a)
  PROVE  StoreInv'
<1>0. TreeInv /\ AboveInv /\ ToolInv
  BY DEF AgentsInv
<1>1. a \in Nodes /\ agents[a].pc = "creates" /\ agents' = Goto(a, "chains") /\ "chains" \in Places
  BY DEF StoreRow, At, Nodes, Places
<1>2. /\ Nodes' = Nodes
      /\ \A x \in Nodes : Stays(x) /\ agents'[x].pc = IF x = a THEN "chains" ELSE agents[x].pc
  BY <1>1, Moved
<1>3. /\ Held' = Held \cup {a} /\ rows'[a].parent = agents[a].parent
      /\ \A r \in Held \ {a} : rows'[r] = rows[r]
      /\ UNCHANGED <<chain, resume, clearing, cleared, batched>>
  BY DEF StoreRow, SaveRow, Put, Held, history
<1>4. C' = C /\ U' = U /\ a \notin Held \cup C \cup U
  <2>1. a \notin Held \cup C \cup U
    BY <1>1 DEF StoreInv, RowInv
  <2> QED BY <1>3, <2>1 DEF C, U, Upto
<1>5. \A x \in Nodes : a \in P(x) => x = a
  BY <1>0, <1>1, Leaves
<1>6. RowInv'
  BY <1>2, <1>3, <1>4 DEF StoreInv, RowInv
<1>7. AncestorInv'
  <2> SUFFICES ASSUME NEW b \in Nodes, NEW z \in P(b) \ {b}, z \in Held'
               PROVE  IF agents'[b].pc = "creates"
                      THEN agents'[b].parent \in Held' /\ z <= agents'[b].parent
                      ELSE agents'[b].pc \in {"chains", "works"} => b \in Held'
    BY <1>2 DEF AncestorInv, Stays
  <2>1. CASE b = a
    BY <1>2, <1>3, <2>1
  <2>2. CASE b # a
    <3>1. z \in Held
      BY <1>3, <1>5, <2>2
    <3>2. IF agents[b].pc = "creates"
          THEN agents[b].parent \in Held /\ z <= agents[b].parent
          ELSE agents[b].pc \in {"chains", "works"} => b \in Held
      BY <3>1 DEF StoreInv, AncestorInv
    <3> QED BY <1>2, <1>3, <2>2, <3>2 DEF Stays
  <2> QED BY <2>1, <2>2
<1>8. ASSUME NEW S \in Good, a \notin S PROVE S \in Good'
  <2>1. Held' \cap S = Held \cap S /\ \A y \in S \cap Held : rows'[y].parent = rows[y].parent
    BY <1>3, <1>8
  <2> QED BY <1>2, <2>1, GoodStays DEF Stays
<1>9. P(a) \in Good'
  <2>1. P(a) \in Good /\ a \in P(a) /\ \A x \in P(a) : x <= a
    BY <1>0, <1>1 DEF StoreInv, GoodInv, TreeInv
  <2>2. P(a) \subseteq Nat
    BY <2>1 DEF Good
  <2> SUFFICES ASSUME NEW x \in P(a), NEW y \in P(a), x < y
               PROVE  /\ x \in Nodes' /\ y \in Held' => y \in Nodes'
                      /\ x \in Nodes' /\ y \in Nodes' => x \in P(y)'
                      /\ x \in Held' /\ y \in Held' /\ (\A z \in P(a) \cap Held' : z <= x \/ y <= z)
                           => rows'[y].parent = x
    BY <2>2 DEF Good
  <2>3. x \in Nodes' /\ y \in Nodes' => x \in P(y)'
    BY <1>2, <2>1 DEF Good, Stays
  <2>4. CASE y = a
    <3>1. y \in Nodes'
      BY <1>1, <1>2, <2>4
    <3>2. ASSUME x \in Held', \A z \in P(a) \cap Held' : z <= x \/ y <= z PROVE rows'[y].parent = x
      <4>1. x # a /\ x \in Held
        BY <1>3, <2>2, <2>4, <3>2
      <4>2. agents[a].parent \in Held /\ x <= agents[a].parent
        BY <1>1, <4>1 DEF StoreInv, AncestorInv
      <4>3. agents[a].kind = "child"
        <5>1. agents[a].kind # "root"
          BY <1>0, <1>1, <4>1 DEF TreeInv
        <5>2. agents[a].kind # "resumed"
          BY <1>0, <1>1 DEF TreeInv
        <5> QED BY <1>1, <5>1, <5>2 DEF TypeInv, AgentTypes, AgentRecords
      <4>4. agents[a].parent \in P(a) /\ agents[a].parent < a
        BY <1>0, <1>1, <4>3 DEF TreeInv
      <4>5. agents[a].parent <= x
        BY <1>3, <2>2, <2>4, <3>2, <4>2, <4>4
      <4> QED BY <1>3, <2>2, <2>4, <4>2, <4>4, <4>5
    <3> QED BY <2>3, <3>1, <3>2
  <2>5. CASE y # a
    <3>1. y < a /\ x # a
      BY <2>1, <2>2, <2>5
    <3>2. (x \in Held' => x \in Held) /\ (y \in Held' => y \in Held)
      BY <1>3, <2>5, <3>1
    <3>3. ASSUME x \in Held', y \in Held', \A z \in P(a) \cap Held' : z <= x \/ y <= z
          PROVE  rows'[y].parent = x
      <4>1. \A z \in P(a) \cap Held : z <= x \/ y <= z
        BY <1>3, <3>3
      <4>2. rows[y].parent = x
        BY <2>1, <3>2, <3>3, <4>1 DEF Good
      <4> QED BY <1>3, <2>5, <3>2, <3>3, <4>2
    <3>4. x \in Nodes' /\ y \in Held' => y \in Nodes'
      BY <1>2, <2>1, <3>2 DEF Good
    <3> QED BY <2>3, <3>3, <3>4
  <2> QED BY <2>4, <2>5
<1>10. GoodInv'
  <2>1. C \in Good' /\ U \in Good'
    BY <1>4, <1>8 DEF StoreInv, GoodInv
  <2>2. ASSUME NEW b \in Nodes PROVE P(b) \in Good' /\ T(b) \in Good'
    <3>1. P(b) \in Good'
      BY <1>5, <1>8, <1>9, <2>2 DEF StoreInv, GoodInv
    <3>2. a \in T(b) => T(b) = P(a)
      <4>1. a \in P(b) => T(b) = P(a)
        BY <1>0, <1>1, <1>5, <2>2 DEF TreeInv
      <4>2. a \in T(b) \ P(b) => T(b) = P(a)
        BY <1>0, <1>1, <2>2 DEF ToolInv
      <4> QED BY <4>1, <4>2
    <3> QED BY <1>8, <1>9, <3>1, <3>2 DEF StoreInv, GoodInv
  <2> QED BY <1>2, <1>4, <2>1, <2>2 DEF GoodInv, Stays
<1>11. RecordInv'
  BY <1>2, <1>3, <1>4 DEF StoreInv, RecordInv, Stays
<1> QED BY <1>6, <1>7, <1>10, <1>11 DEF StoreInv

\* SaveAgentChain of beginRootSession and of createAgent.
LEMMA StoreOfChain ==
  ASSUME TypeInv, AgentsInv, StoreInv, NEW a \in Ids, StoreChain(a)
  PROVE  StoreInv'
<1>0. TreeInv /\ AboveInv /\ LineInv
  BY DEF AgentsInv
<1>1. a \in Nodes /\ agents[a].pc = "chains" /\ agents' = Goto(a, "works") /\ "works" \in Places
  BY DEF StoreChain, At, Nodes, Places
<1>2. /\ Nodes' = Nodes
      /\ \A x \in Nodes : Stays(x) /\ agents'[x].pc = IF x = a THEN "works" ELSE agents[x].pc
  BY <1>1, Moved
<1>3. Held' = Held /\ U' = U /\ C' = P(a) /\ UNCHANGED <<rows, clearing, cleared, batched>>
  BY DEF StoreChain, SaveChain, Held, U, Upto, C, P, history
<1>4. \A x \in Nodes : a \in P(x) => x = a
  BY <1>0, <1>1, Leaves
<1>5. ASSUME NEW x \in Nodes, x \in P(a), agents[x].pc # "works" PROVE x = a
  BY <1>0, <1>1, <1>5, Leaves
<1>6. RowInv'
  <2>1. \A x \in Nodes : agents[x].pc = "creates" => x \notin P(a)
    BY <1>1, <1>5
  <2> QED BY <1>1, <1>2, <1>3, <2>1 DEF StoreInv, RowInv
<1>7. AncestorInv'
  BY <1>1, <1>2, <1>3 DEF StoreInv, AncestorInv, Stays
<1>8. \A S \in Good : S \in Good'
  BY <1>2, <1>3, GoodStays DEF Stays
<1>9. GoodInv'
  BY <1>1, <1>2, <1>3, <1>8 DEF StoreInv, GoodInv, Stays
<1>10. RecordInv'
  <2> SUFFICES ASSUME clearing = "no", NEW x \in Nodes, agents'[x].pc = "works", P(x) \cap batched = {}
               PROVE  x \in P(a)
    BY <1>2, <1>3 DEF RecordInv, Stays
  <2>1. x \in P(a) \/ a \in P(x)
    BY <1>0, <1>1 DEF LineInv
  <2>2. a \in P(a)
    BY <1>0, <1>1 DEF TreeInv
  <2> QED BY <1>4, <2>1, <2>2
<1> QED BY <1>6, <1>7, <1>9, <1>10 DEF StoreInv

\* The row of an agent that is done is deleted.
LEMMA StoreOfEnd ==
  ASSUME TypeInv, AgentsInv, StoreInv, NEW a \in Nodes, Idle(a), NEW to \in {"pops", "aborts"},
         agents' = Goto(a, to), DeleteRow(a), UNCHANGED <<chain, resume, clearing, cleared, batched>>
  PROVE  StoreInv'
<1>0. TreeInv /\ AboveInv
  BY DEF AgentsInv
<1>1. to \in Places
  BY DEF Places
<1>2. /\ Nodes' = Nodes
      /\ \A x \in Nodes : Stays(x) /\ agents'[x].pc = IF x = a THEN to ELSE agents[x].pc
  BY <1>1, Moved
<1>3. Held' = Held \ {a} /\ U' = U /\ C' = C
  BY DEF DeleteRow, Restrict, Held, U, Upto, C
<1>4. Leaf(a) /\ \A x \in Nodes : a \in P(x) => x = a
  BY <1>0, Leaves
<1>5. RowInv'
  BY <1>2, <1>3 DEF StoreInv, RowInv
<1>6. AncestorInv'
  <2> SUFFICES ASSUME NEW b \in Nodes, NEW z \in P(b) \ {b}, z \in Held', b # a
               PROVE  IF agents'[b].pc = "creates"
                      THEN agents'[b].parent \in Held' /\ z <= agents'[b].parent
                      ELSE agents'[b].pc \in {"chains", "works"} => b \in Held'
    BY <1>2 DEF AncestorInv, Stays
  <2>1. IF agents[b].pc = "creates"
        THEN agents[b].parent \in Held /\ z <= agents[b].parent
        ELSE agents[b].pc \in {"chains", "works"} => b \in Held
    BY <1>3 DEF StoreInv, AncestorInv
  <2>2. ASSUME agents[b].pc = "creates" PROVE agents[b].parent # a
    <3>1. agents[b].kind # "root" /\ agents[b].kind # "resumed"
      BY <1>0, <2>2 DEF TreeInv
    <3>2. agents[b].kind = "child"
      BY <3>1 DEF TypeInv, AgentTypes, AgentRecords
    <3> QED BY <1>4, <3>2 DEF Leaf, IsChild
  <2> QED BY <1>2, <1>3, <2>1, <2>2 DEF Stays
<1>7. \A S \in Good : S \in Good'
  BY <1>2, <1>4, GoodDeleted DEF Stays
<1>8. GoodInv'
  BY <1>2, <1>3, <1>7 DEF StoreInv, GoodInv, Stays
<1>9. RecordInv'
  BY <1>2, <1>3 DEF StoreInv, RecordInv, Stays
<1> QED BY <1>5, <1>6, <1>8, <1>9 DEF StoreInv

\* popChain: the chain that the parent was stored under.
LEMMA StoreOfPop ==
  ASSUME TypeInv, AgentsInv, StoreInv, NEW a \in Ids, Pop(a), agents[a].kind = "child"
  PROVE  StoreInv'
<1>0. TreeInv /\ AboveInv /\ LineInv /\ created \in Nat
  BY Bounds DEF AgentsInv, TypeInv, StoreTypes
<1>1. a \in Nodes /\ agents[a].pc = "pops" /\ agents' = Gone(a)
  BY DEF Pop, At, Nodes
<1>2. Nodes' = Nodes \ {a} /\ \A x \in Nodes' : Stays(x) /\ agents'[x].pc = agents[x].pc
  BY <1>1, Removed
<1>3. C' = P(a) \ {a}
  <2>1. agents[a].path \in Ups(created) /\ a \in Range(agents[a].path)
        /\ \A x \in Range(agents[a].path) : x <= a
    BY <1>0, <1>1 DEF TypeInv, AgentTypes, AgentRecords, TreeInv, P
  <2>2. Range(Front(agents[a].path)) = Range(agents[a].path) \ {a}
    BY <1>0, <2>1, FrontDrops
  <2> QED BY <2>2 DEF Pop, SaveChain, PopTo, C, P
<1>4. Held' = Held /\ U' = U /\ UNCHANGED <<rows, clearing, cleared, batched>> /\ a \notin Held
  <2>1. a \notin Held
    BY <1>1 DEF StoreInv, RowInv
  <2> QED BY <2>1 DEF Pop, Held, U, Upto, history
<1>5. Leaf(a) /\ \A x \in Nodes : a \in P(x) => x = a
  BY <1>0, <1>1, Leaves
<1>6. RowInv'
  <2>1. \A x \in Nodes : agents[x].pc = "creates" /\ x \in P(a) => x = a
    BY <1>0, <1>1, Leaves
  <2> QED BY <1>2, <1>3, <1>4, <2>1 DEF StoreInv, RowInv
<1>7. AncestorInv'
  BY <1>2, <1>4 DEF StoreInv, AncestorInv, Stays
<1>8. \A S \in Good : S \in Good'
  BY <1>2, <1>4, GoodStays DEF Stays
<1>9. GoodInv'
  <2>1. P(a) \ {a} \in Good
    BY <1>1, <1>4, GoodWithout DEF StoreInv, GoodInv
  <2> QED BY <1>2, <1>3, <1>4, <1>8, <2>1 DEF StoreInv, GoodInv, Stays
<1>10. RecordInv'
  <2> SUFFICES ASSUME NEW x \in Nodes', P(x) \cap batched = {}
               PROVE  x \in P(a) \ {a}
    BY <1>2, <1>3, <1>4 DEF RecordInv, Stays
  <2>1. x \in P(a) \/ a \in P(x)
    BY <1>0, <1>1, <1>2 DEF LineInv
  <2> QED BY <1>2, <1>5, <2>1
<1> QED BY <1>6, <1>7, <1>9, <1>10 DEF StoreInv

\* runResumedAgent: the agent is the last of what resumeChain has to walk.
LEMMA StoreOfResumed ==
  ASSUME TypeInv, WalkInv, StoreInv, ResumeAgent
  PROVE  StoreInv'
<1>1. PICK id : id = resume.read[resume.at]
  OBVIOUS
<1>2. /\ Nodes = {} /\ Nodes' = {id} /\ id \in Held /\ resume.phase = "walk" /\ resume.at > 0
      /\ UNCHANGED <<batched, chain, rows, resume, clearing, cleared, created>>
      /\ agents'[id].pc = "works" /\ P(id)' = U /\ T(id)' = U
  BY <1>1, ResumedFrame
<1>3. Held' = Held /\ C' = C /\ U' = U
  BY <1>2, SameStore
<1>4. id \in U /\ \A x \in U : x <= id
  BY <1>1, <1>2, UptoIs DEF TypeInv
<1>5. \/ C = U
      \/ C = {} /\ (clearing = "rows" \/ U \cap Held = {})
  BY <1>2, EmptyIsUp DEF WalkInv, C, U
<1>6. U \in Good'
  BY <1>2, <1>4, GoodResumed DEF StoreInv, GoodInv
<1>7. GoodInv'
  BY <1>2, <1>3, <1>5, <1>6, EmptyIsGood DEF GoodInv
<1>8. RowInv' /\ AncestorInv'
  BY <1>2, <1>3 DEF RowInv, AncestorInv
<1>9. RecordInv'
  BY <1>2, <1>3, <1>4, <1>5 DEF RecordInv
<1> QED BY <1>7, <1>8, <1>9 DEF StoreInv

\* The two halves of /clear.
LEMMA StoreOfClear ==
  ASSUME TypeInv, StoreInv, ClearAgentChain \/ ClearPeerData
  PROVE  StoreInv'
<1>1. /\ Nodes' = Nodes /\ \A x \in Nodes : Stays(x) /\ agents'[x].pc = agents[x].pc
      /\ UNCHANGED <<resume, batched>> /\ chain' = <<>>
  <2>1. UNCHANGED <<agents, resume, batched>> /\ chain' = <<>>
    BY DEF ClearAgentChain, ClearPeerData, SaveChain, history
  <2> QED BY <2>1, Unmoved
<1>2. C' = {} /\ U' = U
  BY <1>1, EmptyIsUp DEF C, U, Upto
<1>3. CASE ClearAgentChain
  <2>1. Held' = Held /\ clearing' = "rows" /\ cleared' = cleared
        /\ \A r \in Held : rows'[r].parent = rows[r].parent
    <3>1. \A r \in Held : rows[r] \in [parent : (1 .. created) \cup {None}, status : {"active", "cancelled"}]
      BY DEF TypeInv, StoreTypes
    <3> QED BY <1>3, <3>1 DEF ClearAgentChain, Held, history
  <2>2. \A S \in Good : S \in Good'
    BY <1>1, <2>1, GoodStays DEF Stays
  <2>3. GoodInv'
    BY <1>1, <1>2, <2>2, EmptyIsGood DEF StoreInv, GoodInv, Stays
  <2>4. RowInv' /\ AncestorInv'
    BY <1>1, <1>2, <2>1 DEF StoreInv, RowInv, AncestorInv, Stays
  <2> QED BY <2>1, <2>3, <2>4 DEF StoreInv, RecordInv
<1>4. CASE ClearPeerData
  <2>1. Held' = {} /\ cleared' = cleared \cup Held
    BY <1>4 DEF ClearPeerData, Held, Restrict
  <2>2. \A S \in Good : S \in Good'
    BY <1>1, <2>1, GoodCleared DEF Stays
  <2>3. GoodInv'
    BY <1>1, <1>2, <2>2, EmptyIsGood DEF StoreInv, GoodInv, Stays
  <2>4. \A a \in Nodes : agents[a].pc \in {"chains", "works"} => a \in cleared'
    BY <2>1 DEF StoreInv, RowInv
  <2>5. RowInv' /\ AncestorInv' /\ RecordInv'
    BY <1>1, <1>2, <2>1, <2>4 DEF StoreInv, RowInv, AncestorInv, RecordInv, Stays
  <2> QED BY <2>3, <2>5 DEF StoreInv
<1> QED BY <1>3, <1>4

LEMMA StoreNext ==
  ASSUME Overlap = FALSE, TypeInv, AgentsInv, WalkInv, StoreInv, [Next]_vars
  PROVE  StoreInv'
<1>0. TreeInv /\ AboveInv /\ ToolInv /\ BatchInv
  BY DEF AgentsInv
<1>1. U \in Good /\ C \in Good
  BY DEF StoreInv, GoodInv
<1>2. ASSUME resume' = NotResuming PROVE U' = {}
  <2>1. SubSeq(<<>>, 1, 0) = <<>> /\ Range(<<>>) = {}
    BY EmptyIsUp
  <2>2. resume'.read = <<>> /\ resume'.at = 0
    BY <1>2 DEF NotResuming
  <2> QED BY <2>1, <2>2 DEF U, Upto
<1>3. resume.at > 0 => /\ Range(Upto(resume.at - 1)) = U \ {resume.read[resume.at]}
                       /\ Range(Upto(resume.at - 1)) \in SUBSET U
  BY UptoIs DEF TypeInv
<1>4. ASSUME NEW p \in Ids, Spawn(p) PROVE StoreInv'
  <2>1. PICK c : c = created + 1
    OBVIOUS
  <2>2. /\ p \in Nodes /\ Idle(p)
        /\ Nodes' = Nodes \cup {c} /\ UNCHANGED batched
        /\ agents'[c].kind = "child" /\ agents'[c].parent = p /\ agents'[c].pc = "creates"
        /\ P(c)' = T(p) \cup {c} /\ T(c)' = P(c)' /\ T(p)' = P(c)'
        /\ \A x \in Nodes :
             /\ agents'[x].parent = agents[x].parent /\ agents'[x].pc = agents[x].pc
             /\ P(x)' = P(x) /\ (x # p => T(x)' = T(x))
    BY <1>4, <2>1, SpawnFrame
  <2>3. Leaf(p) /\ agents[p].pc = "works"
    BY <1>0, <2>2, Leaves DEF Idle
  <2>4. \A x \in Nodes : x \notin T(p) \ P(p)
    BY <1>0, <2>2, <2>3 DEF ToolInv, Leaf
  <2>5. UNCHANGED <<rows, chain, resume, clearing, cleared>> /\ batched \subseteq batched'
    BY <1>4, <2>2 DEF Spawn, history
  <2>6. \A x \in Nodes : T(x)' = T(x) \/ T(x)' = P(c)'
    BY <2>2
  <2> QED BY <1>0, <2>1, <2>2, <2>3, <2>4, <2>5, <2>6, StoreOfChild
<1>5. ASSUME NEW p \in Ids, StartSibling(p) PROVE StoreInv'
  <2>1. PICK c : c = created + 1
    OBVIOUS
  <2>2. /\ p \in Nodes /\ agents[p].todo > 0 /\ created < MaxAgents
        /\ Nodes' = Nodes \cup {c} /\ batched' = batched \cup {c}
        /\ agents'[c].kind = "child" /\ agents'[c].parent = p /\ agents'[c].pc = "creates"
        /\ P(c)' = T(p) \cup {c} /\ T(c)' = P(c)'
        /\ \A x \in Nodes :
             /\ agents'[x].parent = agents[x].parent /\ agents'[x].pc = agents[x].pc
             /\ P(x)' = P(x) /\ T(x)' = T(x)
    BY <1>5, <2>1, SiblingFrame
  <2>3. agents[p].pc = "works" /\ \A x \in Nodes : IsChild(x, p) => x \in batched
    <3>1. created < MaxAgents => created # MaxAgents
      BY Bounds DEF TypeInv, StoreTypes
    <3> QED BY <1>0, <2>2, <3>1 DEF BatchInv
  <2>4. \A x \in Nodes : x \notin T(p) \ P(p)
    BY <1>0, <2>2, <2>3 DEF ToolInv
  <2>5. UNCHANGED <<rows, chain, resume, clearing, cleared>> /\ batched \subseteq batched'
    BY <1>5, <2>2 DEF StartSibling
  <2> QED BY <1>0, <2>1, <2>2, <2>3, <2>4, <2>5, StoreOfChild
<1>6. ASSUME NEW p \in Ids, SpawnBatch(p) \/ RefuseSibling(p) PROVE StoreInv'
  BY <1>6, CountFrame, StoreStays
<1>7. CASE StartRoot
  <2>1. PICK c : c = created + 1
    OBVIOUS
  <2>2. /\ Nodes = {} /\ Nodes' = {c} /\ UNCHANGED <<rows, chain, resume>>
        /\ P(c)' = {c} /\ T(c)' = P(c)' /\ agents'[c].pc = "creates"
    BY <1>7, <2>1, RootFrame
  <2> QED BY <2>1, <2>2, StoreOfRoot
<1>8. ASSUME NEW a \in Ids, Finish(a) PROVE StoreInv'
  BY <1>8, StoreOfEnd DEF Finish, Nodes
<1>9. ASSUME NEW a \in Ids, Fail(a) PROVE StoreInv'
  <2>1. a \in Nodes /\ Idle(a) /\ UNCHANGED <<chain, resume, clearing, cleared, batched>>
    BY <1>9 DEF Fail, Nodes
  <2>2. CASE agents[a].kind = "root"
    <3>1. agents' = Gone(a) /\ UNCHANGED rows
      BY <1>9, <2>2 DEF Fail
    <3>2. Nodes = {a}
      BY <1>0, <2>1, <2>2, Alone
    <3>3. Nodes' = {}
      BY <3>1, <3>2, Removed
    <3>4. C' = C /\ U' = U
      BY <2>1, <3>1, SameStore
    <3> QED BY <1>1, <3>1, <3>3, <3>4, GoodRests, StoreRests
  <2>3. CASE agents[a].kind # "root"
    <3>1. PICK to \in {"pops", "aborts"} : agents' = Goto(a, to) /\ DeleteRow(a)
      BY <1>9, <2>3 DEF Fail
    <3> QED BY <2>1, <3>1, StoreOfEnd
  <2> QED BY <2>2, <2>3
<1>10. ASSUME NEW a \in Ids, Pop(a) PROVE StoreInv'
  <2>1. a \in Nodes /\ agents[a].pc = "pops" /\ agents' = Gone(a) /\ UNCHANGED <<rows, resume>>
        /\ agents[a].kind \in {"root", "child"}
    BY <1>10 DEF Pop, At, Nodes, TypeInv, AgentTypes, AgentRecords
  <2>2. CASE agents[a].kind = "root"
    <3>1. Nodes = {a}
      BY <1>0, <2>1, <2>2, Alone
    <3>2. Nodes' = {}
      BY <2>1, <3>1, Removed
    <3>3. C' = {} /\ U' = U
      BY <1>10, <2>2, EmptyIsUp DEF Pop, SaveChain, PopTo, C, U, Upto
    <3> QED BY <1>1, <2>1, <3>2, <3>3, EmptyIsGood, GoodRests, StoreRests
  <2> QED BY <1>10, <2>1, <2>2, StoreOfPop
<1>11. ASSUME NEW a \in Ids, PopResumed(a) \/ AbortResume(a) PROVE StoreInv'
  <2>1. a \in Nodes /\ agents[a].pc \in {"pops", "aborts"} /\ agents' = Gone(a) /\ UNCHANGED rows
        /\ agents[a].kind = "resumed" /\ chain' = Upto(resume.at - 1)
    BY <1>11 DEF PopResumed, AbortResume, At, Nodes, SaveChain, TypeInv, AgentTypes
  <2>2. Nodes = {a}
    BY <1>0, <2>1, Alone
  <2>3. Nodes' = {} /\ resume.at > 0 /\ resume.read[resume.at] = a /\ a \notin Held
    BY <2>1, <2>2, Removed DEF TypeInv, WalkTypes, StoreInv, RowInv
  <2>4. C' = U \ {a}
    BY <1>3, <2>1, <2>3 DEF C
  <2>5. U' \in {U \ {a}, {}}
    <3>1. CASE AbortResume(a)
      BY <1>2, <3>1 DEF AbortResume, NotResuming
    <3>2. CASE PopResumed(a)
      <4>1. resume'.at = resume.at - 1 /\ resume'.read = resume.read
        BY <3>2 DEF PopResumed, TypeInv, WalkTypes
      <4> QED BY <1>3, <2>3, <4>1 DEF U, Upto
    <3> QED BY <1>11, <3>1, <3>2
  <2>6. U \ {a} \in Good'
    BY <1>1, <2>1, <2>3, GoodWithout, GoodRests
  <2> QED BY <2>3, <2>4, <2>5, <2>6, EmptyIsGood, StoreRests
<1>12. CASE ResumeMissing
  <2>1. /\ resume.phase = "walk" /\ resume.at > 0 /\ resume.read[resume.at] \notin Nodes \cup Held
        /\ chain' = Upto(resume.at - 1) /\ resume' = [resume EXCEPT !.at = @ - 1]
        /\ agents' = agents /\ UNCHANGED rows
    BY <1>12 DEF ResumeMissing, NextInChain, SaveChain, Nodes, Held
  <2>2. Nodes' = {}
    BY <2>1 DEF WalkInv, Nodes
  <2>3. C' = U \ {resume.read[resume.at]}
    BY <1>3, <2>1 DEF C
  <2>4. U' = U \ {resume.read[resume.at]}
    <3>1. resume'.at = resume.at - 1 /\ resume'.read = resume.read
      BY <2>1 DEF TypeInv, WalkTypes
    <3> QED BY <1>3, <2>1, <3>1 DEF U, Upto
  <2>5. U \ {resume.read[resume.at]} \in Good
    BY <1>1, <2>1, GoodWithout
  <2> QED BY <2>1, <2>2, <2>3, <2>4, <2>5, GoodRests, StoreRests
<1>13. CASE BeginResume
  <2>1. /\ resume' = [phase |-> "walk", at |-> Len(chain), read |-> chain]
        /\ chain' = chain /\ Nodes' = {} /\ UNCHANGED rows
    BY <1>13 DEF BeginResume, WalkInv, Nodes
  <2>2. chain \in Seq(1 .. created)
    BY DEF TypeInv, StoreTypes, Ups
  <2>3. SubSeq(chain, 1, Len(chain)) = chain
    BY <2>2, SubSeqFull
  <2>4. C' = C /\ U' = C
    BY <2>1, <2>3 DEF C, U, Upto
  <2> QED BY <1>1, <2>1, <2>4, GoodRests, StoreRests
<1>14. CASE SkipResume \/ EndResume
  <2>1. resume' = NotResuming /\ UNCHANGED <<chain, rows>> /\ Nodes' = {}
    <3>1. CASE SkipResume
      BY <3>1 DEF SkipResume, WalkInv, Nodes
    <3>2. CASE EndResume
      <4>1. Nodes = {} /\ agents' = agents
        BY <3>2 DEF EndResume, WalkInv
      <4> QED BY <3>2, <4>1 DEF EndResume, Nodes
    <3> QED BY <1>14, <3>1, <3>2
  <2>2. U' = {} /\ C' = C
    BY <1>2, <2>1 DEF NotResuming, C
  <2> QED BY <1>1, <2>1, <2>2, EmptyIsGood, GoodRests, StoreRests
<1>15. CASE Crash
  <2>1. Nodes' = {} /\ UNCHANGED <<chain, rows>> /\ resume' = [phase |-> "due", at |-> 0, read |-> <<>>]
    BY <1>15 DEF Crash, Restrict, Nodes
  <2>2. SubSeq(<<>>, 1, 0) = <<>> /\ Range(<<>>) = {}
    BY EmptyIsUp
  <2>3. U' = {} /\ C' = C
    BY <2>1, <2>2 DEF U, Upto, C
  <2> QED BY <1>1, <2>1, <2>3, EmptyIsGood, GoodRests, StoreRests
<1>16. CASE UNCHANGED vars
  BY <1>16, Unmoved, StoreStays DEF vars, history
<1>17. ASSUME NEW a \in Ids, Progress(a) PROVE StoreInv'
  BY <1>6, <1>8, <1>9, <1>10, <1>11, <1>17, StoreOfRow, StoreOfChain DEF Progress
<1> QED BY <1>4, <1>5, <1>6, <1>7, <1>12, <1>13, <1>14, <1>15, <1>16, <1>17, StoreOfResumed, StoreOfClear
        DEF Next, ResumeStep

-----------------------------------------------------------------------------
(* What the next start finds.                                               *)

LEMMA InitInv == Init => IInv
<1> SUFFICES ASSUME Init PROVE IInv
  OBVIOUS
<1>1. Nodes = {} /\ Held = {} /\ batched = {} /\ chain = <<>> /\ resume = NotResuming
  BY DEF Init, Nodes, Held
<1>2. C = {} /\ U = {}
  <2>1. SubSeq(<<>>, 1, 0) = <<>> /\ Range(<<>>) = {}
    BY EmptyIsUp
  <2> QED BY <1>1, <2>1 DEF NotResuming, C, U, Upto
<1>3. AgentsInv
  BY <1>1 DEF AgentsInv, TreeInv, AboveInv, ToolInv, BatchInv, LineInv
<1>4. WalkInv
  BY <1>1 DEF WalkInv, NotResuming
<1>5. StoreInv
  BY <1>1, <1>2, EmptyIsGood DEF StoreInv, RowInv, AncestorInv, GoodInv, RecordInv
<1> QED BY <1>3, <1>4, <1>5, InitTypes DEF IInv

LEMMA NextInv == Overlap = FALSE /\ IInv /\ [Next]_vars => IInv'
BY NextTypes, AgentsNext, WalkNext, StoreNext DEF IInv

LEMMA ChainIsRight == IInv => ChainDescribesWork
<1> SUFFICES ASSUME IInv PROVE ChainDescribesWork
  OBVIOUS
<1>1. /\ created \in Nat /\ chain \in Ups(created) /\ DOMAIN chain = 1 .. Len(chain)
      /\ Len(chain) \in Nat /\ \A i \in 1 .. Len(chain) : chain[i] \in 1 .. created /\ chain[i] \in C
  BY Bounds, UpRange DEF IInv, TypeInv, StoreTypes, C
<1>2. ResultGoesToParent
  <2> SUFFICES ASSUME NEW i \in 1 .. Len(chain), NEW j \in 1 .. Len(chain), i < j,
                      chain[i] \in Held, chain[j] \in Held,
                      \A k \in i + 1 .. j - 1 : chain[k] \notin Held
               PROVE  rows[chain[j]].parent = chain[i]
    BY DEF ResultGoesToParent, Held
  <2>1. \A k, l \in 1 .. Len(chain) : k < l => chain[k] < chain[l]
    BY <1>1 DEF Ups, Increasing
  <2>2. ASSUME NEW z \in C \cap Held PROVE z <= chain[i] \/ chain[j] <= z
    <3>1. PICK k \in 1 .. Len(chain) : z = chain[k]
      BY <1>1 DEF C, Range
    <3>2. k \notin i + 1 .. j - 1
      BY <2>2, <3>1
    <3>3. k <= i \/ j <= k
      BY <1>1, <3>2
    <3>4. CASE k <= i
      <4>1. k = i \/ chain[k] < chain[i]
        BY <1>1, <2>1, <3>4
      <4> QED BY <1>1, <3>1, <4>1
    <3>5. CASE j <= k
      <4>1. k = j \/ chain[j] < chain[k]
        BY <1>1, <2>1, <3>5
      <4> QED BY <1>1, <3>1, <4>1
    <3> QED BY <3>3, <3>4, <3>5
  <2>3. C \in Good /\ chain[i] \in C /\ chain[j] \in C /\ chain[i] < chain[j]
    BY <1>1, <2>1 DEF IInv, StoreInv, GoodInv
  <2> QED BY <2>2, <2>3 DEF Good
<1>3. InFlightIsRecorded
  <2> SUFFICES ASSUME clearing = "no", NEW a \in Nodes, agents[a].pc = "works",
                      P(a) \cap batched = {}, a \notin cleared
               PROVE  a \in Held /\ a \in C
    BY DEF InFlightIsRecorded, At, Solo, Nodes, Held, P, C
  <2> QED BY DEF IInv, StoreInv, RowInv, RecordInv
<1> QED BY <1>2, <1>3 DEF ChainDescribesWork

\* While a task begins only when no other agent of the peer works, the next start finds in
\* active_agent_chain every agent that works (a member of a batch apart), and hands each
\* result to the agent that waits for it, after any crash, resumption and /clear.
THEOREM StartFindsWork == ASSUME Overlap = FALSE PROVE Spec => []ChainDescribesWork
<1>1. IInv /\ [Next]_vars => IInv'
  BY NextInv
<1> QED BY <1>1, InitInv, ChainIsRight, PTL DEF Spec

=============================================================================
