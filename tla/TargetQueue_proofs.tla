------------------------- MODULE TargetQueue_proofs -------------------------
(***************************************************************************)
(* TargetQueue implements SerialLanes, for any agents and any jobs.         *)
(***************************************************************************)
EXTENDS TargetQueue, TLAPS

-----------------------------------------------------------------------------
(* Typing.                                                                  *)

\* Inductive: a pump that is not idle serves the lane of an agent, has a job in
\* hand exactly while it is at work on one, and is the lane's only pump.  The
\* count active is that of the lane's pump.
Lane(p) == pump[p] \notin Idle => lane[p] \in Agents
Hand(p) == hand[p] = None <=> pump[p] \notin Taken
AtWork(a) == \E p \in Jobs : lane[p] = a /\ pump[p] \in Taken

PumpInv ==
  /\ TypeOK
  /\ \A p \in Jobs : Lane(p) /\ Hand(p)
  /\ \A p \in Jobs : ~Submitted(p) => pump[p] = "none"
  /\ OnePumpPerLane
  /\ \A a \in Agents : active[a] = IF AtWork(a) THEN 1 ELSE 0

LEMMA PumpInvInit == Init => PumpInv
BY NoneAssumption
   DEF Init, PumpInv, TypeOK, Lane, Hand, AtWork, OnePumpPerLane, Serving, Idle,
       Taken, PumpPC

LEMMA SubmitPreserves ==
  ASSUME PumpInv, NEW j \in Jobs, NEW a \in Agents, Submit(j, a)
  PROVE  PumpInv'
<1> USE DEF PumpInv
<1>0. pump[j] = "none"
  BY DEF Submit
<1>1. TypeOK'
  <2>1. position' \in [Jobs -> Nat]
    <3>1. /\ Len(jobs[a]) \in Nat /\ active[a] \in Nat
          /\ (IF a \in outside THEN 1 ELSE 0) \in Nat
      BY DEF TypeOK
    <3>2. Len(jobs[a]) + active[a] + (IF a \in outside THEN 1 ELSE 0) \in Nat
      BY <3>1
    <3> QED BY <3>2 DEF Submit, TypeOK
  <2>2. jobs' \in [Agents -> Seq(Jobs)] /\ submitted' \in [Agents -> Seq(Jobs)]
    BY DEF Submit, TypeOK
  <2>3. pump' \in [Jobs -> PumpPC] /\ lane' \in [Jobs -> Agents \cup {None}]
    BY DEF Submit, TypeOK, PumpPC
  <2> QED BY <2>1, <2>2, <2>3 DEF Submit, TypeOK
<1>2. \A p \in Jobs : ~Submitted(p)' => ~Submitted(p) /\ p # j
  <2>1. submitted'[a] = Append(submitted[a], j)
        /\ \A b \in Agents : b # a => submitted'[b] = submitted[b]
    BY DEF Submit, TypeOK
  <2>2. submitted[a] \in Seq(Jobs)
    BY DEF TypeOK
  <2>3. \A b \in Agents : \A i \in 1..Len(submitted[b]) :
           i \in 1..Len(submitted'[b]) /\ submitted'[b][i] = submitted[b][i]
    BY <2>1, <2>2
  <2>4. Len(submitted'[a]) \in 1..Len(submitted'[a])
        /\ submitted'[a][Len(submitted'[a])] = j
    BY <2>1, <2>2
  <2> QED BY <2>3, <2>4 DEF Submitted
<1>3. CASE busy[a]
  <2>1. UNCHANGED <<pump, lane, hand, active>> /\ busy' = [busy EXCEPT ![a] = TRUE]
    BY <1>3 DEF Submit
  <2>2. busy' = busy
    BY <1>3, <2>1 DEF TypeOK
  <2>3. \A b \in Agents : b # a => jobs'[b] = jobs[b]
    BY DEF Submit, TypeOK
  <2> QED BY <1>1, <1>2, <1>3, <2>1, <2>2, <2>3
          DEF Lane, Hand, AtWork, OnePumpPerLane, Serving
<1>4. CASE ~busy[a]
  <2>1. /\ pump'[j] = "take" /\ lane'[j] = a
        /\ \A p \in Jobs : p # j => pump'[p] = pump[p] /\ lane'[p] = lane[p]
        /\ UNCHANGED <<hand, active>>
        /\ busy'[a] = TRUE /\ \A b \in Agents : b # a => busy'[b] = busy[b]
        /\ \A b \in Agents : b # a => jobs'[b] = jobs[b]
    BY <1>4 DEF Submit, TypeOK
  <2>2. \A p \in Jobs : (Lane(p) /\ Hand(p))'
    BY <1>0, <2>1 DEF Lane, Hand, Idle, Taken
  <2>3. \A b \in Agents : AtWork(b)' <=> AtWork(b)
    BY <1>0, <2>1 DEF AtWork, Taken
  <2>4. \A p \in Jobs, b \in Agents : Serving(p, b)' <=> Serving(p, b) \/ (p = j /\ b = a)
    BY <1>0, <2>1 DEF Serving, Idle
  <2>5. OnePumpPerLane'
    BY <1>4, <2>1, <2>4 DEF OnePumpPerLane
  <2> QED BY <1>1, <1>2, <2>1, <2>2, <2>3, <2>5
<1> QED BY <1>3, <1>4

\* A step of pump p that keeps its lane, its hand and the queue, and moves it
\* between two program points on the same side of Taken.
LEMMA PumpMoves ==
  ASSUME PumpInv, NEW p \in Jobs, NEW l \in PumpPC \ Idle, pump[p] \notin Idle,
         pump' = [pump EXCEPT ![p] = l], pump[p] \in Taken <=> l \in Taken,
         UNCHANGED <<queueVars, lane, hand, outside, submitted, position>>,
         delivered' \in [Agents -> Seq(Jobs)]
  PROVE  PumpInv'
<1> USE DEF PumpInv, queueVars
<1>1. TypeOK'
  BY DEF TypeOK
<1>2. /\ pump'[p] = l
      /\ \A q \in Jobs : q # p => pump'[q] = pump[q]
  BY DEF TypeOK
<1>3. /\ \A q \in Jobs : (Lane(q) /\ Hand(q))'
      /\ \A b \in Agents : AtWork(b)' <=> AtWork(b)
      /\ \A q \in Jobs, b \in Agents : Serving(q, b)' <=> Serving(q, b)
  BY <1>2 DEF Lane, Hand, AtWork, Serving
<1>4. OnePumpPerLane'
  BY <1>3 DEF OnePumpPerLane
<1>5. \A q \in Jobs : ~Submitted(q)' => pump'[q] = "none"
  BY <1>2 DEF Submitted, Idle
<1> QED BY <1>1, <1>3, <1>4, <1>5

LEMMA PumpInvNext == PumpInv /\ [Next]_vars => PumpInv'
<1> SUFFICES ASSUME PumpInv, [Next]_vars PROVE PumpInv'
  OBVIOUS
<1> USE DEF PumpInv
<1>1. ASSUME NEW p \in Jobs, PumpStep(p) PROVE PumpInv'
  <2> DEFINE a == lane[p]
  <2>0. a \in Agents /\ Serving(p, a)
        /\ \A q \in Jobs : Serving(q, a) => q = p
    BY <1>1 DEF PumpStep, TakeNext, GiveUpLane, WaitForIdleOutside, RunAgent,
         Deliver, NoteFinished, Lane, Idle, OnePumpPerLane, Serving
  <2>1. CASE TakeNext(p)
    <3>1. /\ jobs[a] \in Seq(Jobs) /\ jobs[a] # <<>>
          /\ Head(jobs[a]) \in Jobs /\ Tail(jobs[a]) \in Seq(Jobs)
      BY <2>0, <2>1 DEF TakeNext, TypeOK
    <3>2. /\ pump[p] = "take" /\ pump'[p] = "wait" /\ hand'[p] \in Jobs
          /\ \A q \in Jobs : q # p => pump'[q] = pump[q] /\ hand'[q] = hand[q]
          /\ active'[a] = active[a] + 1
          /\ \A b \in Agents : b # a => active'[b] = active[b] /\ jobs'[b] = jobs[b]
          /\ UNCHANGED <<busy, lane, outside, toldVars>>
      BY <2>0, <2>1, <3>1 DEF TakeNext, TypeOK
    <3>3. TypeOK'
      BY <2>0, <2>1, <3>1 DEF TakeNext, TypeOK, PumpPC, Taken, toldVars
    <3>4. \A q \in Jobs : (Lane(q) /\ Hand(q))'
      BY <2>0, <3>2, NoneAssumption DEF Lane, Hand, Idle, Taken
    <3>5. ~AtWork(a) /\ AtWork(a)' /\ \A b \in Agents : b # a => (AtWork(b)' <=> AtWork(b))
      BY <2>0, <3>2 DEF AtWork, Serving, Idle, Taken
    <3>6. \A q \in Jobs, b \in Agents : Serving(q, b)' <=> Serving(q, b)
      BY <3>2 DEF Serving, Idle
    <3>7. OnePumpPerLane'
      BY <2>0, <3>2, <3>6 DEF OnePumpPerLane
    <3>8. \A q \in Jobs : ~Submitted(q)' => pump'[q] = "none"
      BY <3>2 DEF Submitted, toldVars
    <3> QED BY <2>0, <3>2, <3>3, <3>4, <3>5, <3>7, <3>8
  <2>2. CASE GiveUpLane(p)
    <3>1. /\ pump[p] = "take" /\ pump'[p] = "stopped"
          /\ \A q \in Jobs : q # p => pump'[q] = pump[q]
          /\ busy'[a] = FALSE /\ jobs[a] = <<>>
          /\ \A b \in Agents : b # a => busy'[b] = busy[b]
          /\ UNCHANGED <<jobs, active, lane, hand, outside, toldVars>>
      BY <2>0, <2>2 DEF GiveUpLane, TypeOK
    <3>2. TypeOK'
      BY <2>2 DEF GiveUpLane, TypeOK, PumpPC, Idle, toldVars
    <3>3. \A q \in Jobs : (Lane(q) /\ Hand(q))'
      BY <3>1 DEF Lane, Hand, Idle, Taken
    <3>4. \A b \in Agents : AtWork(b)' <=> AtWork(b)
      BY <3>1 DEF AtWork, Taken
    <3>5. \A q \in Jobs, b \in Agents : Serving(q, b)' <=> Serving(q, b) /\ q # p
      BY <3>1 DEF Serving, Idle
    <3>6. OnePumpPerLane'
      BY <2>0, <3>1, <3>5 DEF OnePumpPerLane, Serving
    <3>7. \A q \in Jobs : ~Submitted(q)' => pump'[q] = "none"
      BY <3>1 DEF Submitted, toldVars
    <3> QED BY <3>1, <3>2, <3>3, <3>4, <3>6, <3>7
  <2>3. CASE WaitForIdleOutside(p)
    BY <2>3, PumpMoves DEF WaitForIdleOutside, PumpPC, Idle, Taken, TypeOK, toldVars
  <2>4. CASE RunAgent(p)
    BY <2>4, PumpMoves DEF RunAgent, PumpPC, Idle, Taken, TypeOK, toldVars
  <2>5. CASE Deliver(p)
    <3>1. hand[p] \in Jobs
      BY <2>5 DEF Deliver, Hand, Taken, TypeOK
    <3>2. delivered' \in [Agents -> Seq(Jobs)]
      BY <2>0, <2>5, <3>1 DEF Deliver, TypeOK
    <3> QED BY <2>5, <3>2, PumpMoves DEF Deliver, PumpPC, Idle, Taken
  <2>6. CASE NoteFinished(p)
    <3>0. AtWork(a) /\ active[a] = 1
      BY <2>0, <2>6 DEF NoteFinished, AtWork, Taken
    <3>1. /\ pump[p] = "note" /\ pump'[p] = "take" /\ hand'[p] = None
          /\ \A q \in Jobs : q # p => pump'[q] = pump[q] /\ hand'[q] = hand[q]
          /\ active'[a] = 0
          /\ \A b \in Agents : b # a => active'[b] = active[b]
          /\ UNCHANGED <<jobs, busy, lane, outside, toldVars>>
      BY <2>0, <2>6, <3>0 DEF NoteFinished, TypeOK
    <3>2. TypeOK'
      BY <2>0, <2>6, <3>0 DEF NoteFinished, TypeOK, PumpPC, toldVars
    <3>3. \A q \in Jobs : (Lane(q) /\ Hand(q))'
      BY <2>0, <3>1 DEF Lane, Hand, Idle, Taken
    <3>4. ~AtWork(a)' /\ \A b \in Agents : b # a => (AtWork(b)' <=> AtWork(b))
      BY <2>0, <3>1 DEF AtWork, Serving, Idle, Taken
    <3>5. \A q \in Jobs, b \in Agents : Serving(q, b)' <=> Serving(q, b)
      BY <3>1 DEF Serving, Idle
    <3>6. OnePumpPerLane'
      BY <3>1, <3>5 DEF OnePumpPerLane
    <3>7. \A q \in Jobs : ~Submitted(q)' => pump'[q] = "none"
      BY <3>1 DEF Submitted, toldVars
    <3> QED BY <2>0, <3>1, <3>2, <3>3, <3>4, <3>6, <3>7
  <2> QED BY <1>1, <2>1, <2>2, <2>3, <2>4, <2>5, <2>6 DEF PumpStep
<1>2. ASSUME NEW a \in Agents, ToggleOutside(a) PROVE PumpInv'
  BY <1>2 DEF ToggleOutside, queueVars, pumpVars, toldVars, TypeOK, Lane, Hand,
       AtWork, OnePumpPerLane, Serving, Submitted
<1>3. CASE UNCHANGED vars
  BY <1>3 DEF vars, queueVars, pumpVars, toldVars, TypeOK, Lane, Hand, AtWork,
       OnePumpPerLane, Serving, Submitted
<1> QED BY <1>1, <1>2, <1>3, SubmitPreserves DEF Next

\* The types hold, the count of jobs in hand included.
THEOREM TypeCorrect == Spec => []TypeOK
<1>1. PumpInv => TypeOK
  BY DEF PumpInv
<1> QED BY <1>1, PumpInvInit, PumpInvNext, PTL DEF Spec

\* A lane that is busy has one pump, and a lane with jobs is busy.
THEOREM OnePump == Spec => []OnePumpPerLane
<1>1. PumpInv => OnePumpPerLane
  BY DEF PumpInv
<1> QED BY <1>1, PumpInvInit, PumpInvNext, PTL DEF Spec
-----------------------------------------------------------------------------
(* The order of the jobs.                                                   *)

Held(a) == IF RunningIn(a) THEN 1 ELSE 0

\* Inductive: of the jobs submitted to a lane, those delivered come first, then
\* the one a pump holds, then those that wait, all in the order of submission.
InOrder(a) ==
  /\ Len(submitted[a]) = Len(delivered[a]) + Held(a) + Len(jobs[a])
  /\ \A k \in 1..Len(jobs[a]) :
        jobs[a][k] = submitted[a][Len(delivered[a]) + Held(a) + k]
HeldInOrder(p) ==
  pump[p] \in {"wait", "run", "deliver"}
    => hand[p] = submitted[lane[p]][Len(delivered[lane[p]]) + 1]
OrderInv ==
  /\ PumpInv
  /\ \A a \in Agents : InOrder(a)
  /\ \A p \in Jobs : HeldInOrder(p)

\* The sums of lengths the steps need: s submitted, d delivered, h held, w waiting.
LEMMA Sums ==
  ASSUME NEW s \in Nat, NEW d \in Nat, NEW h \in {0, 1}, NEW w \in Nat, s = d + h + w
  PROVE  /\ s + 1 = d + h + (w + 1)
         /\ \A k \in 1..w : d + h + k \in 1..s
         /\ h = 1 => d + 1 \in 1..s /\ s = (d + 1) + 0 + w
         /\ h = 0 /\ w >= 1 => d < s /\ s = d + 1 + (w - 1)
OBVIOUS

LEMMA OrderInit == Init => OrderInv
<1> SUFFICES ASSUME Init PROVE OrderInv
  OBVIOUS
<1>1. \A a \in Agents : Held(a) = 0
  BY DEF Init, Held, RunningIn
<1> QED BY <1>1, PumpInvInit DEF Init, OrderInv, InOrder, HeldInOrder

\* What the invariant says of one lane: its types, its lengths and its order.
LEMMA LaneTypes ==
  ASSUME OrderInv, NEW a \in Agents
  PROVE  submitted[a] \in Seq(Jobs) /\ delivered[a] \in Seq(Jobs) /\ jobs[a] \in Seq(Jobs)
BY DEF OrderInv, PumpInv, TypeOK

LEMMA LaneLengths ==
  ASSUME OrderInv, NEW a \in Agents
  PROVE  /\ Len(submitted[a]) \in Nat /\ Len(delivered[a]) \in Nat
         /\ Len(jobs[a]) \in Nat /\ Held(a) \in {0, 1}
         /\ Len(submitted[a]) = Len(delivered[a]) + Held(a) + Len(jobs[a])
<1>1. Len(submitted[a]) \in Nat /\ Len(delivered[a]) \in Nat /\ Len(jobs[a]) \in Nat
  BY LaneTypes
<1>2. Held(a) \in {0, 1}
  BY DEF Held
<1> QED BY <1>1, <1>2 DEF OrderInv, InOrder

LEMMA LaneSums ==
  ASSUME OrderInv, NEW a \in Agents
  PROVE  /\ Len(submitted[a]) + 1 = Len(delivered[a]) + Held(a) + (Len(jobs[a]) + 1)
         /\ Held(a) = 0 /\ Len(jobs[a]) >= 1
              => /\ Len(delivered[a]) < Len(submitted[a])
                 /\ Len(submitted[a]) = Len(delivered[a]) + 1 + (Len(jobs[a]) - 1)
         /\ \A k \in Nat : /\ Len(delivered[a]) + 0 + (k + 1) = Len(delivered[a]) + 1 + k
                           /\ Len(delivered[a]) + 0 + 1 = Len(delivered[a]) + 1
<1> DEFINE s == Len(submitted[a])
           d == Len(delivered[a])
           w == Len(jobs[a])
           h == Held(a)
<1>1. s \in Nat /\ d \in Nat /\ w \in Nat /\ h \in {0, 1} /\ s = d + h + w
  BY LaneLengths
<1>2. /\ s + 1 = d + h + (w + 1)
      /\ h = 0 /\ w >= 1 => d < s /\ s = d + 1 + (w - 1)
      /\ \A k \in Nat : d + 0 + (k + 1) = d + 1 + k /\ d + 0 + 1 = d + 1
  <2> HIDE DEF s, d, w, h
  <2> QED BY <1>1
<1> QED BY <1>2

LEMMA LaneOrder ==
  ASSUME OrderInv, NEW a \in Agents, NEW k \in 1..Len(jobs[a])
  PROVE  jobs[a][k] = submitted[a][Len(delivered[a]) + Held(a) + k]
BY DEF OrderInv, InOrder

\* A pump that is not idle serves the lane of an agent.
LEMMA PumpLane ==
  ASSUME OrderInv, NEW p \in Jobs, pump[p] \notin Idle
  PROVE  lane[p] \in Agents
BY DEF OrderInv, PumpInv, Lane

\* Submit appends the job to what has been submitted and to what waits.
LEMMA SubmitInOrder ==
  ASSUME OrderInv, NEW j \in Jobs, NEW a \in Agents, Submit(j, a)
  PROVE  /\ \A b \in Agents : InOrder(b)'
         /\ \A p \in Jobs : HeldInOrder(p)'
         /\ \A b \in Agents : RunningIn(b)' = RunningIn(b)
<1>L. /\ Len(submitted[a]) \in Nat /\ Len(delivered[a]) \in Nat
      /\ Len(jobs[a]) \in Nat /\ Held(a) \in {0, 1}
      /\ Len(submitted[a]) = Len(delivered[a]) + Held(a) + Len(jobs[a])
  BY LaneLengths
<1>0. TypeOK /\ pump[j] = "none"
  BY DEF OrderInv, PumpInv, Submit
<1>1. /\ submitted'[a] = Append(submitted[a], j) /\ jobs'[a] = Append(jobs[a], j)
      /\ \A b \in Agents : b # a => submitted'[b] = submitted[b] /\ jobs'[b] = jobs[b]
      /\ UNCHANGED <<delivered, hand>>
  BY <1>0 DEF Submit, TypeOK
<1>2. \A p \in Jobs : \/ pump'[p] = pump[p] /\ lane'[p] = lane[p]
                      \/ p = j /\ pump'[p] = "take"
  <2>1. CASE busy[a]
    BY <2>1 DEF Submit
  <2>2. CASE ~busy[a]
    BY <1>0, <2>2 DEF Submit, TypeOK
  <2> QED BY <2>1, <2>2
<1>3. \A b \in Agents : RunningIn(b)' = RunningIn(b)
  BY <1>0, <1>2 DEF RunningIn
<1>4. \A b \in Agents : Held(b)' = Held(b)
  BY <1>3 DEF Held
<1>5. InOrder(a)'
  <2>1. /\ Len(submitted'[a]) = Len(submitted[a]) + 1
        /\ Len(jobs'[a]) = Len(jobs[a]) + 1
        /\ submitted'[a][Len(submitted[a]) + 1] = j
        /\ jobs'[a][Len(jobs[a]) + 1] = j
        /\ \A k \in 1..Len(submitted[a]) : submitted'[a][k] = submitted[a][k]
        /\ \A k \in 1..Len(jobs[a]) : jobs'[a][k] = jobs[a][k]
    BY <1>1, LaneTypes
  <2>2. Len(submitted'[a]) = Len(delivered'[a]) + Held(a)' + Len(jobs'[a])
    <3>1. Len(submitted[a]) + 1 = Len(delivered[a]) + Held(a) + (Len(jobs[a]) + 1)
      BY LaneSums
    <3> QED BY <1>1, <1>4, <2>1, <3>1
  <2>3. ASSUME NEW k \in 1..Len(jobs'[a])
        PROVE  jobs'[a][k] = submitted'[a][Len(delivered'[a]) + Held(a)' + k]
    <3> DEFINE m == Len(delivered[a]) + Held(a) + k
    <3>1. CASE k = Len(jobs[a]) + 1
      <4>1. m = Len(submitted[a]) + 1
        <5>1. Len(submitted[a]) + 1 = Len(delivered[a]) + Held(a) + (Len(jobs[a]) + 1)
          BY LaneSums
        <5> QED BY <3>1, <5>1
      <4> QED BY <1>1, <1>4, <2>1, <3>1, <4>1
    <3>2. CASE k \in 1..Len(jobs[a])
      <4>1. m \in 1..Len(submitted[a]) /\ jobs[a][k] = submitted[a][m]
        BY <3>2, LaneLengths, LaneOrder, Sums
      <4> QED BY <1>1, <1>4, <2>1, <3>2, <4>1
    <3> QED BY <2>1, <3>1, <3>2, LaneLengths
  <2> QED BY <2>2, <2>3 DEF InOrder
<1>6. \A b \in Agents : b # a => InOrder(b)'
  <2>1. \A b \in Agents : InOrder(b)
    BY DEF OrderInv
  <2> QED BY <1>1, <1>4, <2>1 DEF InOrder
<1>7. ASSUME NEW p \in Jobs, pump'[p] \in {"wait", "run", "deliver"}
      PROVE  hand'[p] = submitted'[lane'[p]][Len(delivered'[lane'[p]]) + 1]
  <2>1. pump'[p] = pump[p] /\ lane'[p] = lane[p]
    BY <1>2, <1>7
  <2>2. lane[p] \in Agents /\ RunningIn(lane[p])
    BY <1>7, <2>1 DEF OrderInv, PumpInv, Lane, Idle, RunningIn
  <2>3. hand[p] = submitted[lane[p]][Len(delivered[lane[p]]) + 1]
    BY <1>7, <2>1 DEF OrderInv, HeldInOrder
  <2>4. CASE lane[p] = a
    <3>1. Len(delivered[a]) + 1 \in 1..Len(submitted[a])
      BY <2>2, <2>4, <1>L, Sums DEF Held
    <3>2. submitted'[a][Len(delivered[a]) + 1] = submitted[a][Len(delivered[a]) + 1]
      BY <1>1, <3>1, LaneTypes
    <3> QED BY <1>1, <2>1, <2>3, <2>4, <3>2
  <2>5. CASE lane[p] # a
    BY <1>1, <2>1, <2>2, <2>3, <2>5
  <2> QED BY <2>4, <2>5
<1>8. \A p \in Jobs : HeldInOrder(p)'
  BY <1>7 DEF HeldInOrder
<1> QED BY <1>3, <1>5, <1>6, <1>8

\* The pump that takes a job holds the first of those that were not delivered.
LEMMA TakeInOrder ==
  ASSUME OrderInv, NEW p \in Jobs, NEW a \in Agents, a = lane[p], TakeNext(p)
  PROVE  /\ \A b \in Agents : InOrder(b)'
         /\ \A q \in Jobs : HeldInOrder(q)'
         /\ RunningIn(a) = FALSE /\ RunningIn(a)' = TRUE
         /\ \A b \in Agents : b # a => RunningIn(b)' = RunningIn(b)
         /\ Len(delivered[a]) < Len(submitted[a])
<1>L. /\ Len(submitted[a]) \in Nat /\ Len(delivered[a]) \in Nat
      /\ Len(jobs[a]) \in Nat /\ Held(a) \in {0, 1}
      /\ Len(submitted[a]) = Len(delivered[a]) + Held(a) + Len(jobs[a])
  BY LaneLengths
<1>0. /\ TypeOK /\ pump[p] = "take"
      /\ \A q \in Jobs : Serving(q, a) => q = p
  BY DEF OrderInv, PumpInv, TakeNext, Idle, OnePumpPerLane, Serving
<1>1. /\ pump'[p] = "wait" /\ hand'[p] = Head(jobs[a]) /\ jobs'[a] = Tail(jobs[a])
      /\ jobs[a] # <<>> /\ jobs[a] \in Seq(Jobs)
      /\ \A q \in Jobs : q # p => pump'[q] = pump[q] /\ hand'[q] = hand[q]
      /\ \A b \in Agents : b # a => jobs'[b] = jobs[b]
      /\ UNCHANGED <<lane, submitted, delivered>>
  BY <1>0 DEF TakeNext, TypeOK, toldVars
<1>2. RunningIn(a) = FALSE /\ RunningIn(a)' = TRUE
  BY <1>0, <1>1 DEF RunningIn, Serving, Idle
<1>3. \A b \in Agents : b # a => RunningIn(b)' = RunningIn(b)
  BY <1>0, <1>1 DEF RunningIn
<1>4. Held(a) = 0 /\ Held(a)' = 1 /\ \A b \in Agents : b # a => Held(b)' = Held(b)
  BY <1>2, <1>3 DEF Held
<1>5. /\ Len(jobs[a]) >= 1 /\ Len(jobs[a]) \in Nat
      /\ Head(jobs[a]) = jobs[a][1]
      /\ Len(jobs'[a]) = Len(jobs[a]) - 1
      /\ \A k \in 1..Len(jobs'[a]) : jobs'[a][k] = jobs[a][k + 1]
  BY <1>1
<1>6. InOrder(a)'
  <2>1. Len(submitted'[a]) = Len(delivered'[a]) + Held(a)' + Len(jobs'[a])
    <3>1. Len(submitted[a]) = Len(delivered[a]) + 1 + (Len(jobs[a]) - 1)
      BY <1>4, <1>5, LaneSums
    <3> QED BY <1>1, <1>4, <1>5, <3>1
  <2>2. ASSUME NEW k \in 1..Len(jobs'[a])
        PROVE  jobs'[a][k] = submitted'[a][Len(delivered'[a]) + Held(a)' + k]
    <3>1. k + 1 \in 1..Len(jobs[a])
      BY <1>5
    <3>2. jobs[a][k + 1] = submitted[a][Len(delivered[a]) + 0 + (k + 1)]
      BY <1>4, <3>1, LaneOrder
    <3>3. Len(delivered[a]) + 0 + (k + 1) = Len(delivered[a]) + 1 + k
      <4>1. k \in Nat
        OBVIOUS
      <4> QED BY <4>1, LaneSums
    <3> QED BY <1>1, <1>4, <1>5, <3>2, <3>3
  <2> QED BY <2>1, <2>2 DEF InOrder
<1>7. \A b \in Agents : b # a => InOrder(b)'
  BY <1>1, <1>4 DEF OrderInv, InOrder
<1>8. hand'[p] = submitted[a][Len(delivered[a]) + 1]
      /\ Len(delivered[a]) < Len(submitted[a])
  <2>1. 1 \in 1..Len(jobs[a])
    BY <1>5
  <2>2. jobs[a][1] = submitted[a][Len(delivered[a]) + 0 + 1]
    BY <1>4, <2>1, LaneOrder
  <2> QED BY <1>1, <1>4, <1>5, <2>2, LaneSums
<1>9. \A q \in Jobs : HeldInOrder(q)'
  BY <1>0, <1>1, <1>8 DEF OrderInv, HeldInOrder
<1>10. \A b \in Agents : InOrder(b)'
  BY <1>6, <1>7
<1> QED BY <1>0, <1>2, <1>3, <1>8, <1>9, <1>10

\* The job that is delivered is the first of those that were not.
LEMMA DeliverInOrder ==
  ASSUME OrderInv, NEW p \in Jobs, NEW a \in Agents, a = lane[p], Deliver(p)
  PROVE  /\ \A b \in Agents : InOrder(b)'
         /\ \A q \in Jobs : HeldInOrder(q)'
         /\ RunningIn(a) = TRUE /\ RunningIn(a)' = FALSE
         /\ \A b \in Agents : b # a => RunningIn(b)' = RunningIn(b)
         /\ hand[p] = submitted[a][Len(delivered[a]) + 1]
<1>L. /\ Len(submitted[a]) \in Nat /\ Len(delivered[a]) \in Nat
      /\ Len(jobs[a]) \in Nat /\ Held(a) \in {0, 1}
      /\ Len(submitted[a]) = Len(delivered[a]) + Held(a) + Len(jobs[a])
  BY LaneLengths
<1>0. TypeOK /\ pump[p] = "deliver"
  BY DEF OrderInv, PumpInv, Deliver
<1>a. hand[p] \in Jobs
  BY <1>0 DEF OrderInv, PumpInv, Hand, Taken, TypeOK
<1>b. \A q \in Jobs : Serving(q, a) => q = p
  BY <1>0 DEF OrderInv, PumpInv, Idle, OnePumpPerLane, Serving
<1>1. /\ pump'[p] = "note" /\ delivered'[a] = Append(delivered[a], hand[p])
      /\ \A q \in Jobs : q # p => pump'[q] = pump[q]
      /\ \A b \in Agents : b # a => delivered'[b] = delivered[b]
      /\ UNCHANGED <<lane, hand, submitted, jobs>>
  BY <1>0 DEF Deliver, TypeOK, queueVars
<1>2. RunningIn(a) = TRUE /\ RunningIn(a)' = FALSE
  BY <1>0, <1>a, <1>b, <1>1 DEF RunningIn, Serving, Idle
<1>3. \A b \in Agents : b # a => RunningIn(b)' = RunningIn(b)
  BY <1>0, <1>a, <1>b, <1>1 DEF RunningIn
<1>4. Held(a) = 1 /\ Held(a)' = 0 /\ \A b \in Agents : b # a => Held(b)' = Held(b)
  BY <1>2, <1>3 DEF Held
<1>5. Len(delivered'[a]) = Len(delivered[a]) + 1
  BY <1>0, <1>a, <1>1, LaneTypes
<1>6. InOrder(a)'
  <2>1. Len(submitted'[a]) = Len(delivered'[a]) + Held(a)' + Len(jobs'[a])
    <3>1. Len(submitted[a]) = (Len(delivered[a]) + 1) + 0 + Len(jobs[a])
      BY <1>4, <1>L, Sums
    <3> QED BY <1>1, <1>4, <1>5, <3>1
  <2>2. ASSUME NEW k \in 1..Len(jobs'[a])
        PROVE  jobs'[a][k] = submitted'[a][Len(delivered'[a]) + Held(a)' + k]
    <3>1. jobs[a][k] = submitted[a][Len(delivered[a]) + 1 + k]
      BY <1>1, <1>4, LaneOrder
    <3>2. Len(delivered'[a]) + Held(a)' + k = Len(delivered[a]) + 1 + k
      BY <1>1, <1>4, <1>5, <1>L, Sums
    <3> QED BY <1>1, <3>1, <3>2
  <2> QED BY <2>1, <2>2 DEF InOrder
<1>7. \A b \in Agents : b # a => InOrder(b)'
  BY <1>1, <1>4 DEF OrderInv, InOrder
<1>8. \A q \in Jobs : pump'[q] \in {"wait", "run", "deliver"}
                        => q # p /\ lane[q] \in Agents /\ lane[q] # a
  BY <1>0, <1>a, <1>b, <1>1 DEF Serving, Idle, OrderInv, PumpInv, Lane
<1>9. \A q \in Jobs : HeldInOrder(q)'
  BY <1>1, <1>8 DEF OrderInv, HeldInOrder
<1>10. \A b \in Agents : InOrder(b)'
  BY <1>6, <1>7
<1>11. hand[p] = submitted[a][Len(delivered[a]) + 1]
  BY <1>0 DEF OrderInv, HeldInOrder
<1> QED BY <1>0, <1>2, <1>3, <1>9, <1>10, <1>11

\* The other steps of a pump are neither a start nor an answer.
LEMMA QuietPump ==
  ASSUME OrderInv, NEW p \in Jobs,
         GiveUpLane(p) \/ WaitForIdleOutside(p) \/ RunAgent(p) \/ NoteFinished(p)
  PROVE  /\ \A b \in Agents : InOrder(b)'
         /\ \A q \in Jobs : HeldInOrder(q)'
         /\ \A b \in Agents : RunningIn(b)' = RunningIn(b)
         /\ UNCHANGED <<submitted, delivered>>
<1>0. TypeOK
  BY DEF OrderInv, PumpInv
<1>1. /\ UNCHANGED <<jobs, lane, submitted, delivered>>
      /\ \A q \in Jobs : q # p => pump'[q] = pump[q] /\ hand'[q] = hand[q]
      /\ \/ pump[p] \in {"wait", "run"} /\ pump'[p] \in {"run", "deliver"}
             /\ hand'[p] = hand[p]
         \/ pump[p] \in {"take", "note"} /\ pump'[p] \in {"take", "stopped"}
  BY <1>0 DEF GiveUpLane, WaitForIdleOutside, RunAgent, NoteFinished, TypeOK,
       queueVars, toldVars
<1>2. \A b \in Agents : RunningIn(b)' = RunningIn(b)
  BY <1>1 DEF RunningIn
<1>3. \A b \in Agents : Held(b)' = Held(b)
  BY <1>2 DEF Held
<1>4. \A b \in Agents : InOrder(b)'
  BY <1>1, <1>3 DEF OrderInv, InOrder
<1>5. \A q \in Jobs : HeldInOrder(q)'
  BY <1>1 DEF OrderInv, HeldInOrder
<1> QED BY <1>1, <1>2, <1>4, <1>5

\* What neither pumps nor Submit touch is not in the invariant.
LEMMA Unmoved ==
  ASSUME OrderInv, (\E a \in Agents : ToggleOutside(a)) \/ UNCHANGED vars
  PROVE  /\ \A b \in Agents : InOrder(b)'
         /\ \A q \in Jobs : HeldInOrder(q)'
         /\ \A b \in Agents : RunningIn(b)' = RunningIn(b)
         /\ UNCHANGED <<submitted, delivered>>
<1>1. UNCHANGED <<jobs, pump, lane, hand, submitted, delivered>>
  BY DEF ToggleOutside, vars, queueVars, pumpVars, toldVars
<1>2. \A b \in Agents : RunningIn(b)' = RunningIn(b)
  BY <1>1 DEF RunningIn
<1>3. \A b \in Agents : Held(b)' = Held(b)
  BY <1>2 DEF Held
<1>4. \A b \in Agents : InOrder(b)'
  BY <1>1, <1>3 DEF OrderInv, InOrder
<1>5. \A q \in Jobs : HeldInOrder(q)'
  BY <1>1 DEF OrderInv, HeldInOrder
<1> QED BY <1>1, <1>2, <1>4, <1>5

LEMMA OrderNext == OrderInv /\ [Next]_vars => OrderInv'
<1> SUFFICES ASSUME OrderInv, [Next]_vars
             PROVE  (\A a \in Agents : InOrder(a)') /\ (\A p \in Jobs : HeldInOrder(p)')
  BY PumpInvNext DEF OrderInv
<1>1. ASSUME NEW p \in Jobs, PumpStep(p)
      PROVE  (\A a \in Agents : InOrder(a)') /\ (\A q \in Jobs : HeldInOrder(q)')
  <2>1. TakeNext(p) \/ Deliver(p) => lane[p] \in Agents
    BY PumpLane DEF TakeNext, Deliver, Idle
  <2> QED BY <1>1, <2>1, TakeInOrder, DeliverInOrder, QuietPump DEF PumpStep
<1>2. ASSUME NEW j \in Jobs, NEW a \in Agents, Submit(j, a)
      PROVE  (\A b \in Agents : InOrder(b)') /\ (\A q \in Jobs : HeldInOrder(q)')
  BY <1>2, SubmitInOrder
<1> QED BY <1>1, <1>2, Unmoved DEF Next

\* The position a user is told is never too optimistic.
THEOREM HonestPosition == Spec => PositionIsHonest
<1>1. ASSUME OrderInv, NEW j \in Jobs, NEW a \in Agents, Submit(j, a)
      PROVE  Len(submitted[a]) - Len(delivered[a]) <= position'[j]
  <2> DEFINE s == Len(submitted[a])
             d == Len(delivered[a])
             w == Len(jobs[a])
             h == Held(a)
             c == active[a]
             x == IF a \in outside THEN 1 ELSE 0
  <2>1. s \in Nat /\ d \in Nat /\ w \in Nat /\ h \in {0, 1} /\ s = d + h + w
    BY <1>1, LaneLengths
  <2>2. c \in Nat /\ x \in Nat
    BY <1>1 DEF OrderInv, PumpInv, TypeOK
  <2>3. h <= c
    BY <1>1 DEF OrderInv, PumpInv, Held, RunningIn, AtWork, Taken
  <2>4. s - d <= w + c + x
    <3> HIDE DEF s, d, w, h, c, x
    <3> QED BY <2>1, <2>2, <2>3
  <2>5. position'[j] = w + c + x
    BY <1>1 DEF Submit, OrderInv, PumpInv, TypeOK
  <2> QED BY <2>4, <2>5
<1>2. OrderInv /\ [Next]_vars
        => [\A j \in Jobs, a \in Agents :
              Submit(j, a) => Len(submitted[a]) - Len(delivered[a]) <= position'[j]]_vars
  BY <1>1
<1> QED BY <1>2, OrderInit, OrderNext, PTL DEF Spec, PositionIsHonest

-----------------------------------------------------------------------------
(* Refinement.                                                              *)

LEMMA LanesInitially == Init => Lanes!LanesInit
BY DEF Init, Lanes!LanesInit, RunningIn

LEMMA LanesStep == OrderInv /\ [Next]_vars => [Lanes!LanesNext]_(Lanes!laneVars)
<1> SUFFICES ASSUME OrderInv, [Next]_vars
             PROVE  Lanes!LanesNext \/ UNCHANGED Lanes!laneVars
  OBVIOUS
<1> DEFINE running == [a \in Agents |-> RunningIn(a)]
<1>1. ASSUME NEW j \in Jobs, NEW a \in Agents, Submit(j, a) PROVE Lanes!Accept(a, j)
  <2>1. UNCHANGED running
    BY <1>1, SubmitInOrder
  <2>2. \A b \in Agents : \A i \in 1..Len(submitted[b]) : submitted[b][i] # j
    BY <1>1 DEF Submit, Submitted
  <2>3. submitted' = [submitted EXCEPT ![a] = Append(@, j)] /\ UNCHANGED delivered
    BY <1>1 DEF Submit
  <2> QED BY <2>1, <2>2, <2>3 DEF Lanes!Accept
<1>2. ASSUME NEW p \in Jobs, NEW a \in Agents, a = lane[p], TakeNext(p)
      PROVE  Lanes!Start(a)
  <2>1. /\ ~RunningIn(a) /\ running' = [running EXCEPT ![a] = TRUE]
        /\ Len(delivered[a]) < Len(submitted[a])
    BY <1>2, TakeInOrder
  <2>2. UNCHANGED <<submitted, delivered>>
    BY <1>2 DEF TakeNext, toldVars
  <2> QED BY <2>1, <2>2 DEF Lanes!Start
<1>3. ASSUME NEW p \in Jobs, NEW a \in Agents, a = lane[p], Deliver(p)
      PROVE  Lanes!Answer(a)
  <2>1. /\ RunningIn(a) /\ running' = [running EXCEPT ![a] = FALSE]
        /\ hand[p] = submitted[a][Len(delivered[a]) + 1]
    BY <1>3, DeliverInOrder
  <2>2. /\ delivered' = [delivered EXCEPT ![a] = Append(@, hand[p])]
        /\ UNCHANGED submitted
    BY <1>3 DEF Deliver
  <2> QED BY <2>1, <2>2 DEF Lanes!Answer
<1>4. ASSUME NEW p \in Jobs,
             GiveUpLane(p) \/ WaitForIdleOutside(p) \/ RunAgent(p) \/ NoteFinished(p)
      PROVE  UNCHANGED Lanes!laneVars
  <2>1. UNCHANGED <<submitted, delivered, running>>
    BY <1>4, QuietPump
  <2> QED BY <2>1 DEF Lanes!laneVars
<1>5. ASSUME (\E a \in Agents : ToggleOutside(a)) \/ UNCHANGED vars
      PROVE  UNCHANGED Lanes!laneVars
  <2>1. UNCHANGED <<submitted, delivered, running>>
    BY <1>5, Unmoved
  <2> QED BY <2>1 DEF Lanes!laneVars
<1>6. \A p \in Jobs : TakeNext(p) \/ Deliver(p) => lane[p] \in Agents
  BY PumpLane DEF TakeNext, Deliver, Idle
<1> QED BY <1>1, <1>2, <1>3, <1>4, <1>5, <1>6 DEF Next, PumpStep, Lanes!LanesNext

\* The queue implements its abstract specification: one job of an agent at a
\* time, answers in the order of acceptance.
THEOREM Refinement == Spec => LanesSafety
<1> QED BY OrderInit, OrderNext, LanesInitially, LanesStep, PTL
        DEF Spec, LanesSafety, Lanes!LanesSpec
=============================================================================
