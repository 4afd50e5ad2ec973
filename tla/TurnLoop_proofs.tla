--------------------------- MODULE TurnLoop_proofs ---------------------------
(***************************************************************************)
(* Proofs about TurnLoop, for any number of turns, rounds, steers and      *)
(* disturbances, any thresholds, and any batches of calls.                 *)
(***************************************************************************)
EXTENDS Transcript_proofs

-----------------------------------------------------------------------------
(* Typing.                                                                  *)

Before == {"idle", "compress", "spec", "seed"}
InTurn == {"loop", "prepare", "fit", "stream", "retry", "batch", "checkpoint", "done", "failed",
           "stopped"}

Contexts == [iterations : 0..Limit, continuations : Nat, malformed : Nat, executed : SUBSET Sigs]

\* What a turn, the mail and the counters hold, the histories left aside.
Typed ==
  /\ setting \in Settings
  /\ pc \in Before \cup InTurn
  /\ serial \in Nat /\ MaxTurns + MaxSteers <= serial
  /\ turns \in 0..MaxTurns /\ steers \in 0..MaxSteers /\ events \in Nat
  /\ prompt \in 0..MaxTurns
  /\ inbox \in SUBSET (1..serial) /\ promoted \in SUBSET (1..serial)
  /\ pending \in SUBSET (1..serial)
  /\ more \in BOOLEAN /\ cancelled \in BOOLEAN
  /\ tc \in Contexts
  /\ ran \in [Sigs -> Nat]

\* The bounds of a setting are numbers.
LEMMA SettingIs ==
  ASSUME Typed
  PROVE  /\ Limit \in Nat \ {0} /\ MaxTurns \in Nat /\ MaxSteers \in Nat /\ MaxEvents \in Nat
BY BoundsAssumption DEF Typed, Limit, MaxTurns, MaxSteers, MaxEvents

\* The steps of Next one by one: what holds before and after each of them is proved for each.
StepOf ==
  \/ AddPrompt \/ CheckAndCompress \/ MaybeStartSpeculative \/ SeedTurn
  \/ LeaveLoop \/ StopCancelled \/ IterationLimit \/ BeginRound
  \/ CompactIfNeeded \/ EnsureContextFits \/ RecoverFromOverflow \/ StreamFails
  \/ AnswerText \/ AnswerCutOff \/ AnswerBroken \/ (\E b \in Batches : AnswerCalls(b))
  \/ RunCall \/ AppendResults \/ MirrorMessage \/ EndRound \/ EndTurn
  \/ SpeculativeEnds \/ Steer \/ Cancel \/ Crash \/ ResetSession \/ UNCHANGED vars

\* A step is one of the actions, and the setting stays.
LEMMA Steps == ASSUME [Next]_vars PROVE setting' = setting /\ StepOf
BY DEF Next, TurnStep, Answers, Rest, StepOf, vars

\* A turn starts from a context of the right type.
LEMMA NewContextIs == ASSUME Limit \in Nat PROVE NewContext \in Contexts
BY DEF NewContext, Contexts

\* Typed holds at first.
LEMMA InitTyped == ASSUME Init PROVE Typed
<1>1. setting \in Settings
  BY DEF Init
<1>2. Settings \subseteq [limit : Nat \ {0}, turns : Nat, steers : Nat, events : Nat]
  BY BoundsAssumption
<1>3. MaxTurns \in Nat /\ MaxSteers \in Nat /\ Limit \in Nat
  BY <1>1, <1>2 DEF MaxTurns, MaxSteers, Limit
<1>4. NewContext \in Contexts
  BY <1>3, NewContextIs
<1>5. tc \in Contexts
  BY <1>4 DEF Init
<1>6. ran \in [Sigs -> Nat]
  BY DEF Init
<1>7. pc \in Before \cup InTurn
  BY DEF Init, Before
<1>9. more \in BOOLEAN /\ cancelled \in BOOLEAN
  BY DEF Init
<1>10. turns \in 0..MaxTurns /\ steers \in 0..MaxSteers /\ events \in Nat /\ prompt \in 0..MaxTurns
  BY <1>3 DEF Init
<1>8. inbox = {} /\ promoted = {} /\ pending = {} /\ serial \in Nat /\ MaxTurns + MaxSteers <= serial
  BY <1>3 DEF Init
<1> QED BY <1>1, <1>3, <1>5, <1>6, <1>7, <1>8, <1>9, <1>10 DEF Typed

\* The sums and bounds that Typed is about do not change with the step.
Fixed == setting' = setting

\* The bounds stay when the setting does.
LEMMA LimitsFixed ==
  ASSUME Fixed
  PROVE  Limit' = Limit /\ Contexts' = Contexts /\ MaxTurns' = MaxTurns /\ MaxSteers' = MaxSteers
BY DEF Fixed, Limit, MaxTurns, MaxSteers, Contexts

\* What every answer leaves alone.
LEMMA AnswerKeeps ==
  ASSUME NEW response, NEW added, Answer(response, added)
  PROVE  /\ pc \in {"stream", "retry"} /\ serial' = serial + 10
         /\ cancelled' = cancelled /\ ran' = ran /\ turns' = turns /\ steers' = steers
         /\ forgotten' = forgotten /\ peer' = peer /\ spec' = spec
         /\ prompt' = prompt /\ cursor' = cursor /\ mirrored' = mirrored
BY DEF Answer, Streaming, KeepPeer, KeepMirror

\* Every step keeps Typed.
LEMMA StepTyped == ASSUME Typed, [Next]_vars PROVE Typed'
<1>1. Fixed /\ StepOf
  BY Steps DEF Fixed
<1>2. Limit \in Nat \ {0} /\ MaxTurns \in Nat /\ MaxSteers \in Nat
  BY SettingIs
<1>3. Limit' = Limit /\ Contexts' = Contexts /\ MaxTurns' = MaxTurns /\ MaxSteers' = MaxSteers /\ setting' = setting
  BY <1>1, LimitsFixed DEF Fixed
<1>4. CASE AddPrompt
  BY <1>2, <1>3, <1>4 DEF AddPrompt, Typed, Before, InTurn, vars, peerVars, turnVars, pastVars, KeepPeer, KeepMail, KeepTools, KeepMirror, KeepRound, KeepPast, Event, Drain, Discard
<1>5. CASE CheckAndCompress
  BY <1>2, <1>3, <1>5 DEF CheckAndCompress, Typed, Before, InTurn, vars, peerVars, turnVars, pastVars, KeepPeer, KeepMail, KeepTools, KeepMirror, KeepRound, KeepPast, Event, Drain, Discard
<1>6. CASE MaybeStartSpeculative
  BY <1>2, <1>3, <1>6 DEF MaybeStartSpeculative, Typed, Before, InTurn, vars, peerVars, turnVars, pastVars, KeepPeer, KeepMail, KeepTools, KeepMirror, KeepRound, KeepPast, Event, Drain, Discard
<1>7. CASE SeedTurn
  BY <1>2, <1>3, <1>7 DEF SeedTurn, Typed, Before, InTurn, vars, peerVars, turnVars, pastVars, KeepPeer, KeepMail, KeepTools, KeepMirror, KeepRound, KeepPast, Event, Drain, Discard
<1>8. CASE LeaveLoop
  BY <1>2, <1>3, <1>8 DEF LeaveLoop, Typed, Before, InTurn, vars, peerVars, turnVars, pastVars, KeepPeer, KeepMail, KeepTools, KeepMirror, KeepRound, KeepPast, Event, Drain, Discard
<1>9. CASE StopCancelled
  BY <1>2, <1>3, <1>9 DEF StopCancelled, Typed, Before, InTurn, vars, peerVars, turnVars, pastVars, KeepPeer, KeepMail, KeepTools, KeepMirror, KeepRound, KeepPast, Event, Drain, Discard
<1>10. CASE IterationLimit
  BY <1>2, <1>3, <1>10 DEF IterationLimit, Typed, Before, InTurn, vars, peerVars, turnVars, pastVars, KeepPeer, KeepMail, KeepTools, KeepMirror, KeepRound, KeepPast, Event, Drain, Discard, LimitReached
<1>11. CASE BeginRound
  <2>1. tc' = [tc EXCEPT !.iterations = tc.iterations + 1] /\ tc.iterations < Limit
    BY <1>11, <1>2 DEF BeginRound, Count, LimitReached, Typed, Contexts
  <2>2. tc' \in Contexts
    BY <2>1, <1>2 DEF Typed, Contexts
  <2> QED BY <1>3, <2>2, <1>11 DEF BeginRound, Typed, InTurn, pastVars, KeepPeer, KeepMail, KeepTools, KeepMirror
<1>12. CASE CompactIfNeeded
  BY <1>2, <1>3, <1>12 DEF CompactIfNeeded, Typed, Before, InTurn, vars, peerVars, turnVars, pastVars, KeepPeer, KeepMail, KeepTools, KeepMirror, KeepRound, KeepPast, Event, Drain, Discard
<1>13. CASE EnsureContextFits
  BY <1>2, <1>3, <1>13 DEF EnsureContextFits, Typed, Before, InTurn, vars, peerVars, turnVars, pastVars, KeepPeer, KeepMail, KeepTools, KeepMirror, KeepRound, KeepPast, Event, Drain, Discard
<1>14. CASE RecoverFromOverflow
  BY <1>2, <1>3, <1>14 DEF RecoverFromOverflow, Typed, Before, InTurn, vars, peerVars, turnVars, pastVars, KeepPeer, KeepMail, KeepTools, KeepMirror, KeepRound, KeepPast, Event, Drain, Discard
<1>15. CASE StreamFails
  BY <1>2, <1>3, <1>15 DEF StreamFails, Typed, Before, InTurn, vars, peerVars, turnVars, pastVars, KeepPeer, KeepMail, KeepTools, KeepMirror, KeepRound, KeepPast, Event, Drain, Discard
<1>16. CASE AnswerText
  <2>1. PICK r, text : Answer(r, text)
    BY <1>16 DEF AnswerText
  <2>2. /\ serial' = serial + 10 /\ UNCHANGED <<cancelled, ran, turns, steers, prompt>>
    BY <2>1, AnswerKeeps
  <2>3.  /\ more' \in BOOLEAN /\ pc' = "loop" /\ UNCHANGED <<tc, events>> /\ Drain
    BY <1>16 DEF AnswerText
  <2> QED BY <1>2, <1>3, <2>2, <2>3 DEF Typed, Drain, InTurn
<1>17. CASE AnswerCutOff
  BY <1>2, <1>3, <1>17, AnswerKeeps DEF AnswerCutOff, Typed, Contexts, Before, InTurn, vars, peerVars, turnVars, pastVars, KeepPeer, KeepMail, KeepTools, KeepMirror, KeepRound, KeepPast, Event, Drain, Discard
<1>18. CASE AnswerBroken
  BY <1>2, <1>3, <1>18, AnswerKeeps DEF AnswerBroken, Typed, Contexts, Before, InTurn, vars, peerVars, turnVars, pastVars, KeepPeer, KeepMail, KeepTools, KeepMirror, KeepRound, KeepPast, Event, Drain, Discard
<1>19. CASE RunCall
  <2>1. \E x : ran' = [ran EXCEPT ![x] = @ + 1] \/ ran' = ran
    BY <1>19 DEF RunCall
  <2>2. ran' \in [Sigs -> Nat]
    BY <2>1 DEF Typed
  <2>3. serial' = serial + 10
    BY <1>19 DEF RunCall
  <2>4. UNCHANGED <<pending, cancelled, pc, inbox, promoted, prompt, more, tc, turns, steers, events>>
    BY <1>19 DEF RunCall, KeepMail, KeepMirror, KeepRound, KeepPast
  <2> QED BY <1>2, <1>3, <2>2, <2>3, <2>4 DEF Typed
<1>20. CASE AppendResults
  BY <1>2, <1>3, <1>20 DEF AppendResults, Typed, Before, InTurn, vars, peerVars, turnVars, pastVars, KeepPeer, KeepMail, KeepTools, KeepMirror, KeepRound, KeepPast, Event, Drain, Discard
<1>21. CASE MirrorMessage
  BY <1>2, <1>3, <1>21 DEF MirrorMessage, Typed, Before, InTurn, vars, peerVars, turnVars, pastVars, KeepPeer, KeepMail, KeepTools, KeepMirror, KeepRound, KeepPast, Event, Drain, Discard
<1>22. CASE EndRound
  BY <1>2, <1>3, <1>22 DEF EndRound, Typed, Before, InTurn, vars, peerVars, turnVars, pastVars, KeepPeer, KeepMail, KeepTools, KeepMirror, KeepRound, KeepPast, Event, Drain, Discard
<1>23. CASE EndTurn
  <2>1. tc' \in Contexts /\ ran' \in [Sigs -> Nat]
    BY <1>23, <1>2, NewContextIs DEF EndTurn, Discard
  <2>2. /\ pc' = "idle" /\ prompt' = 0 /\ pending' = {} /\ more' \in BOOLEAN /\ cancelled' \in BOOLEAN
        /\ inbox' \in {inbox, {}} /\ promoted' \in {promoted, {}}
        /\ serial' = serial /\ turns' = turns /\ steers' = steers /\ events' \in {events, events + 1}
    BY <1>23 DEF EndTurn, Discard, pastVars, Event
  <2>3. inbox' \in SUBSET (1..serial) /\ promoted' \in SUBSET (1..serial)
    BY <2>2 DEF Typed
  <2>4. pc' \in Before \cup InTurn
    BY <2>2 DEF Before
  <2>5. prompt' \in 0..MaxTurns
    BY <1>2, <2>2
  <2> QED BY <1>2, <1>3, <2>1, <2>2, <2>3, <2>4, <2>5 DEF Typed
<1>24. CASE SpeculativeEnds
  BY <1>2, <1>3, <1>24 DEF SpeculativeEnds, Typed, Before, InTurn, vars, peerVars, turnVars, pastVars, KeepPeer, KeepMail, KeepTools, KeepMirror, KeepRound, KeepPast, Event, Drain, Discard
<1>25. CASE Steer
  BY <1>2, <1>3, <1>25 DEF Steer, Typed, Before, InTurn, vars, peerVars, turnVars, pastVars, KeepPeer, KeepMail, KeepTools, KeepMirror, KeepRound, KeepPast, Event, Drain, Discard
<1>26. CASE Cancel
  BY <1>2, <1>3, <1>26 DEF Cancel, Typed, Before, InTurn, vars, peerVars, turnVars, pastVars, KeepPeer, KeepMail, KeepTools, KeepMirror, KeepRound, KeepPast, Event, Drain, Discard
<1>27. CASE Crash
  <2>1. tc' \in Contexts /\ ran' \in [Sigs -> Nat]
    BY <1>27, <1>2, NewContextIs DEF Crash, Discard
  <2>2. /\ pc' = "idle" /\ prompt' = 0 /\ pending' = {} /\ more' \in BOOLEAN /\ cancelled' \in BOOLEAN
        /\ inbox' \in {inbox, {}} /\ promoted' \in {promoted, {}}
        /\ serial' = serial /\ turns' = turns /\ steers' = steers /\ events' \in {events, events + 1}
    BY <1>27 DEF Crash, Discard, pastVars, Event
  <2>3. inbox' \in SUBSET (1..serial) /\ promoted' \in SUBSET (1..serial)
    BY <2>2 DEF Typed
  <2>4. pc' \in Before \cup InTurn
    BY <2>2 DEF Before
  <2>5. prompt' \in 0..MaxTurns
    BY <1>2, <2>2
  <2> QED BY <1>2, <1>3, <2>1, <2>2, <2>3, <2>4, <2>5 DEF Typed
<1>28. CASE ResetSession
  BY <1>2, <1>3, <1>28 DEF ResetSession, Typed, Before, InTurn, vars, peerVars, turnVars, pastVars, KeepPeer, KeepMail, KeepTools, KeepMirror, KeepRound, KeepPast, Event, Drain, Discard
<1>29. CASE UNCHANGED vars
  BY <1>3, <1>29 DEF Typed, vars, peerVars, turnVars, pastVars
<1>30. ASSUME NEW b \in Batches, AnswerCalls(b) PROVE Typed'
  <2>1. PICK r, added : Answer(r, added)
    BY <1>30 DEF AnswerCalls
  <2>2. /\ serial' = serial + 10 /\ UNCHANGED <<cancelled, ran, turns, steers, prompt>>
    BY <2>1, AnswerKeeps
  <2>3. /\ more' = TRUE /\ pc' \in InTurn /\ UNCHANGED events
        /\ tc' = [tc EXCEPT !.executed = @ \cup Range(b)]
        /\ Drain \/ UNCHANGED <<inbox, promoted, pending>>
    BY <1>30 DEF AnswerCalls, InTurn, KeepMail
  <2>4. Range(b) \in SUBSET Sigs
    <3>1. b \in Seq(Sigs)
      BY BatchesAssumption
    <3> QED BY <3>1 DEF Range
  <2>5. tc' \in Contexts
    BY <2>3, <2>4 DEF Typed, Contexts
  <2> QED BY <1>2, <1>3, <2>2, <2>3, <2>5 DEF Typed, Drain
<1> QED BY <1>1, <1>4, <1>5, <1>6, <1>7, <1>8, <1>9, <1>10, <1>11, <1>12, <1>13, <1>14, <1>15, <1>16, <1>17, <1>18, <1>19, <1>20, <1>21, <1>22, <1>23, <1>24, <1>25, <1>26, <1>27, <1>28, <1>29, <1>30 DEF StepOf

-----------------------------------------------------------------------------
(* Batches.                                                                 *)

\* The parts of an answer with calls.
CallsIn(sigs) ==
  [k \in DOMAIN sigs |->
     [sig |-> sigs[k], k |-> k, id |-> <<IF Embedded THEN 0 ELSE serial + 2, k>>]]
Firsts(b) == {i \in DOMAIN b : /\ b[i].sig \notin tc.executed
                               /\ \A j \in DOMAIN b : b[j].sig = b[i].sig => j >= i}
Repeats(b) == {i \in DOMAIN b : b[i] \notin Range(Unique(b))}

\* The calls of an answer: their signatures and their ids.
LEMMA CallsInIs ==
  ASSUME NEW sigs \in Batches, serial \in Nat
  PROVE  LET b == CallsIn(sigs) IN
         /\ sigs \in Seq(Sigs) /\ b \in Seq(CallOf) /\ Len(b) = Len(sigs) /\ Len(b) \in Nat
         /\ \A k \in 1..Len(b) : /\ b[k].sig = sigs[k] /\ b[k].k = k
                                 /\ b[k].id = <<IF Embedded THEN 0 ELSE serial + 2, k>>
<1> DEFINE b == CallsIn(sigs)
           e == IF Embedded THEN 0 ELSE serial + 2
<1>1. sigs \in Seq(Sigs)
  BY BatchesAssumption
<1>2. e \in Nat
  BY BatchesAssumption
<1>3. Len(sigs) \in Nat /\ DOMAIN sigs = 1..Len(sigs) /\ \A k \in 1..Len(sigs) : sigs[k] \in Sigs
  BY <1>1
<1>4. b = [k \in 1..Len(sigs) |-> [sig |-> sigs[k], k |-> k, id |-> <<e, k>>]]
  BY <1>3 DEF CallsIn
<1> HIDE DEF b, e
<1>5. \A k \in 1..Len(sigs) : <<e, k>> \in Seq(Nat)
  BY <1>2, <1>3
<1>6. \A k \in 1..Len(sigs) : [sig |-> sigs[k], k |-> k, id |-> <<e, k>>] \in CallOf
  BY <1>3, <1>5 DEF CallOf
<1>7. b \in Seq(CallOf) /\ Len(b) = Len(sigs)
  BY <1>3, <1>4, <1>6
<1>8. \A k \in 1..Len(b) : b[k].sig = sigs[k] /\ b[k].k = k /\ b[k].id = <<e, k>>
  BY <1>4, <1>7
<1> QED BY <1>1, <1>3, <1>7, <1>8 DEF b, e

\* Unique takes calls of b, each with a signature that the turn has not met.
LEMMA UniqueIs ==
  ASSUME NEW b \in Seq(CallOf)
  PROVE  LET u == Unique(b)
             w == Ordered(Firsts(b)) IN
         /\ u \in Seq(CallOf) /\ Len(u) = Len(w) /\ Len(w) \in Nat /\ Lists(w, Firsts(b))
         /\ \A k \in 1..Len(u) : w[k] \in Firsts(b) /\ w[k] \in 1..Len(b) /\ u[k] = b[w[k]]
         /\ \A k \in 1..Len(u) : u[k].sig \notin tc.executed
         /\ \A j, k \in 1..Len(u) : u[j].sig = u[k].sig => j = k
<1> DEFINE u == Unique(b)
           F == Firsts(b)
           w == Ordered(F)
<1>1. DOMAIN b = 1..Len(b) /\ Len(b) \in Nat
  OBVIOUS
<1>2. F \in SUBSET DOMAIN b
  BY DEF Firsts
<1>3. u = At(b, F)
  BY DEF Unique, Firsts
<1>4. \A i \in F : b[i].sig \notin tc.executed /\ \A j \in 1..Len(b) : b[j].sig = b[i].sig => j >= i
  BY <1>1 DEF Firsts
<1> HIDE DEF u, F
<1>5. /\ Lists(w, F) /\ Len(w) \in Nat /\ DOMAIN w = 1..Len(w)
      /\ u \in Seq(CallOf) /\ Len(u) = Len(w)
      /\ \A k \in 1..Len(w) : w[k] \in DOMAIN b /\ u[k] = b[w[k]]
  BY <1>2, <1>3, AtIs
<1> HIDE DEF w
<1>6. w \in Seq(F) /\ \A i, j \in 1..Len(w) : i < j => w[i] < w[j]
  BY <1>5 DEF Lists
<1>7. \A k \in 1..Len(w) : w[k] \in F
  BY <1>6, ElementOfSeq
<1>8. \A k \in 1..Len(u) : u[k].sig \notin tc.executed
  BY <1>4, <1>5, <1>7
<1>9. ASSUME NEW j \in 1..Len(u), NEW k \in 1..Len(u), u[j].sig = u[k].sig PROVE j = k
  <2>1. w[j] \in 1..Len(b) /\ w[k] \in 1..Len(b) /\ b[w[j]].sig = b[w[k]].sig
    BY <1>1, <1>5, <1>9
  <2>2. w[j] >= w[k] /\ w[k] >= w[j]
    BY <2>1, <1>4, <1>5, <1>7
  <2>3. ~(w[j] < w[k]) /\ ~(w[k] < w[j])
    BY <2>1, <2>2
  <2>4. ~(j < k) /\ ~(k < j)
    BY <2>3, <1>5, <1>6
  <2> QED BY <2>4
<1> QED BY <1>1, <1>5, <1>7, <1>8, <1>9 DEF u, w, F

\* What the answers in a row are written for: the results there are, and the calls to come.
Awaited(rs, b) ==
  [k \in 1..(Len(rs) + Len(b)) |-> IF k <= Len(rs) THEN rs[k].id ELSE b[k - Len(rs)].id]

Plainly(rs) ==
  \A k \in 1..Len(rs) : /\ rs[k].kind = "result" /\ Len(rs[k].calls) = 0
                         /\ ~rs[k].compacted /\ rs[k].covers = {}

\* The result of a call carries its id and no calls.
LEMMA ResultFacts ==
  ASSUME NEW call \in CallOf, NEW n \in Nat, NEW size \in Nat
  PROVE  /\ Result(call, n, size) \in Message
         /\ Result(call, n, size).kind = "result" /\ Len(Result(call, n, size).calls) = 0
         /\ Result(call, n, size).id = call.id /\ Result(call, n, size).n = n
         /\ ~Result(call, n, size).compacted /\ Result(call, n, size).covers = {}
BY ResultIs

\* What has run and what is to run are the same, one after another.
LEMMA RunCallIs ==
  ASSUME batch \in Seq(CallOf), results \in Seq(Message), Plainly(results), serial \in Nat, RunCall
  PROVE  /\ batch' \in Seq(CallOf) /\ results' \in Seq(Message) /\ Plainly(results')
         /\ Len(results') + Len(batch') = Len(results) + Len(batch)
         /\ Awaited(results', batch') = Awaited(results, batch)
         /\ batch' = Tail(batch) \/ batch' = <<>>
         /\ ran' = [ran EXCEPT ![batch[1].sig] = @ + 1] \/ ran' = ran
         /\ \A k \in 1..Len(results') :
              results'[k].n > serial \/ \E j \in 1..Len(results) : results'[k].n = results[j].n
<1>1. PICK size \in Sizes, runs \in BOOLEAN :
        LET c == Head(batch)
            skip == runs /\ c.sig \in Reviews
            skipped == [k \in 1..Len(Tail(batch)) |-> Result(Tail(batch)[k], serial + 1 + k, 1)]
        IN /\ runs \/ size = 1
           /\ ran' = IF runs THEN [ran EXCEPT ![c.sig] = @ + 1] ELSE ran
           /\ results' = Append(results, Result(c, serial + 1, size))
                           \o (IF skip THEN skipped ELSE <<>>)
           /\ batch' = IF skip THEN <<>> ELSE Tail(batch)
  BY DEF RunCall
<1> DEFINE c == Head(batch)
           rest == Tail(batch)
           r == Result(c, serial + 1, size)
           skipped == [k \in 1..Len(rest) |-> Result(rest[k], serial + 1 + k, 1)]
           rs == Append(results, r)
<1>2. batch # <<>>
  BY DEF RunCall
<1>3. /\ c = batch[1] /\ c \in CallOf /\ rest \in Seq(CallOf) /\ Len(rest) = Len(batch) - 1
      /\ Len(batch) \in Nat /\ Len(rest) \in Nat
      /\ \A k \in 1..Len(rest) : rest[k] = batch[k + 1] /\ rest[k] \in CallOf
  BY <1>2
<1>4. /\ ran' = [ran EXCEPT ![batch[1].sig] = @ + 1] \/ ran' = ran
      /\ (batch' = rest /\ results' = rs \o <<>>) \/ (batch' = <<>> /\ results' = rs \o skipped)
  BY <1>1, <1>3
<1>5. size \in Nat
  BY BatchesAssumption
<1> HIDE DEF c, rest
<1>6. /\ r \in Message /\ r.kind = "result" /\ Len(r.calls) = 0 /\ r.id = c.id
      /\ ~r.compacted /\ r.covers = {} /\ r.n > serial
  <2>1. serial + 1 \in Nat /\ serial + 1 > serial
    OBVIOUS
  <2>2. /\ r \in Message /\ r.kind = "result" /\ Len(r.calls) = 0 /\ r.id = c.id
        /\ ~r.compacted /\ r.covers = {} /\ r.n = serial + 1
    BY <1>3, <1>5, <2>1, ResultFacts
  <2> QED BY <2>1, <2>2
<1>7. \A k \in 1..Len(rest) : LET s == Result(rest[k], serial + 1 + k, 1) IN
        /\ s \in Message /\ s.kind = "result" /\ Len(s.calls) = 0 /\ s.id = rest[k].id
        /\ ~s.compacted /\ s.covers = {} /\ s.n > serial
  <2> SUFFICES ASSUME NEW k \in 1..Len(rest)
               PROVE  LET s == Result(rest[k], serial + 1 + k, 1) IN
                      /\ s \in Message /\ s.kind = "result" /\ Len(s.calls) = 0 /\ s.id = rest[k].id
                      /\ ~s.compacted /\ s.covers = {} /\ s.n > serial
    OBVIOUS
  <2> DEFINE s == Result(rest[k], serial + 1 + k, 1)
  <2>1. rest[k] \in CallOf /\ serial + 1 + k \in Nat /\ 1 \in Nat /\ serial + 1 + k > serial
    BY <1>3
  <2>2. /\ s \in Message /\ s.kind = "result" /\ Len(s.calls) = 0 /\ s.id = rest[k].id
        /\ ~s.compacted /\ s.covers = {} /\ s.n = serial + 1 + k
    BY <2>1, ResultFacts
  <2> HIDE DEF s
  <2>3. s.n > serial
    BY <2>1, <2>2
  <2> QED BY <2>2, <2>3 DEF s
<1>8. /\ skipped \in Seq(Message) /\ Len(skipped) = Len(rest)
      /\ \A k \in 1..Len(rest) : /\ skipped[k].kind = "result" /\ Len(skipped[k].calls) = 0
                                 /\ skipped[k].id = rest[k].id /\ ~skipped[k].compacted
                                 /\ skipped[k].covers = {} /\ skipped[k].n > serial
  <2>1. skipped = [k \in 1..Len(rest) |-> Result(rest[k], serial + 1 + k, 1)]
    OBVIOUS
  <2>2. \A k \in 1..Len(rest) : Result(rest[k], serial + 1 + k, 1) \in Message
    BY <1>7
  <2> HIDE DEF skipped
  <2>3. skipped \in Seq(Message) /\ Len(skipped) = Len(rest)
    BY <1>3, <2>1, <2>2
  <2>4. \A k \in 1..Len(rest) : skipped[k] = Result(rest[k], serial + 1 + k, 1)
    BY <2>1
  <2> QED BY <1>7, <2>3, <2>4
<1> HIDE DEF r, skipped
<1>9. /\ rs \in Seq(Message) /\ Len(rs) = Len(results) + 1 /\ Len(results) \in Nat
      /\ \A k \in 1..Len(results) : rs[k] = results[k]
      /\ rs[Len(results) + 1] = r
  BY <1>6, Appended
<1> HIDE DEF rs
<1>10. Plainly(rs)
  <2> SUFFICES ASSUME NEW k \in 1..Len(rs)
               PROVE  /\ rs[k].kind = "result" /\ Len(rs[k].calls) = 0
                      /\ ~rs[k].compacted /\ rs[k].covers = {}
    BY DEF Plainly
  <2>1. k \in 1..Len(results) \/ k = Len(results) + 1
    BY <1>9
  <2> QED BY <2>1, <1>6, <1>9 DEF Plainly
<1>13. \A k \in 1..Len(rs) : rs[k].n > serial \/ \E j \in 1..Len(results) : rs[k].n = results[j].n
  <2> SUFFICES ASSUME NEW k \in 1..Len(rs)
               PROVE  rs[k].n > serial \/ \E j \in 1..Len(results) : rs[k].n = results[j].n
    OBVIOUS
  <2>1. k \in 1..Len(results) \/ k = Len(results) + 1
    BY <1>9
  <2> QED BY <2>1, <1>6, <1>9
<1> DEFINE n == Len(results)
<1>11. CASE batch' = rest /\ results' = rs \o <<>>
  <2>1. results' = rs
    BY <1>9, <1>11
  <2>2. Len(rs) + Len(rest) = Len(results) + Len(batch)
    BY <1>3, <1>9
  <2>3. ASSUME NEW k \in 1..(n + Len(batch))
        PROVE  (IF k <= Len(rs) THEN rs[k].id ELSE rest[k - Len(rs)].id)
                 = (IF k <= n THEN results[k].id ELSE batch[k - n].id)
    <3>1. CASE k <= n
      BY <3>1, <1>9
    <3>2. CASE k = n + 1
      <4>1. k - n = 1
        BY <3>2, <1>9
      <4> QED BY <3>2, <4>1, <1>3, <1>6, <1>9
    <3>3. CASE k > n + 1
      <4>1. k - Len(rs) \in 1..Len(rest) /\ (k - Len(rs)) + 1 = k - n
        BY <3>3, <1>3, <1>9
      <4>2. rest[k - Len(rs)] = batch[(k - Len(rs)) + 1]
        BY <4>1, <1>3
      <4>3. rest[k - Len(rs)] = batch[k - n]
        BY <4>1, <4>2
      <4>4. ~(k <= Len(rs)) /\ ~(k <= n)
        BY <3>3, <1>9
      <4> QED BY <4>3, <4>4
    <3> QED BY <3>1, <3>2, <3>3, <1>9
  <2>4. Awaited(rs, rest) = Awaited(results, batch)
    BY <2>2, <2>3 DEF Awaited
  <2>5. batch' = rest /\ rest = Tail(batch) /\ rest \in Seq(CallOf)
    BY <1>3, <1>11 DEF rest
  <2>6. \A k \in 1..Len(results') :
          results'[k].n > serial \/ \E j \in 1..Len(results) : results'[k].n = results[j].n
    BY <1>13, <2>1
  <2>7. ran' = [ran EXCEPT ![batch[1].sig] = @ + 1] \/ ran' = ran
    BY <1>4
  <2>8. /\ batch' \in Seq(CallOf) /\ results' \in Seq(Message) /\ Plainly(results')
        /\ Len(results') + Len(batch') = Len(results) + Len(batch)
        /\ Awaited(results', batch') = Awaited(results, batch)
    BY <1>9, <1>10, <2>1, <2>2, <2>4, <2>5
  <2>9. batch' = Tail(batch)
    BY <2>5
  <2> QED BY <2>6, <2>7, <2>8, <2>9
<1>12. CASE batch' = <<>> /\ results' = rs \o skipped
  <2> DEFINE all == rs \o skipped
  <2>1. /\ all \in Seq(Message) /\ Len(all) = Len(rs) + Len(skipped)
        /\ \A k \in 1..Len(rs) : all[k] = rs[k]
        /\ \A k \in 1..Len(all) : k > Len(rs) =>
             k - Len(rs) \in 1..Len(skipped) /\ all[k] = skipped[k - Len(rs)]
    <3>0. rs \in Seq(Message) /\ skipped \in Seq(Message)
      BY <1>8, <1>9
    <3>1. all \in Seq(Message) /\ Len(all) = Len(rs) + Len(skipped)
      BY <3>0, Joined
    <3>2. \A k \in 1..Len(rs) : all[k] = rs[k]
      BY <3>0, Joined
    <3>3. \A k \in 1..Len(all) : k > Len(rs) =>
             k - Len(rs) \in 1..Len(skipped) /\ all[k] = skipped[k - Len(rs)]
      BY <3>0, Joined
    <3> QED BY <3>1, <3>2, <3>3
  <2>2. results' = all
    BY <1>12
  <2> HIDE DEF all
  <2>3. Len(all) = n + Len(batch)
    BY <2>1, <1>3, <1>8, <1>9
  <2>4. Plainly(all)
    <3> SUFFICES ASSUME NEW k \in 1..Len(all)
                 PROVE  /\ all[k].kind = "result" /\ Len(all[k].calls) = 0
                        /\ ~all[k].compacted /\ all[k].covers = {}
      BY DEF Plainly
    <3>1. CASE k <= Len(rs)
      <4>1. k \in 1..Len(rs)
        BY <3>1, <1>9
      <4> QED BY <4>1, <2>1, <1>10 DEF Plainly
    <3>2. CASE k > Len(rs)
      BY <3>2, <2>1, <1>8
    <3> QED BY <3>1, <3>2, <1>9
  <2>5. ASSUME NEW k \in 1..(n + Len(batch))
        PROVE  all[k].id = (IF k <= n THEN results[k].id ELSE batch[k - n].id)
    <3>1. CASE k <= n
      <4>1. k \in 1..Len(rs) /\ k \in 1..n
        BY <3>1, <1>9
      <4> QED BY <3>1, <4>1, <2>1, <1>9
    <3>2. CASE k = n + 1
      <4>1. k - n = 1 /\ k \in 1..Len(rs)
        BY <3>2, <1>9
      <4> QED BY <3>2, <4>1, <2>1, <1>3, <1>6, <1>9
    <3>3. CASE k > n + 1
      <4>1. k \in 1..Len(all) /\ k > Len(rs) /\ (k - Len(rs)) + 1 = k - n
        BY <3>3, <2>3, <1>9
      <4>2. k - Len(rs) \in 1..Len(rest) /\ all[k] = skipped[k - Len(rs)]
        BY <4>1, <2>1, <1>8
      <4>3. ~(k <= n)
        BY <3>3, <1>9
      <4>4. skipped[k - Len(rs)].id = rest[k - Len(rs)].id
        BY <4>2, <1>8
      <4>5. rest[k - Len(rs)] = batch[k - n]
        <5>1. rest[k - Len(rs)] = batch[(k - Len(rs)) + 1]
          BY <4>2, <1>3
        <5> QED BY <4>1, <5>1
      <4> QED BY <4>2, <4>3, <4>4, <4>5
    <3> QED BY <3>1, <3>2, <3>3, <1>9
  <2>6. Awaited(all, <<>>) = Awaited(results, batch)
    <3>1. Len(all) + Len(<<>>) = n + Len(batch) /\ Len(<<>>) = 0
      BY <2>3, <1>3, <1>9
    <3>2. \A k \in 1..(n + Len(batch)) : k <= Len(all)
      BY <2>3
    <3> QED BY <2>5, <3>1, <3>2 DEF Awaited
  <2>7. <<>> \in Seq(CallOf) /\ Len(all) + Len(<<>>) = Len(results) + Len(batch)
    BY <2>3, <1>3, <1>9
  <2>8. \A k \in 1..Len(all) : all[k].n > serial \/ \E j \in 1..Len(results) : all[k].n = results[j].n
    <3> SUFFICES ASSUME NEW k \in 1..Len(all)
                 PROVE  all[k].n > serial \/ \E j \in 1..Len(results) : all[k].n = results[j].n
      OBVIOUS
    <3>1. CASE k <= Len(rs)
      <4>1. k \in 1..Len(rs)
        BY <3>1, <1>9
      <4> QED BY <4>1, <2>1, <1>13
    <3>2. CASE k > Len(rs)
      BY <3>2, <2>1, <1>8
    <3> QED BY <3>1, <3>2, <1>9
  <2> QED BY <1>4, <1>12, <2>1, <2>2, <2>4, <2>6, <2>7, <2>8
<1> QED BY <1>4, <1>11, <1>12

\* A step that has nothing to do with the calls of a batch.
Aside ==
  /\ batch' = batch /\ results' = results /\ ran' = ran /\ tc'.executed = tc.executed
  /\ pc' = "batch" <=> pc = "batch"
  /\ pc = "batch" => inner' = inner

\* A step either leaves batch and results alone, or discards them, or is one of three actions.
LEMMA StepAside ==
  ASSUME Typed, [Next]_vars
  PROVE  \/ Aside \/ Discard \/ RunCall \/ AppendResults
         \/ \E b \in Batches : AnswerCalls(b)
<1>1. StepOf
  BY Steps
<1>2. CASE AddPrompt
  BY <1>2 DEF AddPrompt, Aside, peerVars, turnVars, pastVars, KeepTools, KeepRound
<1>3. CASE CheckAndCompress
  BY <1>3 DEF CheckAndCompress, Aside, peerVars, turnVars, pastVars, KeepTools, KeepRound
<1>4. CASE MaybeStartSpeculative
  BY <1>4 DEF MaybeStartSpeculative, Aside, peerVars, turnVars, pastVars, KeepTools, KeepRound
<1>5. CASE SeedTurn
  BY <1>5 DEF SeedTurn, Aside, peerVars, turnVars, pastVars, KeepTools, KeepRound
<1>6. CASE LeaveLoop
  BY <1>6 DEF LeaveLoop, Aside, peerVars, turnVars, pastVars, KeepTools, KeepRound
<1>7. CASE StopCancelled
  BY <1>7 DEF StopCancelled, Aside, peerVars, turnVars, pastVars, KeepTools, KeepRound
<1>8. CASE IterationLimit
  BY <1>8 DEF IterationLimit, Aside, peerVars, turnVars, pastVars, KeepTools, KeepRound
<1>9. CASE BeginRound
  BY <1>9 DEF BeginRound, Aside, peerVars, turnVars, pastVars, KeepTools, KeepRound, Contexts, Typed
<1>10. CASE CompactIfNeeded
  BY <1>10 DEF CompactIfNeeded, Aside, peerVars, turnVars, pastVars, KeepTools, KeepRound
<1>11. CASE EnsureContextFits
  BY <1>11 DEF EnsureContextFits, Aside, peerVars, turnVars, pastVars, KeepTools, KeepRound
<1>12. CASE RecoverFromOverflow
  BY <1>12 DEF RecoverFromOverflow, Aside, peerVars, turnVars, pastVars, KeepTools, KeepRound
<1>13. CASE StreamFails
  BY <1>13 DEF StreamFails, Aside, peerVars, turnVars, pastVars, KeepTools, KeepRound
<1>14. CASE AnswerText
  BY <1>14, AnswerKeeps DEF AnswerText, Aside, peerVars, turnVars, pastVars, KeepTools, KeepRound
<1>15. CASE AnswerCutOff
  BY <1>15, AnswerKeeps DEF AnswerCutOff, Aside, peerVars, turnVars, pastVars, KeepTools, KeepRound, Contexts, Typed
<1>16. CASE AnswerBroken
  BY <1>16, AnswerKeeps DEF AnswerBroken, Aside, peerVars, turnVars, pastVars, KeepTools, KeepRound, Contexts, Typed
<1>17. CASE MirrorMessage
  BY <1>17 DEF MirrorMessage, Aside, peerVars, turnVars, pastVars, KeepTools, KeepRound, Mirroring
<1>18. CASE EndRound
  BY <1>18 DEF EndRound, Aside, peerVars, turnVars, pastVars, KeepTools, KeepRound
<1>19. CASE SpeculativeEnds
  BY <1>19 DEF SpeculativeEnds, Aside, peerVars, turnVars, pastVars, KeepTools, KeepRound
<1>20. CASE Steer
  BY <1>20 DEF Steer, Aside, peerVars, turnVars, pastVars, KeepTools, KeepRound
<1>21. CASE Cancel
  BY <1>21 DEF Cancel, Aside, peerVars, turnVars, pastVars, KeepTools, KeepRound
<1>22. CASE ResetSession
  BY <1>22 DEF ResetSession, Aside, peerVars, turnVars, pastVars, KeepTools, KeepRound
<1>23. CASE UNCHANGED vars
  BY <1>23 DEF Aside, vars, turnVars
<1>24. CASE EndTurn \/ Crash
  BY <1>24 DEF EndTurn, Crash
<1> QED BY <1>1, <1>2, <1>3, <1>4, <1>5, <1>6, <1>7, <1>8, <1>9, <1>10, <1>11, <1>12, <1>13, <1>14, <1>15, <1>16, <1>17, <1>18, <1>19, <1>20, <1>21, <1>22, <1>23, <1>24 DEF StepOf

Batched ==
  /\ batch \in Seq(CallOf) /\ results \in Seq(Message) /\ Plainly(results)
  /\ pc # "batch" => batch = <<>> /\ results = <<>>

Once ==
  /\ \A s \in Sigs : ran[s] <= 1 /\ (ran[s] > 0 => s \in tc.executed)
  /\ \A k \in 1..Len(batch) : ran[batch[k].sig] = 0 /\ batch[k].sig \in tc.executed
  /\ \A j, k \in 1..Len(batch) : batch[j].sig = batch[k].sig => j = k

\* An empty batch is one.
LEMMA NothingBatched == <<>> \in Seq(CallOf) /\ <<>> \in Seq(Message) /\ Plainly(<<>>)
BY DEF Plainly

\* Batched and Once hold at first.
LEMMA InitBatched == ASSUME Init PROVE Batched /\ Once
<1>1. batch = <<>> /\ results = <<>>
  BY DEF Init
<1>2. ran = [s \in Sigs |-> 0]
  BY DEF Init
<1>3. Batched
  BY <1>1, NothingBatched DEF Batched
<1>4. Once
  BY <1>1, <1>2 DEF Once
<1> QED BY <1>3, <1>4

\* What an answer with calls leaves to be run.
LEMMA AnswerCallsBatch ==
  ASSUME Typed, NEW sigs \in Batches, AnswerCalls(sigs)
  PROVE  LET b == CallsIn(sigs) IN
         /\ batch' = Unique(b) /\ results' = <<>> /\ ran' = ran
         /\ tc'.executed = tc.executed \cup Range(sigs)
         /\ Unique(b) = <<>> => pc' = "loop"
         /\ Unique(b) # <<>> => pc' = "batch"
<1>1. PICK r, added : Answer(r, added)
  BY DEF AnswerCalls
<1>2. ran' = ran
  BY <1>1, AnswerKeeps
<1>3. tc' = [tc EXCEPT !.executed = @ \cup Range(sigs)]
  BY DEF AnswerCalls
<1>4. tc'.executed = tc.executed \cup Range(sigs)
  BY <1>3 DEF Typed, Contexts
<1> DEFINE b == CallsIn(sigs)
<1>5. /\ batch' = Unique(b) /\ results' = <<>>
      /\ IF Unique(b) = <<>> THEN pc' = "loop" ELSE pc' = "batch"
  BY DEF AnswerCalls, CallsIn
<1> QED BY <1>2, <1>4, <1>5

\* Every step keeps Batched.
LEMMA StepBatched ==
  ASSUME Typed, Batched, [Next]_vars
  PROVE  Batched'
<1>1. CASE Aside
  BY <1>1 DEF Aside, Batched, Plainly
<1>2. CASE Discard
  BY <1>2, NothingBatched DEF Discard, Batched, Plainly
<1>3. CASE RunCall
  <2>1. /\ batch' \in Seq(CallOf) /\ results' \in Seq(Message) /\ Plainly(results')
    BY <1>3, RunCallIs DEF Batched, Typed
  <2>2. pc' = "batch"
    BY <1>3 DEF RunCall
  <2> QED BY <2>1, <2>2 DEF Batched, Plainly
<1>4. CASE AppendResults
  <2>1. batch' = <<>> /\ results' = <<>>
    BY <1>4 DEF AppendResults
  <2> QED BY <2>1, NothingBatched DEF Batched, Plainly
<1>5. ASSUME NEW sigs \in Batches, AnswerCalls(sigs) PROVE Batched'
  <2> DEFINE b == CallsIn(sigs)
  <2>1. b \in Seq(CallOf)
    BY CallsInIs DEF Typed
  <2>2. /\ batch' = Unique(b) /\ results' = <<>>
        /\ Unique(b) # <<>> => pc' = "batch"
        /\ Unique(b) = <<>> => pc' = "loop"
    BY <1>5, AnswerCallsBatch
  <2> HIDE DEF b
  <2>3. Unique(b) \in Seq(CallOf)
    BY <2>1, UniqueIs
  <2>4. pc' # "batch" => batch' = <<>>
    BY <2>2
  <2> QED BY <2>2, <2>3, <2>4, NothingBatched DEF Batched, Plainly
<1> QED BY <1>1, <1>2, <1>3, <1>4, <1>5, StepAside

\* No step runs a call twice.
LEMMA StepOnce ==
  ASSUME Typed, Batched, Once, [Next]_vars
  PROVE  Once'
<1>1. CASE Aside
  BY <1>1 DEF Aside, Once
<1>2. CASE Discard
  <2>1. batch' = <<>> /\ ran' = [s \in Sigs |-> 0]
    BY <1>2 DEF Discard
  <2> QED BY <2>1 DEF Once
<1>3. CASE RunCall
  <2>1. /\ batch' = Tail(batch) \/ batch' = <<>>
        /\ ran' = [ran EXCEPT ![batch[1].sig] = @ + 1] \/ ran' = ran
    BY <1>3, RunCallIs DEF Batched, Typed
  <2>2. /\ batch \in Seq(CallOf) /\ batch # <<>> /\ tc' = tc
    BY <1>3 DEF Batched, RunCall, KeepRound
  <2>3. /\ Len(batch) \in Nat /\ Len(batch) >= 1 /\ batch[1] \in CallOf
        /\ Len(Tail(batch)) = Len(batch) - 1
        /\ \A k \in 1..Len(Tail(batch)) : Tail(batch)[k] = batch[k + 1] /\ batch[k + 1] \in CallOf
    BY <2>2
  <2> DEFINE s1 == batch[1].sig
  <2>4. s1 \in Sigs /\ ran[s1] = 0 /\ s1 \in tc.executed
    BY <2>3 DEF CallOf, Once
  <2>5. ran \in [Sigs -> Nat]
    BY DEF Typed
  <2>6. \A s \in Sigs : ran'[s] <= 1 /\ (ran'[s] > 0 => s \in tc.executed)
    <3> SUFFICES ASSUME NEW s \in Sigs PROVE ran'[s] <= 1 /\ (ran'[s] > 0 => s \in tc.executed)
      OBVIOUS
    <3>1. ran[s] <= 1 /\ (ran[s] > 0 => s \in tc.executed)
      BY DEF Once
    <3> HIDE DEF s1
    <3>2. ran'[s] = ran[s] \/ (s = s1 /\ ran'[s] = ran[s] + 1)
      BY <2>1, <2>5 DEF s1
    <3> QED BY <2>4, <3>1, <3>2
  <2>7. \A s \in Sigs : s # s1 => ran'[s] = ran[s]
    BY <2>1, <2>5
  <2>8. ASSUME NEW k \in 1..Len(batch')
        PROVE  ran'[batch'[k].sig] = 0 /\ batch'[k].sig \in tc.executed
    <3>1. batch' = Tail(batch)
      BY <2>1, <2>8
    <3>2. k \in 1..Len(Tail(batch)) /\ batch'[k] = batch[k + 1] /\ batch[k + 1] \in CallOf
      BY <2>3, <2>8, <3>1
    <3>3. k + 1 \in 1..Len(batch) /\ 1 \in 1..Len(batch) /\ k + 1 # 1
      BY <2>3, <3>2
    <3>4. batch[k + 1].sig # s1
      BY <3>3 DEF Once
    <3>5. batch[k + 1].sig \in Sigs /\ ran[batch[k + 1].sig] = 0 /\ batch[k + 1].sig \in tc.executed
      BY <3>2, <3>3 DEF Once, CallOf
    <3> HIDE DEF s1
    <3> QED BY <2>7, <3>2, <3>4, <3>5
  <2>9. ASSUME NEW j \in 1..Len(batch'), NEW k \in 1..Len(batch'), batch'[j].sig = batch'[k].sig
        PROVE  j = k
    <3>1. batch' = Tail(batch)
      BY <2>1, <2>9
    <3>2. batch'[j] = batch[j + 1] /\ batch'[k] = batch[k + 1]
      BY <2>3, <2>9, <3>1
    <3>3. j + 1 \in 1..Len(batch) /\ k + 1 \in 1..Len(batch)
      BY <2>3, <2>9, <3>1
    <3>4. j + 1 = k + 1
      BY <2>9, <3>2, <3>3 DEF Once
    <3> QED BY <3>4
  <2> QED BY <2>2, <2>6, <2>8, <2>9 DEF Once
<1>4. CASE AppendResults
  <2>1. batch' = batch /\ ran' = ran /\ tc' = tc
    BY <1>4 DEF AppendResults, KeepRound
  <2> QED BY <2>1 DEF Once
<1>5. ASSUME NEW sigs \in Batches, AnswerCalls(sigs) PROVE Once'
  <2> DEFINE b == CallsIn(sigs)
  <2>1. /\ b \in Seq(CallOf) /\ Len(b) = Len(sigs) /\ sigs \in Seq(Sigs)
        /\ \A k \in 1..Len(b) : b[k].sig = sigs[k]
    BY CallsInIs DEF Typed
  <2>2. batch' = Unique(b) /\ ran' = ran /\ tc'.executed = tc.executed \cup Range(sigs)
    BY <1>5, AnswerCallsBatch
  <2> DEFINE w == Ordered(Firsts(b))
             u == Unique(b)
  <2> HIDE DEF b
  <2>3. /\ \A k \in 1..Len(u) : w[k] \in 1..Len(b) /\ u[k] = b[w[k]]
        /\ \A k \in 1..Len(u) : u[k].sig \notin tc.executed
        /\ \A j, k \in 1..Len(u) : u[j].sig = u[k].sig => j = k
    BY <2>1, UniqueIs
  <2> HIDE DEF u, w
  <2>4. ASSUME NEW k \in 1..Len(u) PROVE u[k].sig \in Range(sigs) /\ ran[u[k].sig] = 0
    <3>1. u[k].sig = sigs[w[k]] /\ w[k] \in 1..Len(sigs)
      BY <2>1, <2>3
    <3>2. u[k].sig \in Sigs /\ u[k].sig \in Range(sigs)
      BY <2>1, <3>1 DEF Range
    <3>3. ran[u[k].sig] \in Nat /\ ~(ran[u[k].sig] > 0)
      BY <2>3, <3>2 DEF Once, Typed
    <3> QED BY <3>2, <3>3
  <2>5. batch' = u
    BY <2>2 DEF u
  <2> QED BY <2>2, <2>3, <2>4, <2>5 DEF Once
<1> QED BY <1>1, <1>2, <1>3, <1>4, <1>5, StepAside

-----------------------------------------------------------------------------
(* What the actions of a turn add to its history.                           *)

\* What a turn may add to a history: what it was given, and what is said from now on.
Said == pending \cup promoted \cup {prompt} \cup {n \in Nat : n > serial}

\* What the loop says for itself neither calls nor answers.
LEMMA NewIs ==
  ASSUME serial \in Nat, NEW kind \in {"text", "notice"}, NEW k \in Nat \ {0}
  PROVE  /\ New(kind, k) \in Message /\ Plain(New(kind, k)) /\ New(kind, k).kind = kind
         /\ New(kind, k).n = serial + k /\ Quiet(New(kind, k), Said)
<1> DEFINE m == New(kind, k)
<1>1. kind \in Kinds /\ serial + k \in Nat /\ serial + k > serial
  BY DEF Kinds
<1>2. /\ m \in Message /\ m.kind = kind /\ m.calls = <<>> /\ m.n = serial + k
      /\ m.covers = {} /\ ~m.compacted
  BY <1>1, MsgIs DEF New
<1> HIDE DEF m
<1>3. Len(m.calls) = 0
  BY <1>2
<1>4. Plain(m)
  BY <1>2, <1>3 DEF Plain
<1>5. m.n \in Said
  BY <1>1, <1>2 DEF Said
<1>6. Quiet(m, Said)
  BY <1>2, <1>4, <1>5 DEF Quiet
<1> QED BY <1>2, <1>4, <1>6 DEF m

\* Messages that may be added anywhere, and tell of X.
Additions(w, X) == w \in Seq(Message) /\ \A k \in 1..Len(w) : Quiet(w[k], X)

\* The loop's note on an answer that repeats the one before.
LEMMA ObserveIs ==
  ASSUME serial \in Nat, History(inner), NEW response, NEW usage \in Usages, NEW repeated
  PROVE  Extends(Observe(response, usage, repeated).history, inner, Said)
<1> DEFINE used == RecordUsage(inner, usage)
           m == New("notice", 1)
           g == Observe(response, usage, repeated).history
<1>1. usage \in Nat
  BY BatchesAssumption
<1>2. Extends(used, inner, Said)
  BY <1>1, ExtendsRecorded
<1>3. g = used \/ g = Append(used, m)
  BY DEF Observe
<1>4. m \in Message /\ Quiet(m, Said)
  <2>1. "notice" \in {"text", "notice"} /\ 1 \in Nat \ {0}
    OBVIOUS
  <2> QED BY <2>1, NewIs
<1> HIDE DEF used, m, g
<1>5. Extends(Append(used, m), used, Said)
  BY <1>2, <1>4, ExtendsAppend DEF Extends, Follows
<1>6. Extends(Append(used, m), inner, Said)
  BY <1>2, <1>5, ExtendsOn
<1>7. Extends(g, inner, Said)
  BY <1>2, <1>3, <1>6
<1> QED BY <1>7 DEF g

\* An answer without calls adds such messages only.
LEMMA AnswerAdds ==
  ASSUME serial \in Nat, History(inner), NEW response, NEW added, Answer(response, added),
         Additions(added, Said)
  PROVE  Extends(inner', inner, Said)
<1>1. PICK usage \in Usages, repeated \in BOOLEAN :
        inner' = Observe(response, usage, repeated).history \o added
  BY DEF Answer
<1> DEFINE g == Observe(response, usage, repeated).history
<1>2. Extends(g, inner, Said)
  BY ObserveIs
<1> HIDE DEF g
<1>3. Extends(g \o added, g, Said)
  BY <1>2, ExtendsJoined DEF Additions, Extends, Follows
<1>4. Extends(g \o added, inner, Said)
  BY <1>2, <1>3, ExtendsOn
<1> QED BY <1>1, <1>4 DEF g

\* The steered texts X become such messages, each of them one.
LEMMA SteersAre ==
  ASSUME NEW N \in Nat, NEW X \in SUBSET (1..N)
  PROVE  LET w == [k \in DOMAIN Ordered(X) |-> Msg("steer", Ordered(X)[k])] IN
         /\ Additions(w, X) /\ Len(w) = Len(Ordered(X)) /\ Lists(Ordered(X), X)
         /\ \A k \in 1..Len(w) : w[k].n = Ordered(X)[k] /\ w[k].n \in X /\ w[k].kind = "steer"
         /\ \A x \in X : \E k \in 1..Len(w) : w[k].n = x
<1> DEFINE o == Ordered(X)
           w == [k \in DOMAIN o |-> Msg("steer", o[k])]
<1>1. Lists(o, X)
  BY OrderedIs
<1> HIDE DEF o
<1>2. o \in Seq(X) /\ DOMAIN o = 1..Len(o) /\ Len(o) \in Nat
  BY <1>1 DEF Lists
<1>3. \A k \in 1..Len(o) : o[k] \in X /\ o[k] \in Nat
  <2>1. \A k \in 1..Len(o) : o[k] \in X
    BY <1>2, ElementOfSeq
  <2>2. \A x \in X : x \in Nat
    OBVIOUS
  <2> QED BY <2>1, <2>2
<1>4. \A k \in 1..Len(o) : /\ Msg("steer", o[k]) \in Message /\ Msg("steer", o[k]).kind = "steer"
                           /\ Msg("steer", o[k]).n = o[k] /\ Msg("steer", o[k]).calls = <<>>
                           /\ Msg("steer", o[k]).covers = {} /\ ~Msg("steer", o[k]).compacted
  BY <1>3, MsgIs DEF Kinds
<1>5. w \in Seq(Message) /\ Len(w) = Len(o)
  BY <1>2, <1>4
<1>6. \A k \in 1..Len(w) : w[k] = Msg("steer", o[k])
  BY <1>2, <1>5
<1>7. \A k \in 1..Len(w) : /\ w[k].n = o[k] /\ w[k].n \in X /\ w[k].kind = "steer"
                           /\ w[k].calls = <<>> /\ w[k].covers = {} /\ ~w[k].compacted
  BY <1>3, <1>4, <1>5, <1>6
<1> HIDE DEF w
<1>8. \A k \in 1..Len(w) : Quiet(w[k], X)
  BY <1>7 DEF Quiet, Plain
<1>9. \A x \in X : \E k \in 1..Len(w) : w[k].n = x
  BY <1>1, <1>2, <1>5, <1>7 DEF Lists
<1>10. \A k \in 1..Len(w) : w[k].n = o[k] /\ w[k].n \in X /\ w[k].kind = "steer"
  BY <1>7
<1>11. Additions(w, X)
  BY <1>5, <1>8 DEF Additions
<1> QED BY <1>1, <1>5, <1>9, <1>10, <1>11 DEF w, o

\* A step of the loop that changes the history of the turn in a way that needs no more care.
Grows ==
  /\ pc \in InTurn /\ pc' \in InTurn /\ UNCHANGED <<peer, cursor, spec>>
  /\ Follows(inner', inner) /\ Extends(inner', inner, Said)

\* The actions of a turn that let its history grow so:
LEMMA BeginRoundGrows == ASSUME Typed, History(inner), BeginRound PROVE Grows
<1>1. serial \in Nat /\ pending \in SUBSET (1..serial)
  BY DEF Typed
<1> DEFINE w == [k \in DOMAIN Ordered(pending) |-> Msg("steer", Ordered(pending)[k])]
<1>2. Additions(w, pending)
  BY <1>1, SteersAre
<1>3. inner' = inner \o w
  BY DEF BeginRound
<1> HIDE DEF w
<1>4. Extends(inner', inner, pending)
  BY <1>2, <1>3, ExtendsJoined DEF Additions
<1>5. pending \subseteq Said
  BY DEF Said
<1>6. Extends(inner', inner, Said)
  BY <1>4, <1>5, ExtendsMore
<1> QED BY <1>6 DEF Grows, Extends, BeginRound, KeepPeer, KeepMirror, InTurn

\* a compaction before the request,
LEMMA CompactIfNeededGrows == ASSUME Typed, History(inner), CompactIfNeeded PROVE Grows
<1>1. inner' \in ForceCompact(inner, TRUE) \/ inner' = inner
  BY DEF CompactIfNeeded
<1>2. Extends(inner', inner, Said)
  BY <1>1, ExtendsForced, ExtendsSelf
<1> QED BY <1>2 DEF Grows, Extends, CompactIfNeeded, KeepPeer, KeepMirror, InTurn

\* one that makes the request fit,
LEMMA EnsureContextFitsGrows == ASSUME Typed, History(inner), EnsureContextFits PROVE Grows
<1>1. PICK h \in IF Fits(inner) THEN {inner} ELSE ForceCompact(inner, FALSE) :
        inner' = IF Fits(h) THEN h ELSE Pruned(h)
  BY DEF EnsureContextFits
<1>2. Extends(h, inner, Said) /\ History(h)
  BY ExtendsForced, ExtendsSelf DEF Extends, Follows
<1>3. inner' = h \/ inner' = Pruned(h)
  BY <1>1
<1>4. Extends(Pruned(h), h, Said)
  BY <1>2, ExtendsPruned
<1>5. Extends(Pruned(h), inner, Said)
  BY <1>2, <1>4, ExtendsOn
<1>6. Extends(inner', inner, Said)
  BY <1>2, <1>3, <1>5
<1> QED BY <1>6 DEF Grows, Extends, EnsureContextFits, KeepPeer, KeepMirror, InTurn

\* one after the server has refused it,
LEMMA RecoverFromOverflowGrows == ASSUME Typed, History(inner), RecoverFromOverflow PROVE Grows
<1> DEFINE t == Tokens(TurnRequest(inner))
           u == RecordUsage(inner, t)
<1>1. PICK h \in ForceCompact(u, TRUE) : inner' = IF Fits(h) THEN h ELSE Pruned(h)
  BY DEF RecoverFromOverflow
<1>2. t \in Nat
  <2>1. inner \in Seq(Message) /\ Formed(inner)
    BY DEF History
  <2>2. TurnRequest(inner) = RepairToolCallPairing(Bare(inner))
    BY DEF TurnRequest, Request, Bare
  <2>3. Bare(inner) \in Seq(Message)
    BY <2>1, SentIs
  <2>4. TurnRequest(inner) \in Seq(Message)
    BY <2>2, <2>3, RepairIs
  <2> QED BY <2>4, TokensIsNat
<1> HIDE DEF t
<1>3. Extends(u, inner, Said) /\ History(u)
  BY <1>2, ExtendsRecorded DEF Extends, Follows
<1> HIDE DEF u
<1>4. Extends(h, u, Said)
  BY <1>3, ExtendsForced
<1>5. Extends(h, inner, Said) /\ History(h)
  BY <1>3, <1>4, ExtendsOn DEF Extends, Follows
<1>6. Extends(Pruned(h), h, Said)
  BY <1>5, ExtendsPruned
<1>7. Extends(Pruned(h), inner, Said)
  BY <1>5, <1>6, ExtendsOn
<1>8. Extends(inner', inner, Said)
  BY <1>1, <1>5, <1>7
<1>9. pc' \in {"retry", "failed"} /\ pc = "stream" /\ UNCHANGED <<peer, cursor, spec>>
  BY DEF RecoverFromOverflow, KeepPeer, KeepMirror
<1> QED BY <1>8, <1>9 DEF Grows, Extends, InTurn

\* the answer at the limit of rounds,
LEMMA IterationLimitGrows == ASSUME Typed, History(inner), IterationLimit PROVE Grows
<1> DEFINE m == New("text", 1)
<1>1. m \in Message /\ Quiet(m, Said)
  <2>1. "text" \in {"text", "notice"} /\ 1 \in Nat \ {0} /\ serial \in Nat
    BY DEF Typed
  <2> QED BY <2>1, NewIs
<1>2. inner' = Append(inner, m)
  BY DEF IterationLimit
<1> HIDE DEF m
<1>3. Extends(inner', inner, Said)
  BY <1>1, <1>2, ExtendsAppend
<1> QED BY <1>3 DEF Grows, Extends, IterationLimit, KeepPeer, KeepMirror, InTurn

\* and an answer without calls.
LEMMA AnswerGrows ==
  ASSUME Typed, History(inner), AnswerText \/ AnswerCutOff \/ AnswerBroken
  PROVE  Grows
<1>1. serial \in Nat
  BY DEF Typed
<1> DEFINE t == New("text", 2)
           n2 == New("notice", 2)
           n3 == New("notice", 3)
<1>2. /\ t \in Message /\ Quiet(t, Said)
      /\ n2 \in Message /\ Quiet(n2, Said)
      /\ n3 \in Message /\ Quiet(n3, Said)
  <2>1. /\ "text" \in {"text", "notice"} /\ "notice" \in {"text", "notice"}
        /\ 2 \in Nat \ {0} /\ 3 \in Nat \ {0}
    OBVIOUS
  <2> QED BY <1>1, <2>1, NewIs
<1>3. \E r, added : /\ Answer(r, added)
                    /\ added = <<t>> \/ added = <<>> \/ added = <<t, n3>> \/ added = <<n2>>
  BY DEF AnswerText, AnswerCutOff, AnswerBroken
<1>4. PICK r, added : /\ Answer(r, added)
                      /\ added = <<t>> \/ added = <<>> \/ added = <<t, n3>> \/ added = <<n2>>
  BY <1>3
<1> HIDE DEF t, n2, n3
<1>5. /\ Additions(<<t>>, Said) /\ Additions(<<>>, Said)
      /\ Additions(<<t, n3>>, Said) /\ Additions(<<n2>>, Said)
  BY <1>2 DEF Additions
<1>6. Extends(inner', inner, Said)
  BY <1>1, <1>4, <1>5, AnswerAdds
<1>7. pc' = "loop"
  BY DEF AnswerText, AnswerCutOff, AnswerBroken
<1> QED BY <1>4, <1>6, <1>7, AnswerKeeps DEF Grows, Extends, InTurn

-----------------------------------------------------------------------------
(* Answers with calls.                                                      *)

\* What an answer with calls adds to the history.
Asked(sigs) == [New("calls", 2) EXCEPT !.calls = CallsIn(sigs)]
Refused(sigs) == At(CallsIn(sigs), Repeats(CallsIn(sigs)))
Notes(sigs) == [k \in DOMAIN Refused(sigs) |-> Result(Refused(sigs)[k], serial + 2 + k, 1)]

\* The message with the calls of an answer.
LEMMA AskedIs ==
  ASSUME serial \in Nat, NEW sigs \in Batches
  PROVE  /\ Asked(sigs) \in Message /\ Asked(sigs).kind = "calls"
         /\ Asked(sigs).n = serial + 2 /\ Asked(sigs).calls = CallsIn(sigs)
         /\ Asked(sigs).covers = {} /\ ~Asked(sigs).compacted
<1> DEFINE m == New("calls", 2)
           b == CallsIn(sigs)
<1>1. b \in Seq(CallOf)
  BY CallsInIs
<1>2. m \in Message /\ m.kind = "calls" /\ m.n = serial + 2 /\ m.covers = {} /\ ~m.compacted
  BY MsgIs DEF New, Kinds
<1>3. Asked(sigs) = [m EXCEPT !.calls = b]
  BY DEF Asked
<1> HIDE DEF m, b
<1>4. [m EXCEPT !.calls = b] \in Message
  BY <1>1, <1>2 DEF Message
<1>5. /\ [m EXCEPT !.calls = b].calls = b /\ [m EXCEPT !.calls = b].kind = m.kind
      /\ [m EXCEPT !.calls = b].n = m.n /\ [m EXCEPT !.calls = b].covers = m.covers
      /\ [m EXCEPT !.calls = b].compacted = m.compacted
  BY <1>1, <1>2 DEF Message
<1> QED BY <1>2, <1>3, <1>4, <1>5 DEF b

\* The results that refuse the repeated calls.
LEMMA NotesAre ==
  ASSUME serial \in Nat, NEW sigs \in Batches
  PROVE  LET b == CallsIn(sigs)
             w == Ordered(Repeats(b))
             z == Notes(sigs) IN
         /\ z \in Seq(Message) /\ Len(z) = Len(w) /\ Lists(w, Repeats(b))
         /\ \A k \in 1..Len(z) : /\ w[k] \in Repeats(b) /\ w[k] \in 1..Len(b)
                                 /\ z[k].kind = "result" /\ Len(z[k].calls) = 0
                                 /\ z[k].id = b[w[k]].id /\ z[k].n = serial + 2 + k
                                 /\ ~z[k].compacted /\ z[k].covers = {}
<1> DEFINE b == CallsIn(sigs)
           R == Repeats(b)
           w == Ordered(R)
           a == Refused(sigs)
           z == Notes(sigs)
<1>1. b \in Seq(CallOf) /\ DOMAIN b = 1..Len(b) /\ Len(b) \in Nat
  <2>1. b \in Seq(CallOf)
    BY CallsInIs
  <2> QED BY <2>1
<1>2. a = At(b, R) /\ z = [k \in DOMAIN a |-> Result(a[k], serial + 2 + k, 1)]
  BY DEF Refused, Notes
<1>3. R \in SUBSET DOMAIN b
  BY DEF Repeats
<1> HIDE DEF b, R, a, z
<1>4. /\ Lists(w, R) /\ Len(w) \in Nat /\ DOMAIN w = 1..Len(w)
      /\ a \in Seq(CallOf) /\ Len(a) = Len(w)
      /\ \A k \in 1..Len(w) : w[k] \in DOMAIN b /\ a[k] = b[w[k]]
  BY <1>1, <1>2, <1>3, AtIs
<1> HIDE DEF w
<1>5. w \in Seq(R)
  BY <1>4 DEF Lists
<1>6. \A k \in 1..Len(w) : w[k] \in R
  BY <1>5, ElementOfSeq
<1>7. DOMAIN a = 1..Len(w) /\ \A k \in 1..Len(w) : a[k] \in CallOf
  BY <1>4
<1>8. \A k \in 1..Len(w) : LET s == Result(a[k], serial + 2 + k, 1) IN
        /\ s \in Message /\ s.kind = "result" /\ Len(s.calls) = 0 /\ s.id = a[k].id /\ s.n = serial + 2 + k
        /\ ~s.compacted /\ s.covers = {}
  <2> SUFFICES ASSUME NEW k \in 1..Len(w)
               PROVE  LET s == Result(a[k], serial + 2 + k, 1) IN
                      /\ s \in Message /\ s.kind = "result" /\ Len(s.calls) = 0 /\ s.id = a[k].id
                      /\ s.n = serial + 2 + k /\ ~s.compacted /\ s.covers = {}
    OBVIOUS
  <2>1. a[k] \in CallOf /\ serial + 2 + k \in Nat /\ 1 \in Nat
    BY <1>4, <1>7
  <2> QED BY <2>1, ResultFacts
<1>9. /\ z \in Seq(Message) /\ Len(z) = Len(w)
      /\ \A k \in 1..Len(w) : /\ z[k].kind = "result" /\ Len(z[k].calls) = 0
                              /\ z[k].id = a[k].id /\ z[k].n = serial + 2 + k
                              /\ ~z[k].compacted /\ z[k].covers = {}
  BY <1>2, <1>4, <1>7, <1>8
<1>10. \A k \in 1..Len(z) : /\ w[k] \in R /\ w[k] \in 1..Len(b)
                            /\ z[k].kind = "result" /\ Len(z[k].calls) = 0
                            /\ z[k].id = b[w[k]].id /\ z[k].n = serial + 2 + k
                            /\ ~z[k].compacted /\ z[k].covers = {}
  BY <1>1, <1>4, <1>6, <1>9
<1> QED BY <1>4, <1>9, <1>10 DEF b, R, w, z

\* An answer with calls adds that message and these results to a history that follows.
LEMMA AnswerCallsIs ==
  ASSUME Typed, History(inner), NEW sigs \in Batches, AnswerCalls(sigs)
  PROVE  \E g : /\ Follows(g, inner) /\ Extends(g, inner, Said)
               /\ inner' = Append(g, Asked(sigs)) \o Notes(sigs)
<1>1. serial \in Nat
  BY DEF Typed
<1> DEFINE m == Asked(sigs)
           z == Notes(sigs)
<1>2. Answer(sigs, <<m>> \o z)
  BY DEF AnswerCalls, Asked, Notes, Refused, Repeats, CallsIn
<1>3. m \in Message /\ z \in Seq(Message)
  BY <1>1, AskedIs, NotesAre
<1> HIDE DEF m, z
<1>4. PICK usage \in Usages, repeated \in BOOLEAN :
        inner' = Observe(sigs, usage, repeated).history \o (<<m>> \o z)
  BY <1>2 DEF Answer
<1> DEFINE g == Observe(sigs, usage, repeated).history
<1>5. Follows(g, inner) /\ Extends(g, inner, Said)
  BY <1>1, ObserveIs DEF Extends
<1> HIDE DEF g
<1>6. g \in Seq(Message) /\ <<m>> \in Seq(Message)
  BY <1>3, <1>5 DEF Follows, History
<1>7. g \o (<<m>> \o z) = (g \o <<m>>) \o z
  BY <1>3, <1>6, ConcatAssociative
<1>8. g \o <<m>> = Append(g, m)
  BY <1>3, <1>6, AppendIsConcat
<1>9. inner' = Append(g, m) \o z
  BY <1>4, <1>7, <1>8 DEF g
<1> QED BY <1>5, <1>9 DEF m, z

\* The message with the calls and the refusals in a row behind it leave a history.
LEMMA HistoryAsked ==
  ASSUME NEW g, History(g), NEW m \in Message, m.kind = "calls",
         NEW z \in Seq(Message), \A k \in 1..Len(z) : z[k].kind = "result"
  PROVE  LET h == Append(g, m) \o z IN
         History(h) /\ Grown(h, g) /\ History(Append(g, m)) /\ Continues(h, Append(g, m))
<1> DEFINE f == Append(g, m)
           h == f \o z
<1>1. g \in Seq(Message) /\ Formed(g)
  BY DEF History
<1>2. f \in Seq(Message) /\ Continues(f, g) /\ \A i \in Later(f, g) : f[i] = m
  <2>1. f \in Seq(Message)
    BY <1>1
  <2> QED BY <1>1, <2>1, AppendContinues
<1> HIDE DEF f
<1>3. /\ Continues(h, f)
      /\ \A i \in Later(h, f) : i - Len(f) \in 1..Len(z) /\ h[i] = z[i - Len(f)]
  BY <1>2, JoinContinues
<1> HIDE DEF h
<1>4. \A i \in Later(f, g) : f[i].kind \notin {"recovered", "system", "marker", "summary"}
  BY <1>2
<1>5. Formed(f)
  BY <1>1, <1>2, <1>4, FormedContinued
<1>6. \A i \in Later(h, f) : h[i].kind \notin {"recovered", "system", "marker", "summary"}
  BY <1>3
<1>7. Formed(h)
  BY <1>2, <1>3, <1>5, <1>6, FormedContinued
<1>8. h \in Seq(Message)
  BY <1>3 DEF Continues
<1>9. Grown(f, g) /\ Grown(h, f)
  BY <1>1, <1>2, <1>3, ContinuesGrown
<1>10. Grown(h, g)
  BY <1>1, <1>9, GrownOn
<1>11. History(h) /\ History(f)
  BY <1>2, <1>5, <1>7, <1>8 DEF History
<1> QED BY <1>3, <1>10, <1>11 DEF h, f

-----------------------------------------------------------------------------
(* Before and after the loop.                                               *)

\* Both sessions hold histories, and the copy of the turn begins with what it was seeded with.
Histories ==
  /\ History(peer)
  /\ pc \in InTurn => History(inner) /\ cursor \in 1..Len(inner)
  /\ pc \notin InTurn => inner = <<>> /\ cursor = 0

\* A snapshot stays one of the history it was taken of.
Snapshot ==
  /\ spec \in [state : {"none", "running", "ready", "failed"}, count : Nat, first : Nat,
               covers : SUBSET Nat]
  /\ spec.state = "ready" => spec.first # 0
  /\ spec.state \in {"running", "ready"} /\ spec.first # 0 => Cuts(spec, peer)

\* How a step changes the two histories.
Still == UNCHANGED <<peer, inner, cursor>> /\ (pc \in InTurn <=> pc' \in InTurn)
Opens == /\ AddPrompt \/ CheckAndCompress
         /\ pc \notin InTurn /\ pc' \notin InTurn /\ UNCHANGED <<inner, cursor>>
         /\ Follows(peer', peer)
Seeds == /\ pc \notin InTurn /\ pc' \in InTurn /\ peer' = peer
         /\ Same(Seed(peer), peer) /\ cursor' = Len(peer)
         /\ Follows(inner', Seed(peer)) /\ Continues(inner', Seed(peer))
        /\ Extends(inner', Seed(peer), Said)
Ends == /\ pc' = "idle" /\ inner' = <<>> /\ cursor' = 0 /\ mirrored' = {}
        /\ Follows(peer', peer) /\ Extends(peer', peer, Said)
        /\ \A i \in Later(peer', peer) : peer'[i].kind # "summary"

\* A compacted history, and the word to go on, follow the history.
LEMMA CompactedAndTold ==
  ASSUME NEW h, History(h), NEW c, Cuts(c, h)
  PROVE  Follows(Append(MarkCompaction(h, c), Msg("auto", 0)), h)
<1> DEFINE k == MarkCompaction(h, c)
           a == Msg("auto", 0)
<1>1. Follows(k, h)
  BY HistoryCompacted
<1>2. a \in Message /\ Plain(a) /\ a.kind \notin {"marker", "summary"}
  BY AutoIs
<1> HIDE DEF k, a
<1>3. Follows(Append(k, a), k)
  BY <1>1, <1>2, AppendPlain DEF Follows
<1>4. Follows(Append(k, a), h)
  BY <1>1, <1>3, FollowsOn
<1> QED BY <1>4 DEF k, a

\* Before the loop the history of the peer changes by the prompt,
LEMMA AddPromptOpens == ASSUME Typed, Histories, AddPrompt PROVE Opens
<1> DEFINE m == Msg("prompt", turns')
<1>1. turns' \in Nat /\ "prompt" \in Kinds
  BY DEF Typed, AddPrompt, Kinds
<1>2. m \in Message /\ m.kind = "prompt" /\ m.calls = <<>>
  BY <1>1, MsgIs
<1>3. peer' = Append(peer, m)
  BY DEF AddPrompt
<1> HIDE DEF m
<1>4. Plain(m)
  BY <1>2 DEF Plain
<1>5. Follows(peer', peer)
  BY <1>2, <1>3, <1>4, AppendPlain DEF Histories
<1> QED BY <1>5 DEF Opens, AddPrompt, InTurn

\* and by a compaction, if there is one.
LEMMA CheckAndCompressOpens == ASSUME Typed, Histories, Snapshot, CheckAndCompress PROVE Opens
<1> DEFINE c == Compaction(peer)
<1>1. History(peer) /\ peer \in Seq(Message)
  BY DEF Histories, History
<1>2. \/ peer' = peer
      \/ spec.state = "ready" /\ peer' = Append(MarkCompaction(peer, spec), Msg("auto", 0))
      \/ c.first # 0 /\ peer' = Append(MarkCompaction(peer, c), Msg("auto", 0))
  BY DEF CheckAndCompress, ApplySpeculative, SyncCompact
<1>3. CASE peer' = peer
  BY <1>1, <1>3, FollowsSelf DEF Opens, CheckAndCompress, InTurn, turnVars
<1>4. CASE spec.state = "ready" /\ peer' = Append(MarkCompaction(peer, spec), Msg("auto", 0))
  <2>1. Cuts(spec, peer)
    BY <1>4 DEF Snapshot
  <2>2. Follows(peer', peer)
    BY <1>1, <1>4, <2>1, CompactedAndTold
  <2> QED BY <2>2 DEF Opens, CheckAndCompress, InTurn, turnVars
<1>5. CASE c.first # 0 /\ peer' = Append(MarkCompaction(peer, c), Msg("auto", 0))
  <2>1. Cuts(c, peer)
    BY <1>1, <1>5, CompactionCuts
  <2> HIDE DEF c
  <2>2. Follows(peer', peer)
    BY <1>1, <1>5, <2>1, CompactedAndTold
  <2> QED BY <2>2 DEF Opens, CheckAndCompress, InTurn, turnVars
<1> QED BY <1>2, <1>3, <1>4, <1>5

\* The turn starts with the history of the peer, index by index.
LEMMA SeedTurnSeeds == ASSUME Typed, Histories, SeedTurn PROVE Seeds
<1> DEFINE s == Seed(peer)
           m == Msg("prompt", prompt)
<1>1. peer \in Seq(Message) /\ Formed(peer) /\ Len(peer) \in Nat
  BY DEF Histories, History
<1>2. Marked(s, peer)
  BY <1>1, SeedIs
<1>3. cursor' = Len(s) /\ (inner' = s \/ inner' = Append(s, m))
  BY DEF SeedTurn
<1>4. m \in Message /\ Quiet(m, Said)
  <2>1. prompt \in Nat /\ "prompt" \in Kinds
    BY SettingIs DEF Typed, Kinds
  <2>2. /\ m \in Message /\ m.kind = "prompt" /\ m.calls = <<>> /\ m.n = prompt
        /\ m.covers = {} /\ ~m.compacted
    BY <2>1, MsgIs
  <2>3. prompt \in Said
    BY DEF Said
  <2> QED BY <2>2, <2>3 DEF Quiet, Plain
<1> HIDE DEF s, m
<1>5. Same(s, peer)
  BY <1>1, <1>2, MarkedGrown
<1>6. History(s) /\ s \in Seq(Message)
  BY <1>1, <1>5, FormedSame DEF History, Same, Grown
<1>7. Extends(Append(s, m), s, Said) /\ Continues(Append(s, m), s)
  BY <1>4, <1>6, ExtendsAppend, AppendContinues
<1>8. Extends(s, s, Said)
  BY <1>6, ExtendsSelf
<1>9. Continues(s, s)
  BY <1>6 DEF Continues
<1>10. Extends(inner', s, Said) /\ Follows(inner', s) /\ Continues(inner', s)
  BY <1>3, <1>7, <1>8, <1>9 DEF Extends
<1>11. cursor' = Len(peer)
  BY <1>3, <1>5 DEF Same
<1>12. peer' = peer /\ pc = "seed" /\ pc' \in {"stopped", "loop"}
  BY DEF SeedTurn, KeepPeer
<1> QED BY <1>5, <1>10, <1>11, <1>12 DEF Seeds, InTurn, s

\* It ends with a history of the peer that follows the one before.
LEMMA EndTurnEnds == ASSUME Typed, Histories, EndTurn PROVE Ends
<1> DEFINE o == Ordered(promoted \ mirrored)
           w == [k \in DOMAIN o |-> Msg("steer", o[k])]
           r == peer \o w
<1>1. History(peer)
  BY DEF Histories
<1>2. serial \in Nat /\ promoted \ mirrored \in SUBSET (1..serial)
  BY DEF Typed
<1>3. Additions(w, promoted \ mirrored)
  BY <1>2, SteersAre
<1>4. peer' = peer \/ peer' = r \/ peer' = Pruned(r)
  BY DEF EndTurn, Unrecorded, Pruned
<1> HIDE DEF w
<1>9. r \in Seq(Message) /\ \A i \in Later(r, peer) : r[i].kind # "summary"
  <2>1. w \in Seq(Message) /\ \A k \in 1..Len(w) : w[k].kind # "summary"
    BY <1>3 DEF Additions, Quiet
  <2>2. Continues(r, peer) /\ \A i \in Later(r, peer) : i - Len(peer) \in 1..Len(w) /\ r[i] = w[i - Len(peer)]
    BY <1>1, <2>1, JoinContinues DEF History
  <2> QED BY <2>1, <2>2 DEF Continues
<1>5. Extends(r, peer, Said) /\ History(r)
  <2>1. Extends(r, peer, promoted \ mirrored)
    BY <1>1, <1>3, ExtendsJoined DEF Additions
  <2>2. promoted \ mirrored \subseteq Said
    BY DEF Said
  <2> QED BY <2>1, <2>2, ExtendsMore DEF Extends, Follows
<1> HIDE DEF r
<1>6. Extends(Pruned(r), r, Said)
  BY <1>5, ExtendsPruned
<1>7. Extends(Pruned(r), peer, Said)
  BY <1>1, <1>5, <1>6, ExtendsOn
<1>8. Extends(peer', peer, Said)
  BY <1>1, <1>4, <1>5, <1>7, ExtendsSelf
<1>10. \A i \in Later(peer', peer) : peer'[i].kind # "summary"
  <2>1. CASE peer' = peer
    BY <1>1, <2>1, GrownSelf, NothingLater DEF History
  <2>2. CASE peer' = r
    BY <1>9, <2>2
  <2>3. CASE peer' = Pruned(r)
    <3>1. Same(peer', r)
      BY <1>5, <2>3, HistoryPruned
    <3>2. Len(peer') = Len(r) /\ \A i \in 1..Len(r) : Kept(peer'[i], r[i])
      BY <3>1 DEF Same, Grown
    <3>3. Later(peer', peer) = Later(r, peer)
      BY <3>2 DEF Later
    <3>4. \A i \in Later(r, peer) : i \in 1..Len(r)
      BY <1>1, <1>9 DEF Later, History
    <3>5. \A i \in 1..Len(r) : peer'[i].kind = "summary" => r[i].kind = "summary"
      BY <3>2 DEF Kept
    <3> QED BY <1>9, <3>3, <3>4, <3>5
  <2> QED BY <1>4, <2>1, <2>2, <2>3
<1> QED BY <1>8, <1>10 DEF Ends, Extends, EndTurn, Discard

\* A result or a call that is mirrored, or whatever else.
LEMMA MirrorHistory ==
  ASSUME Histories, MirrorMessage
  PROVE  LET m == inner[cursor + 1] IN
         /\ m \in Message /\ cursor + 1 \in 2..Len(inner) /\ cursor' = cursor + 1
         /\ inner' = inner /\ spec' = spec /\ pc' = pc /\ pc \in InTurn
         /\ History(peer') /\ Continues(peer', peer)
         /\ Mirrored(m) => peer' = Append(peer, Mirror(m))
         /\ ~Mirrored(m) => peer' = peer
         /\ m.kind \notin {"recovered", "system"}
<1> DEFINE m == inner[cursor + 1]
<1>1. pc \in InTurn
  BY DEF MirrorMessage, Mirroring, InTurn
<1>2. /\ inner \in Seq(Message) /\ Formed(inner) /\ cursor \in 1..Len(inner) /\ Len(inner) \in Nat
      /\ peer \in Seq(Message) /\ Formed(peer)
  BY <1>1 DEF Histories, History
<1>3. cursor < Len(inner)
  BY DEF MirrorMessage
<1>4. cursor + 1 \in 2..Len(inner) /\ cursor + 1 \in 1..Len(inner)
  BY <1>2, <1>3
<1>5. m \in Message /\ m.kind \notin {"recovered", "system"}
  <2>1. m \in Message
    BY <1>2, <1>4
  <2>2. m.kind # "recovered" /\ (m.kind = "system" => cursor + 1 = 1)
    BY <1>2, <1>4 DEF Formed
  <2> QED BY <2>1, <2>2, <1>4
<1>6. /\ Mirrored(m) => peer' = Append(peer, Mirror(m))
      /\ ~Mirrored(m) => peer' = peer
      /\ cursor' = cursor + 1 /\ inner' = inner /\ spec' = spec /\ pc' = pc
  BY DEF MirrorMessage
<1> HIDE DEF m
<1>7. CASE ~Mirrored(m)
  <2>1. peer' = peer
    BY <1>6, <1>7
  <2>2. Continues(peer', peer) /\ History(peer')
    BY <2>1, <1>2 DEF Continues, History
  <2> QED BY <2>2, <1>1, <1>4, <1>5, <1>6 DEF m
<1>8. CASE Mirrored(m)
  <2> DEFINE r == Mirror(m)
  <2>1. r \in Message /\ r.kind = m.kind
    BY <1>5, MirrorIs DEF Alike
  <2>2. r.kind \notin {"recovered", "system", "marker", "summary"}
    BY <2>1, <1>5, <1>8 DEF Mirrored
  <2>3. peer' = Append(peer, r)
    BY <1>6, <1>8
  <2> HIDE DEF r
  <2>4. Continues(peer', peer) /\ \A i \in Later(peer', peer) : peer'[i] = r
    BY <1>2, <2>1, <2>3, AppendContinues
  <2>5. Formed(peer')
    BY <1>2, <2>2, <2>4, FormedContinued
  <2>6. History(peer')
    BY <2>4, <2>5 DEF History, Continues
  <2> QED BY <2>4, <2>6, <1>1, <1>4, <1>5, <1>6 DEF m
<1> QED BY <1>7, <1>8

-----------------------------------------------------------------------------
(* Histories, and the snapshot of a speculative compaction, in every step.  *)

\* Every step changes the histories in one of these ways.
LEMMA StepWay ==
  ASSUME Typed, Histories, Snapshot, [Next]_vars
  PROVE  \/ Still \/ Opens \/ Seeds \/ Grows \/ Ends
         \/ AppendResults \/ MirrorMessage \/ ResetSession
         \/ \E b \in Batches : AnswerCalls(b)
<1>1. StepOf
  BY Steps
<1>2. CASE AddPrompt \/ CheckAndCompress
  BY <1>2, AddPromptOpens, CheckAndCompressOpens
<1>3. CASE MaybeStartSpeculative
  BY <1>3 DEF MaybeStartSpeculative, Still, InTurn, turnVars
<1>4. CASE SeedTurn
  BY <1>4, SeedTurnSeeds
<1>5. CASE LeaveLoop
  BY <1>5 DEF LeaveLoop, Still, InTurn, KeepPeer, KeepMirror
<1>6. CASE StopCancelled
  BY <1>6 DEF StopCancelled, Still, InTurn, turnVars, peerVars
<1>7. CASE IterationLimit \/ BeginRound \/ CompactIfNeeded \/ EnsureContextFits \/ RecoverFromOverflow
           \/ AnswerText \/ AnswerCutOff \/ AnswerBroken
  <2>1. pc \in InTurn
    <3>1. CASE IterationLimit \/ BeginRound \/ CompactIfNeeded \/ EnsureContextFits \/ RecoverFromOverflow
      BY <3>1 DEF IterationLimit, BeginRound, CompactIfNeeded, EnsureContextFits, RecoverFromOverflow, InTurn
    <3>2. CASE AnswerText \/ AnswerCutOff \/ AnswerBroken
      BY <3>2 DEF AnswerText, AnswerCutOff, AnswerBroken, Answer, Streaming, InTurn
    <3> QED BY <3>1, <3>2, <1>7
  <2>2. History(inner)
    BY <2>1 DEF Histories
  <2> QED BY <1>7, <2>2, IterationLimitGrows, BeginRoundGrows, CompactIfNeededGrows,
             EnsureContextFitsGrows, RecoverFromOverflowGrows, AnswerGrows
<1>8. CASE StreamFails
  BY <1>8 DEF StreamFails, Still, InTurn, turnVars, peerVars
<1>9. CASE RunCall
  BY <1>9 DEF RunCall, Still, KeepPeer, KeepMirror
<1>10. CASE EndRound
  BY <1>10 DEF EndRound, Still, InTurn, KeepPeer, KeepMirror
<1>11. CASE EndTurn
  BY <1>11, EndTurnEnds
<1>12. CASE SpeculativeEnds
  BY <1>12 DEF SpeculativeEnds, Still, turnVars
<1>13. CASE Steer
  BY <1>13 DEF Steer, Still, turnVars
<1>14. CASE Cancel
  BY <1>14 DEF Cancel, Still, peerVars
<1>15. CASE Crash
  <2>1. Follows(peer, peer) /\ Extends(peer, peer, Said)
    BY FollowsSelf, ExtendsSelf DEF Histories
  <2>2. Later(peer, peer) = {}
    BY GrownSelf, NothingLater DEF Histories, History
  <2> QED BY <1>15, <2>1, <2>2 DEF Crash, Discard, Ends
<1>16. CASE UNCHANGED vars
  BY <1>16 DEF vars, peerVars, turnVars, Still
<1>17. CASE AppendResults \/ MirrorMessage \/ ResetSession \/ (\E b \in Batches : AnswerCalls(b))
  BY <1>17
<1> QED BY <1>1, <1>2, <1>3, <1>4, <1>5, <1>6, <1>7, <1>8, <1>9, <1>10, <1>11, <1>12, <1>13, <1>14,
           <1>15, <1>16, <1>17 DEF StepOf

\* The results that a batch leaves behind go to the end of the history.
LEMMA AppendResultsIs ==
  ASSUME Histories, Batched, AppendResults
  PROVE  /\ History(inner) /\ History(inner') /\ Continues(inner', inner) /\ Grown(inner', inner)
         /\ UNCHANGED <<peer, cursor, spec>> /\ pc \in InTurn /\ pc' \in InTurn
         /\ \A i \in Later(inner', inner) :
              i - Len(inner) \in 1..Len(results) /\ inner'[i] = results[i - Len(inner)]
         /\ Len(batch) = 0
<1>1. pc \in InTurn /\ pc' \in InTurn /\ UNCHANGED <<peer, cursor, spec>> /\ batch = <<>>
  BY DEF AppendResults, InTurn, KeepPeer, KeepMirror
<1>2. /\ inner' = inner \o results /\ results \in Seq(Message) /\ Plainly(results)
      /\ inner \in Seq(Message) /\ Formed(inner)
  BY <1>1 DEF AppendResults, Batched, Histories, History
<1>3. /\ Continues(inner', inner)
      /\ \A i \in Later(inner', inner) :
           i - Len(inner) \in 1..Len(results) /\ inner'[i] = results[i - Len(inner)]
  BY <1>2, JoinContinues
<1>4. \A i \in Later(inner', inner) : inner'[i].kind \notin {"recovered", "system", "marker", "summary"}
  BY <1>2, <1>3 DEF Plainly
<1>5. Formed(inner')
  BY <1>2, <1>3, <1>4, FormedContinued
<1>6. Grown(inner', inner)
  BY <1>2, <1>3, ContinuesGrown
<1> QED BY <1>1, <1>2, <1>3, <1>5, <1>6 DEF History, Continues

\* An answer with calls leaves a well-formed history.
LEMMA AskedHistory ==
  ASSUME Typed, Histories, NEW sigs \in Batches, AnswerCalls(sigs)
  PROVE  /\ History(inner) /\ History(inner') /\ Grown(inner', inner)
         /\ UNCHANGED <<peer, cursor, spec>> /\ pc \in InTurn /\ pc' \in InTurn
<1>1. PICK added : Answer(sigs, added)
  BY DEF AnswerCalls
<1>2. UNCHANGED <<peer, cursor, spec>> /\ pc \in InTurn
  BY <1>1, AnswerKeeps DEF InTurn
<1>3. pc' \in InTurn
  BY DEF AnswerCalls, InTurn
<1>4. History(inner) /\ inner \in Seq(Message)
  BY <1>2 DEF Histories, History
<1>5. PICK g : Follows(g, inner) /\ inner' = Append(g, Asked(sigs)) \o Notes(sigs)
  BY <1>4, AnswerCallsIs
<1> DEFINE m == Asked(sigs)
           z == Notes(sigs)
<1>6. m \in Message /\ m.kind = "calls" /\ z \in Seq(Message) /\ \A k \in 1..Len(z) : z[k].kind = "result"
  BY AskedIs, NotesAre DEF Typed
<1> HIDE DEF m, z
<1>7. History(Append(g, m) \o z) /\ Grown(Append(g, m) \o z, g)
  BY <1>5, <1>6, HistoryAsked DEF Follows
<1>8. inner' = Append(g, m) \o z
  BY <1>5 DEF m, z
<1>9. Grown(inner', inner)
  BY <1>4, <1>5, <1>7, <1>8, GrownOn DEF Follows
<1> QED BY <1>2, <1>3, <1>4, <1>7, <1>8, <1>9

\* Histories and Snapshot hold at first.
LEMMA InitHistories == ASSUME Init PROVE Histories /\ Snapshot
<1> DEFINE m == Msg("system", 0)
           h == <<m>>
<1>1. peer = h /\ spec = NoSpec /\ pc = "idle" /\ inner = <<>> /\ cursor = 0
  BY DEF Init
<1>2. m \in Message /\ m.kind = "system"
  BY MsgIs DEF Kinds
<1>3. Alike(m, Msg("system", 0))
  BY DEF Alike
<1> HIDE DEF m
<1>4. h \in Seq(Message) /\ Len(h) = 1 /\ h[1] = m
  BY <1>2
<1> HIDE DEF h
<1>5. \A i \in 1..Len(h) : i = 1
  BY <1>4
<1>6. Formed(h)
  BY <1>2, <1>3, <1>4, <1>5 DEF Formed
<1>7. History(peer)
  BY <1>1, <1>4, <1>6 DEF History
<1> QED BY <1>1, <1>7 DEF Histories, Snapshot, InTurn, NoSpec

\* What a reset leaves.
LEMMA Reset ==
  ASSUME Histories, ResetSession
  PROVE  /\ peer' = <<Msg("system", 0)>> /\ History(peer') /\ Len(peer') = 1
         /\ peer'[1] \in Message /\ peer'[1].kind = "system" /\ peer'[1].n = 0
         /\ peer'[1].calls = <<>> /\ peer'[1].covers = {}
         /\ spec' = NoSpec /\ pc = "idle" /\ pc' = "idle" /\ UNCHANGED <<inner, cursor>>
<1> DEFINE m == Msg("system", 0)
           h == <<m>>
<1>1. peer' = h /\ spec' = NoSpec /\ pc = "idle" /\ pc' = "idle" /\ UNCHANGED <<inner, cursor>>
  BY DEF ResetSession, turnVars
<1>2. m \in Message /\ m.kind = "system" /\ m.n = 0 /\ m.calls = <<>> /\ m.covers = {}
  BY MsgIs DEF Kinds
<1>3. Alike(m, Msg("system", 0))
  BY DEF Alike
<1> HIDE DEF m
<1>4. h \in Seq(Message) /\ Len(h) = 1 /\ h[1] = m
  BY <1>2
<1> HIDE DEF h
<1>5. \A i \in 1..Len(h) : i = 1
  BY <1>4
<1>6. Formed(h)
  BY <1>2, <1>3, <1>4, <1>5 DEF Formed
<1>7. History(h)
  BY <1>4, <1>6 DEF History
<1> QED BY <1>1, <1>2, <1>4, <1>7 DEF m, h

\* Every step keeps Histories.
LEMMA StepHistories ==
  ASSUME Typed, Histories, Snapshot, Batched, [Next]_vars
  PROVE  Histories'
<1>0. Len(peer) \in Nat /\ Len(peer) >= 1
  BY DEF Histories, History, Formed
<1>1. CASE Still
  BY <1>1 DEF Still, Histories
<1>2. CASE Opens
  BY <1>2 DEF Opens, Follows, Histories
<1>3. CASE Seeds
  <2>1. History(inner') /\ Len(Seed(peer)) = Len(peer) /\ Len(Seed(peer)) <= Len(inner')
    BY <1>3 DEF Seeds, Follows, Grown, Same
  <2>2. Len(inner') \in Nat
    BY <2>1 DEF History
  <2>3. cursor' \in 1..Len(inner')
    BY <1>0, <1>3, <2>1, <2>2 DEF Seeds
  <2> QED BY <1>3, <2>1, <2>3 DEF Seeds, Histories
<1>4. ASSUME History(inner'), Grown(inner', inner), UNCHANGED <<peer, cursor>>, pc \in InTurn, pc' \in InTurn
      PROVE  Histories'
  <2>1. cursor \in 1..Len(inner) /\ Len(inner) <= Len(inner')
    BY <1>4 DEF Histories, Grown
  <2>2. Len(inner) \in Nat /\ Len(inner') \in Nat
    BY <1>4 DEF Histories, History
  <2>3. cursor' \in 1..Len(inner')
    BY <1>4, <2>1, <2>2
  <2> QED BY <1>4, <2>3 DEF Histories
<1>5. CASE Grows
  BY <1>4, <1>5 DEF Grows, Follows
<1>6. CASE AppendResults
  BY <1>4, <1>6, AppendResultsIs
<1>7. ASSUME NEW b \in Batches, AnswerCalls(b) PROVE Histories'
  BY <1>4, <1>7, AskedHistory
<1>8. CASE Ends
  <2>1. pc' \notin InTurn
    BY <1>8 DEF Ends, InTurn
  <2> QED BY <1>8, <2>1 DEF Ends, Histories, Follows
<1>9. CASE MirrorMessage
  <2>1. /\ cursor + 1 \in 2..Len(inner) /\ cursor' = cursor + 1
        /\ inner' = inner /\ pc' = pc /\ pc \in InTurn /\ History(peer')
    BY <1>9, MirrorHistory
  <2>2. cursor' \in 1..Len(inner')
    BY <2>1
  <2> QED BY <2>1, <2>2 DEF Histories
<1>10. CASE ResetSession
  <2>1. /\ History(peer') /\ pc = "idle" /\ pc' = "idle" /\ UNCHANGED <<inner, cursor>>
    BY <1>10, Reset
  <2> QED BY <2>1 DEF Histories, InTurn
<1> QED BY <1>1, <1>2, <1>3, <1>5, <1>6, <1>7, <1>8, <1>9, <1>10, StepWay

\* A cut stays one when the history grows.
LEMMA CutsGrown ==
  ASSUME NEW h \in Seq(Message), NEW g, Grown(g, h), NEW c, Cuts(c, h)
  PROVE  Cuts(c, g)
<1>1. Len(h) \in Nat /\ Len(g) \in Nat /\ Len(h) <= Len(g) /\ c.first \in 2..Len(h) /\ c.first \in 1..Len(h)
  BY DEF Grown, Cuts
<1>2. Kept(g[c.first], h[c.first])
  BY <1>1 DEF Grown
<1>3. ~IsTool(g[c.first])
  BY <1>2, KeptIs DEF Cuts
<1>4. c.first \in 2..Len(g)
  BY <1>1
<1> QED BY <1>3, <1>4 DEF Cuts

\* What the entry of a speculative compaction can become.
LEMMA StepSpec ==
  ASSUME Typed, Histories, Snapshot, [Next]_vars
  PROVE  \/ spec' = spec \/ spec' = NoSpec
         \/ MaybeStartSpeculative \/ SpeculativeEnds
<1>1. StepOf
  BY Steps
<1>2. CASE AddPrompt \/ CheckAndCompress
  BY <1>2 DEF AddPrompt, CheckAndCompress
<1>3. CASE SeedTurn \/ LeaveLoop \/ IterationLimit \/ BeginRound \/ CompactIfNeeded \/ EnsureContextFits
           \/ RecoverFromOverflow \/ RunCall \/ AppendResults \/ EndRound \/ MirrorMessage
  BY <1>3 DEF SeedTurn, LeaveLoop, IterationLimit, BeginRound, CompactIfNeeded, EnsureContextFits,
              RecoverFromOverflow, RunCall, AppendResults, EndRound, MirrorMessage, KeepPeer
<1>4. CASE StopCancelled \/ StreamFails \/ Cancel
  BY <1>4 DEF StopCancelled, StreamFails, Cancel, peerVars
<1>5. CASE AnswerText \/ AnswerCutOff \/ AnswerBroken
  BY <1>5, AnswerKeeps DEF AnswerText, AnswerCutOff, AnswerBroken
<1>6. CASE \E b \in Batches : AnswerCalls(b)
  BY <1>6, AnswerKeeps DEF AnswerCalls
<1>7. CASE EndTurn \/ Steer \/ Crash \/ ResetSession
  BY <1>7 DEF EndTurn, Steer, Crash, ResetSession
<1>8. CASE UNCHANGED vars
  BY <1>8 DEF vars, peerVars
<1> QED BY <1>1, <1>2, <1>3, <1>4, <1>5, <1>6, <1>7, <1>8 DEF StepOf

\* The history of the peer only grows, until it is reset.
LEMMA PeerGrown ==
  ASSUME Typed, Histories, Snapshot, Batched, [Next]_vars
  PROVE  Grown(peer', peer) \/ ResetSession
<1>0. peer \in Seq(Message)
  BY DEF Histories, History
<1>1. peer' = peer => Grown(peer', peer)
  BY <1>0, GrownSelf DEF Same
<1>2. CASE Still \/ Seeds \/ Grows
  BY <1>1, <1>2 DEF Still, Seeds, Grows
<1>3. CASE Opens \/ Ends
  BY <1>3 DEF Opens, Ends, Follows
<1>4. CASE AppendResults
  BY <1>1, <1>4, AppendResultsIs
<1>5. ASSUME NEW b \in Batches, AnswerCalls(b) PROVE Grown(peer', peer)
  BY <1>1, <1>5, AskedHistory
<1>6. CASE MirrorMessage
  <2>1. Continues(peer', peer)
    BY <1>6, MirrorHistory
  <2> QED BY <1>0, <2>1, ContinuesGrown
<1> QED BY <1>2, <1>3, <1>4, <1>5, <1>6, StepWay

\* Every step keeps Snapshot.
LEMMA StepSnapshot ==
  ASSUME Typed, Histories, Snapshot, Batched, [Next]_vars
  PROVE  Snapshot'
<1>0. peer \in Seq(Message)
  BY DEF Histories, History
<1>1. CASE spec' = NoSpec
  BY <1>1 DEF NoSpec, Snapshot
<1>2. CASE MaybeStartSpeculative
  <2> DEFINE c == Compaction(peer)
             n == [state |-> "running", count |-> Len(peer), first |-> c.first, covers |-> c.covers]
  <2>1. spec' = n \/ spec' = spec
    BY <1>2 DEF MaybeStartSpeculative
  <2>2. peer' = peer
    BY <1>2 DEF MaybeStartSpeculative
  <2>3. Cut(c)
    BY <1>0, CompactionIs
  <2>4. c.first # 0 => Cuts(c, peer)
    BY <1>0, CompactionCuts
  <2>5. Len(peer) \in Nat
    BY <1>0
  <2> HIDE DEF c
  <2>6. CASE spec' = n
    BY <2>2, <2>3, <2>4, <2>5, <2>6 DEF Snapshot, Cut, Cuts
  <2>7. CASE spec' = spec
    BY <2>2, <2>7 DEF Snapshot
  <2> QED BY <2>1, <2>6, <2>7
<1>3. CASE SpeculativeEnds
  <2>1. PICK s \in {"failed", "ready"} :
          /\ spec' = [spec EXCEPT !.state = s] /\ (s = "ready" => spec.first # 0)
          /\ spec.state = "running" /\ peer' = peer
    BY <1>3 DEF SpeculativeEnds
  <2>2. /\ spec' \in [state : {"none", "running", "ready", "failed"}, count : Nat, first : Nat,
                      covers : SUBSET Nat]
        /\ spec'.state = s /\ spec'.first = spec.first /\ spec'.covers = spec.covers
    BY <2>1 DEF Snapshot
  <2>3. spec'.first # 0 => Cuts(spec', peer)
    BY <2>1, <2>2 DEF Snapshot, Cuts, Cut
  <2> QED BY <2>1, <2>2, <2>3 DEF Snapshot
<1>4. CASE spec' = spec /\ Grown(peer', peer)
  <2>1. spec.state \in {"running", "ready"} /\ spec.first # 0 => Cuts(spec, peer')
    BY <1>0, <1>4, CutsGrown DEF Snapshot
  <2> QED BY <1>4, <2>1 DEF Snapshot
<1>5. CASE ResetSession
  BY <1>1, <1>5, Reset
<1> QED BY <1>1, <1>2, <1>3, <1>4, <1>5, StepSpec, PeerGrown

-----------------------------------------------------------------------------
(* The two histories of a turn, and the ids in them.                        *)

\* The ids of the calls in h were given by answers so far.
Numbered(h, n) ==
  \A i \in 1..Len(h) : \A k \in 1..Len(h[i].calls) : h[i].calls[k].id[1] \in 0..n

\* The calls and results of p come from the first c messages of f.
Drawn(p, f, c) ==
  /\ \A i \in 1..Len(p) : \A k \in 1..Len(p[i].calls) :
       \E j \in 1..c : \E l \in 1..Len(f[j].calls) : f[j].calls[l].id = p[i].calls[k].id
  /\ \A i \in 1..Len(p) : IsTool(p[i]) => \E j \in 1..c : IsTool(f[j]) /\ f[j].id = p[i].id

\* Calls in f that only results have followed as far as c are in p, and only results follow
\* them there.
Linked(p, f, c) ==
  \A j \in 1..c :
    f[j].kind = "calls" /\ (\A l \in (j + 1)..c : IsTool(f[l])) =>
      \E q \in 1..Len(p) : p[q].calls = f[j].calls /\ \A l \in (q + 1)..Len(p) : IsTool(p[l])

\* The ids w are those of calls of one message, that only results have followed and none of
\* them has answered.
Awaits(h, w) ==
  /\ \E j \in 1..Len(h) : /\ \A l \in (j + 1)..Len(h) : IsTool(h[l])
                          /\ \A k \in DOMAIN w : \E c \in 1..Len(h[j].calls) : h[j].calls[c].id = w[k]
  /\ \A k, l \in DOMAIN w : w[k] = w[l] => k = l
  /\ \A k \in DOMAIN w, l \in 1..Len(h) : IsTool(h[l]) => h[l].id # w[k]

\* The ids of calls in a history that follows are those of before.
LEMMA NumberedFollows ==
  ASSUME NEW n \in Nat, NEW m \in Nat, n <= m, NEW h \in Seq(Message), Numbered(h, n),
         NEW g, Follows(g, h)
  PROVE  Numbered(g, m)
<1>1. Len(h) \in Nat /\ Len(g) \in Nat /\ Grown(g, h)
  BY DEF Follows, History
<1> SUFFICES ASSUME NEW i \in 1..Len(g), NEW k \in 1..Len(g[i].calls)
             PROVE  g[i].calls[k].id[1] \in 0..m
  BY DEF Numbered
<1>2. CASE i \in 1..Len(h)
  <2>1. g[i].calls = h[i].calls
    BY <1>1, <1>2 DEF Grown, Kept
  <2>2. h[i].calls[k].id[1] \in 0..n
    BY <1>2, <2>1 DEF Numbered
  <2>3. 0..n \subseteq 0..m
    OBVIOUS
  <2> QED BY <2>1, <2>2, <2>3
<1>3. CASE i \notin 1..Len(h)
  <2>1. i \in Later(g, h)
    BY <1>1, <1>3 DEF Later
  <2>2. Len(g[i].calls) = 0
    BY <2>1 DEF Follows, Plain
  <2>3. k \in 1..0
    BY <2>2
  <2> QED BY <2>3
<1> QED BY <1>2, <1>3

\* Numbers given so far have been given later.
LEMMA NumberedOn ==
  ASSUME NEW n \in Nat, NEW m \in Nat, n <= m, NEW h, Numbered(h, n)
  PROVE  Numbered(h, m)
<1> SUFFICES ASSUME NEW i \in 1..Len(h), NEW k \in 1..Len(h[i].calls)
             PROVE  h[i].calls[k].id[1] \in 0..m
  BY DEF Numbered
<1>1. h[i].calls[k].id[1] \in 0..n
  BY DEF Numbered
<1> QED BY <1>1

\* Drawn does not look at what the turn says later
LEMMA DrawnKept ==
  ASSUME NEW p, NEW f \in Seq(Message), NEW c \in 1..Len(f), Drawn(p, f, c), NEW g, Grown(g, f)
  PROVE  Drawn(p, g, c)
<1>1. \A j \in 1..c : j \in 1..Len(f)
  OBVIOUS
<1>2. \A j \in 1..c : /\ g[j].calls = f[j].calls /\ g[j].id = f[j].id
                      /\ IsTool(g[j]) <=> IsTool(f[j])
  BY <1>1, KeptIs DEF Grown
<1>3. ASSUME NEW i \in 1..Len(p), NEW k \in 1..Len(p[i].calls)
      PROVE  \E j \in 1..c : \E l \in 1..Len(g[j].calls) : g[j].calls[l].id = p[i].calls[k].id
  <2>1. PICK j \in 1..c : \E l \in 1..Len(f[j].calls) : f[j].calls[l].id = p[i].calls[k].id
    BY DEF Drawn
  <2>2. g[j].calls = f[j].calls
    BY <1>2
  <2>3. \E l \in 1..Len(g[j].calls) : g[j].calls[l].id = p[i].calls[k].id
    BY <2>1, <2>2
  <2> QED BY <2>3
<1>4. ASSUME NEW i \in 1..Len(p), IsTool(p[i])
      PROVE  \E j \in 1..c : IsTool(g[j]) /\ g[j].id = p[i].id
  BY <1>2, <1>4 DEF Drawn
<1> QED BY <1>3, <1>4 DEF Drawn

\* nor does Linked.
LEMMA LinkedKept ==
  ASSUME NEW p, NEW f \in Seq(Message), NEW c \in 1..Len(f), Linked(p, f, c), NEW g, Grown(g, f)
  PROVE  Linked(p, g, c)
<1>1. \A j \in 1..c : j \in 1..Len(f)
  OBVIOUS
<1>2. \A j \in 1..c : /\ g[j].calls = f[j].calls /\ (g[j].kind = "calls" => f[j].kind = "calls")
                      /\ IsTool(g[j]) <=> IsTool(f[j])
  BY <1>1, KeptIs DEF Grown, Kinds, ToolKinds
<1> SUFFICES ASSUME NEW j \in 1..c, g[j].kind = "calls", \A l \in (j + 1)..c : IsTool(g[l])
             PROVE  \E q \in 1..Len(p) : p[q].calls = g[j].calls
                                         /\ \A l \in (q + 1)..Len(p) : IsTool(p[l])
  BY DEF Linked
<1>3. \A l \in (j + 1)..c : l \in 1..c
  OBVIOUS
<1>4. f[j].kind = "calls" /\ \A l \in (j + 1)..c : IsTool(f[l])
  BY <1>2, <1>3
<1>5. \E q \in 1..Len(p) : p[q].calls = f[j].calls /\ \A l \in (q + 1)..Len(p) : IsTool(p[l])
  BY <1>4 DEF Linked
<1> QED BY <1>2, <1>5

\* A seeded history begins with the calls and the results of the one it was made from.
LEMMA SeededDrawn ==
  ASSUME NEW p \in Seq(Message), Len(p) >= 1, NEW s, Same(s, p)
  PROVE  Drawn(p, s, Len(p)) /\ Linked(p, s, Len(p))
<1>1. Len(p) \in Nat
  OBVIOUS
<1>2. \A j \in 1..Len(p) : /\ s[j].calls = p[j].calls /\ s[j].id = p[j].id
                           /\ IsTool(s[j]) <=> IsTool(p[j])
  BY KeptIs DEF Same, Grown
<1>3. Drawn(p, s, Len(p))
  <2>1. ASSUME NEW i \in 1..Len(p), NEW k \in 1..Len(p[i].calls)
        PROVE  \E l \in 1..Len(s[i].calls) : s[i].calls[l].id = p[i].calls[k].id
    <3>1. s[i].calls = p[i].calls
      BY <1>2
    <3>2. k \in 1..Len(s[i].calls) /\ s[i].calls[k].id = p[i].calls[k].id
      BY <3>1
    <3> QED BY <3>2
  <2>2. \A i \in 1..Len(p) : IsTool(p[i]) => IsTool(s[i]) /\ s[i].id = p[i].id
    BY <1>2
  <2> QED BY <2>1, <2>2 DEF Drawn
<1>4. Linked(p, s, Len(p))
  <2> SUFFICES ASSUME NEW j \in 1..Len(p), \A l \in (j + 1)..Len(p) : IsTool(s[l])
               PROVE  p[j].calls = s[j].calls /\ \A l \in (j + 1)..Len(p) : IsTool(p[l])
    BY DEF Linked
  <2>1. \A l \in (j + 1)..Len(p) : l \in 1..Len(p)
    BY <1>1
  <2> QED BY <1>2, <2>1
<1> QED BY <1>3, <1>4

-----------------------------------------------------------------------------
\* A message mirrored that is neither calls nor a result.
LEMMA MirrorPlain ==
  ASSUME NEW p \in Seq(Message), NEW f \in Seq(Message), NEW c \in Nat, c + 1 \in 1..Len(f),
         Drawn(p, f, c), ~IsTool(f[c + 1]), f[c + 1].kind # "calls",
         NEW g, Continues(g, p), \A i \in Later(g, p) : Len(g[i].calls) = 0 /\ ~IsTool(g[i])
  PROVE  Drawn(g, f, c + 1) /\ Linked(g, f, c + 1)
<1>1. /\ Len(p) \in Nat /\ Len(g) \in Nat /\ Len(p) <= Len(g) /\ \A i \in 1..Len(p) : g[i] = p[i]
  BY DEF Continues
<1>2. \A i \in 1..Len(g) : i \in 1..Len(p) \/ i \in Later(g, p)
  BY <1>1 DEF Later
<1>3. \A j \in 1..c : j \in 1..(c + 1)
  OBVIOUS
<1>4. ASSUME NEW i \in 1..Len(g), NEW k \in 1..Len(g[i].calls)
      PROVE  \E j \in 1..(c + 1) : \E l \in 1..Len(f[j].calls) : f[j].calls[l].id = g[i].calls[k].id
  <2>1. CASE i \in 1..Len(p)
    <3>1. g[i] = p[i] /\ k \in 1..Len(p[i].calls)
      BY <1>1, <2>1
    <3>2. \E j \in 1..c : \E l \in 1..Len(f[j].calls) : f[j].calls[l].id = p[i].calls[k].id
      BY <2>1, <3>1 DEF Drawn
    <3> QED BY <1>3, <3>1, <3>2
  <2>2. CASE i \in Later(g, p)
    <3>1. k \in 1..0
      BY <2>2
    <3> QED BY <3>1
  <2> QED BY <1>2, <2>1, <2>2
<1>5. ASSUME NEW i \in 1..Len(g), IsTool(g[i])
      PROVE  \E j \in 1..(c + 1) : IsTool(f[j]) /\ f[j].id = g[i].id
  <2>1. i \in 1..Len(p) /\ g[i] = p[i]
    BY <1>1, <1>2, <1>5
  <2>2. \E j \in 1..c : IsTool(f[j]) /\ f[j].id = p[i].id
    BY <1>5, <2>1 DEF Drawn
  <2> QED BY <1>3, <2>1, <2>2
<1>6. ASSUME NEW j \in 1..(c + 1), f[j].kind = "calls", \A l \in (j + 1)..(c + 1) : IsTool(f[l])
      PROVE  FALSE
  <2>1. j # c + 1
    BY <1>6
  <2>2. c + 1 \in (j + 1)..(c + 1)
    BY <2>1
  <2> QED BY <1>6, <2>2
<1> QED BY <1>4, <1>5, <1>6 DEF Drawn, Linked

\* Mirroring a message with calls keeps what relates the two histories
LEMMA MirrorCalls ==
  ASSUME NEW p \in Seq(Message), NEW f \in Seq(Message), NEW c \in Nat, c + 1 \in 1..Len(f),
         Runs(p), Runs(f), Drawn(p, f, c), f[c + 1].kind = "calls",
         NEW r \in Message, r.kind = "calls", r.calls = f[c + 1].calls
  PROVE  Runs(Append(p, r)) /\ Drawn(Append(p, r), f, c + 1) /\ Linked(Append(p, r), f, c + 1)
<1> DEFINE g == Append(p, r)
<1>1. /\ Continues(g, p) /\ Len(g) = Len(p) + 1 /\ Len(p) \in Nat
      /\ \A i \in Later(g, p) : i = Len(p) + 1 /\ g[i] = r
  <2>1. Len(p) \in Nat
    OBVIOUS
  <2> QED BY <2>1, AppendContinues
<1>2. \A k, l \in 1..Len(r.calls) : r.calls[k].id = r.calls[l].id => k = l
  BY DEF Runs
<1>3. ASSUME NEW i \in 1..Len(p), NEW k \in 1..Len(p[i].calls), NEW l \in 1..Len(r.calls),
             p[i].calls[k].id = r.calls[l].id
      PROVE  FALSE
  <2>1. PICK j \in 1..c : \E x \in 1..Len(f[j].calls) : f[j].calls[x].id = p[i].calls[k].id
    BY DEF Drawn
  <2>2. PICK x \in 1..Len(f[j].calls) : f[j].calls[x].id = p[i].calls[k].id
    BY <2>1
  <2>3. j \in 1..Len(f) /\ j # c + 1
    OBVIOUS
  <2>4. l \in 1..Len(f[c + 1].calls) /\ f[j].calls[x].id = f[c + 1].calls[l].id
    BY <2>2, <1>3
  <2>5. j = c + 1
    BY <2>3, <2>4 DEF Runs
  <2> QED BY <2>3, <2>5
<1>4. Runs(g)
  BY <1>2, <1>3, RunsCalls
<1> HIDE DEF g
<1>5. \A i \in 1..Len(g) : i \in 1..Len(p) \/ i = Len(p) + 1
  BY <1>1
<1>6. \A i \in 1..Len(p) : g[i] = p[i]
  BY <1>1 DEF Continues
<1>7. Len(p) + 1 \in 1..Len(g) /\ g[Len(p) + 1] = r
  <2>1. Len(p) + 1 \in Later(g, p)
    BY <1>1 DEF Later
  <2> QED BY <1>1, <2>1
<1>8. \A j \in 1..c : j \in 1..(c + 1)
  OBVIOUS
<1>9. c + 1 \in 1..(c + 1)
  OBVIOUS
<1>10. ~IsTool(r) /\ ~IsTool(f[c + 1])
  BY DEF IsTool, ToolKinds
<1>11. Drawn(g, f, c + 1)
  <2>1. ASSUME NEW i \in 1..Len(g), NEW k \in 1..Len(g[i].calls)
        PROVE  \E j \in 1..(c + 1) : \E l \in 1..Len(f[j].calls) : f[j].calls[l].id = g[i].calls[k].id
    <3>1. CASE i \in 1..Len(p)
      <4>1. g[i] = p[i] /\ k \in 1..Len(p[i].calls)
        BY <1>6, <3>1
      <4>2. \E j \in 1..c : \E l \in 1..Len(f[j].calls) : f[j].calls[l].id = p[i].calls[k].id
        BY <3>1, <4>1 DEF Drawn
      <4> QED BY <1>8, <4>1, <4>2
    <3>2. CASE i = Len(p) + 1
      <4>1. g[i] = r /\ k \in 1..Len(f[c + 1].calls)
        BY <1>7, <3>2
      <4>2. f[c + 1].calls[k].id = g[i].calls[k].id
        BY <4>1
      <4> QED BY <1>9, <4>1, <4>2
    <3> QED BY <1>5, <3>1, <3>2
  <2>2. ASSUME NEW i \in 1..Len(g), IsTool(g[i])
        PROVE  \E j \in 1..(c + 1) : IsTool(f[j]) /\ f[j].id = g[i].id
    <3>1. i \in 1..Len(p) /\ g[i] = p[i]
      BY <1>5, <1>6, <1>7, <1>10, <2>2
    <3>2. \E j \in 1..c : IsTool(f[j]) /\ f[j].id = p[i].id
      BY <2>2, <3>1 DEF Drawn
    <3> QED BY <1>8, <3>1, <3>2
  <2> QED BY <2>1, <2>2 DEF Drawn
<1>12. Linked(g, f, c + 1)
  <2> SUFFICES ASSUME NEW j \in 1..(c + 1), f[j].kind = "calls",
                      \A l \in (j + 1)..(c + 1) : IsTool(f[l])
               PROVE  \E q \in 1..Len(g) : g[q].calls = f[j].calls
                                           /\ \A l \in (q + 1)..Len(g) : IsTool(g[l])
    BY DEF Linked
  <2>1. j = c + 1
    <3>1. c + 1 \notin (j + 1)..(c + 1)
      BY <1>10
    <3> QED BY <3>1
  <2>2. g[Len(p) + 1].calls = f[j].calls
    BY <1>7, <2>1
  <2>3. \A l \in ((Len(p) + 1) + 1)..Len(g) : IsTool(g[l])
    BY <1>1
  <2> QED BY <1>7, <2>2, <2>3
<1> QED BY <1>4, <1>11, <1>12 DEF g

\* and so does mirroring a result.
LEMMA MirrorResult ==
  ASSUME NEW p \in Seq(Message), NEW f \in Seq(Message), NEW c \in Nat, c + 1 \in 1..Len(f),
         Runs(p), Runs(f), Drawn(p, f, c), Linked(p, f, c), IsTool(f[c + 1]),
         NEW r \in Message, IsTool(r), r.calls = f[c + 1].calls, r.id = f[c + 1].id
  PROVE  Runs(Append(p, r)) /\ Drawn(Append(p, r), f, c + 1) /\ Linked(Append(p, r), f, c + 1)
<1> DEFINE g == Append(p, r)
<1>1. /\ Continues(g, p) /\ Len(g) = Len(p) + 1 /\ Len(p) \in Nat
      /\ \A i \in Later(g, p) : i = Len(p) + 1 /\ g[i] = r
  <2>1. Len(p) \in Nat
    OBVIOUS
  <2> QED BY <2>1, AppendContinues
<1> HIDE DEF g
<1>2. Len(r.calls) = 0
  <2>1. ~(Len(f[c + 1].calls) > 0)
    BY DEF Runs, IsTool, ToolKinds
  <2>2. Len(r.calls) \in Nat
    <3>1. r.calls \in Seq(CallOf)
      BY DEF Message
    <3> QED BY <3>1
  <2> QED BY <2>1, <2>2
<1>3. PICK j \in 1..c : /\ \E k \in 1..Len(f[j].calls) : r.id = f[j].calls[k].id
                        /\ \A l \in (j + 1)..(c + 1) : IsTool(f[l])
  <2>1. \E j \in 1..((c + 1) - 1) : /\ \E k \in 1..Len(f[j].calls) : f[c + 1].id = f[j].calls[k].id
                                    /\ \A l \in (j + 1)..(c + 1) : IsTool(f[l])
    BY DEF Runs
  <2>2. (c + 1) - 1 = c
    OBVIOUS
  <2> QED BY <2>1, <2>2
<1>4. j \in 1..Len(f) /\ j \in Nat
  OBVIOUS
<1>5. f[j].kind = "calls"
  <2>1. Len(f[j].calls) \in Nat /\ Len(f[j].calls) > 0
    <3>1. f[j] \in Message
      BY <1>4
    <3>2. f[j].calls \in Seq(CallOf)
      BY <3>1 DEF Message
    <3>3. Len(f[j].calls) \in Nat
      BY <3>2
    <3> QED BY <1>3, <3>3
  <2> QED BY <1>4, <2>1 DEF Runs
<1>6. \A l \in (j + 1)..c : IsTool(f[l])
  BY <1>3
<1>7. PICK q \in 1..Len(p) : p[q].calls = f[j].calls /\ \A l \in (q + 1)..Len(p) : IsTool(p[l])
  BY <1>5, <1>6 DEF Linked
<1>8. \A i \in Later(g, p) : IsTool(g[i]) /\ Len(g[i].calls) = 0
  BY <1>1, <1>2
<1>9. \A i \in Later(g, p) : \E k \in 1..Len(p[q].calls) : g[i].id = p[q].calls[k].id
  BY <1>1, <1>3, <1>7
<1>10. \A i, l \in Later(g, p) : g[i].id = g[l].id => i = l
  BY <1>1
<1>11. ASSUME NEW l \in 1..Len(p), IsTool(p[l]), r.id = p[l].id PROVE FALSE
  <2>1. PICK x \in 1..c : IsTool(f[x]) /\ f[x].id = p[l].id
    BY <1>11 DEF Drawn
  <2>2. x \in 1..Len(f) /\ x # c + 1
    OBVIOUS
  <2>3. \A i, k \in 1..Len(f) : IsTool(f[i]) /\ IsTool(f[k]) /\ f[i].id = f[k].id => i = k
    BY DEF Runs
  <2>4. f[x].id = f[c + 1].id
    BY <1>11, <2>1
  <2>5. x = c + 1
    BY <2>1, <2>2, <2>3, <2>4
  <2> QED BY <2>2, <2>5
<1>12. \A i \in Later(g, p), l \in 1..Len(p) : IsTool(p[l]) => g[i].id # p[l].id
  BY <1>1, <1>11
<1>13. Runs(g)
  BY <1>1, <1>7, <1>8, <1>9, <1>10, <1>12, RunsResults
<1>14. \A i \in 1..Len(g) : i \in 1..Len(p) \/ i = Len(p) + 1
  BY <1>1
<1>15. \A i \in 1..Len(p) : g[i] = p[i]
  BY <1>1 DEF Continues
<1>16. Len(p) + 1 \in 1..Len(g) /\ g[Len(p) + 1] = r
  <2>1. Len(p) + 1 \in Later(g, p)
    BY <1>1 DEF Later
  <2> QED BY <1>1, <2>1
<1>17. \A x \in 1..c : x \in 1..(c + 1)
  OBVIOUS
<1>18. Drawn(g, f, c + 1)
  <2>1. ASSUME NEW i \in 1..Len(g), NEW k \in 1..Len(g[i].calls)
        PROVE  \E x \in 1..(c + 1) : \E l \in 1..Len(f[x].calls) : f[x].calls[l].id = g[i].calls[k].id
    <3>1. CASE i \in 1..Len(p)
      <4>1. g[i] = p[i] /\ k \in 1..Len(p[i].calls)
        BY <1>15, <3>1
      <4>2. \E x \in 1..c : \E l \in 1..Len(f[x].calls) : f[x].calls[l].id = p[i].calls[k].id
        BY <3>1, <4>1 DEF Drawn
      <4> QED BY <1>17, <4>1, <4>2
    <3>2. CASE i = Len(p) + 1
      <4>1. k \in 1..0
        BY <1>2, <1>16, <3>2
      <4> QED BY <4>1
    <3> QED BY <1>14, <3>1, <3>2
  <2>2. ASSUME NEW i \in 1..Len(g), IsTool(g[i])
        PROVE  \E x \in 1..(c + 1) : IsTool(f[x]) /\ f[x].id = g[i].id
    <3>1. CASE i \in 1..Len(p)
      <4>1. g[i] = p[i]
        BY <1>15, <3>1
      <4>2. \E x \in 1..c : IsTool(f[x]) /\ f[x].id = p[i].id
        BY <2>2, <3>1, <4>1 DEF Drawn
      <4> QED BY <1>17, <4>1, <4>2
    <3>2. CASE i = Len(p) + 1
      <4>1. g[i].id = f[c + 1].id /\ c + 1 \in 1..(c + 1)
        BY <1>16, <3>2
      <4> QED BY <4>1
    <3> QED BY <1>14, <3>1, <3>2
  <2> QED BY <2>1, <2>2 DEF Drawn
<1>19. Linked(g, f, c + 1)
  <2> SUFFICES ASSUME NEW x \in 1..(c + 1), f[x].kind = "calls",
                      \A l \in (x + 1)..(c + 1) : IsTool(f[l])
               PROVE  \E y \in 1..Len(g) : g[y].calls = f[x].calls
                                           /\ \A l \in (y + 1)..Len(g) : IsTool(g[l])
    BY DEF Linked
  <2>1. x # c + 1
    BY DEF IsTool, ToolKinds
  <2>2. x \in 1..c /\ \A l \in (x + 1)..c : l \in (x + 1)..(c + 1)
    BY <2>1
  <2>3. \A l \in (x + 1)..c : IsTool(f[l])
    BY <2>2
  <2>4. PICK y \in 1..Len(p) : p[y].calls = f[x].calls /\ \A l \in (y + 1)..Len(p) : IsTool(p[l])
    BY <2>2, <2>3 DEF Linked
  <2>5. y \in 1..Len(g) /\ g[y].calls = f[x].calls
    BY <1>1, <1>15, <2>4
  <2>6. ASSUME NEW l \in (y + 1)..Len(g) PROVE IsTool(g[l])
    <3>0. Len(p) \in Nat /\ Len(g) = Len(p) + 1 /\ y \in Nat /\ y >= 1
      BY <1>1
    <3>1. (l \in (y + 1)..Len(p) /\ l \in 1..Len(p)) \/ l = Len(p) + 1
      <4>1. l \in Nat /\ l >= y + 1 /\ l <= Len(p) + 1
        BY <3>0
      <4> DEFINE n == Len(p)
      <4>2. l \in Nat /\ l >= y + 1 /\ l <= n + 1 /\ n \in Nat /\ y \in Nat
        BY <3>0, <4>1
      <4> HIDE DEF n
      <4>3. (l \in (y + 1)..n /\ l \in 1..n) \/ l = n + 1
        BY <4>2
      <4> QED BY <4>3 DEF n
    <3> QED BY <3>1, <2>4, <1>15, <1>16
  <2> QED BY <2>5, <2>6
<1> QED BY <1>13, <1>18, <1>19 DEF g

\* One message with ids given so far.
LEMMA NumberedAppend ==
  ASSUME NEW n \in Nat, NEW p \in Seq(Message), Numbered(p, n), NEW r \in Message,
         \A k \in 1..Len(r.calls) : r.calls[k].id[1] \in 0..n
  PROVE  Numbered(Append(p, r), n)
<1> DEFINE g == Append(p, r)
<1>1. /\ Len(g) = Len(p) + 1 /\ Len(p) \in Nat
      /\ \A i \in 1..Len(p) : g[i] = p[i]
      /\ g[Len(p) + 1] = r
  BY Appended
<1> HIDE DEF g
<1>2. Numbered(g, n)
  <2> SUFFICES ASSUME NEW i \in 1..Len(g), NEW k \in 1..Len(g[i].calls)
               PROVE  g[i].calls[k].id[1] \in 0..n
    BY DEF Numbered
  <2>1. CASE i \in 1..Len(p)
    BY <1>1, <2>1 DEF Numbered
  <2>2. CASE i = Len(p) + 1
    BY <1>1, <2>2
  <2> QED BY <1>1, <2>1, <2>2
<1> QED BY <1>2 DEF g

\* Calls that come as such are numbered by their answer.
LEMMA IdsApart ==
  ASSUME ~Embedded, serial \in Nat, NEW sigs \in Batches
  PROVE  LET b == CallsIn(sigs) IN
         /\ \A k \in 1..Len(b) : b[k].id[1] = serial + 2
         /\ \A k, l \in 1..Len(b) : b[k].id = b[l].id => k = l
<1> DEFINE b == CallsIn(sigs)
<1>1. \A k \in 1..Len(b) : b[k].id = <<serial + 2, k>>
  <2>1. \A k \in 1..Len(b) : b[k].id = <<IF Embedded THEN 0 ELSE serial + 2, k>>
    BY CallsInIs
  <2> QED BY <2>1
<1> HIDE DEF b
<1>2. \A k \in 1..Len(b) : b[k].id[1] = serial + 2 /\ b[k].id[2] = k
  <2> SUFFICES ASSUME NEW k \in 1..Len(b) PROVE b[k].id[1] = serial + 2 /\ b[k].id[2] = k
    OBVIOUS
  <2>1. b[k].id = <<serial + 2, k>>
    BY <1>1
  <2> QED BY <2>1
<1>3. \A k, l \in 1..Len(b) : b[k].id = b[l].id => k = l
  <2> SUFFICES ASSUME NEW k \in 1..Len(b), NEW l \in 1..Len(b), b[k].id = b[l].id PROVE k = l
    OBVIOUS
  <2>1. b[k].id[2] = k /\ b[l].id[2] = l
    BY <1>2
  <2> QED BY <2>1
<1>4. \A k \in 1..Len(b) : b[k].id[1] = serial + 2
  BY <1>2
<1> QED BY <1>3, <1>4 DEF b

\* The calls of an answer have new ids, and those that shall run await their results.
LEMMA AskedRuns ==
  ASSUME ~Embedded, Typed, Histories, NEW sigs \in Batches, AnswerCalls(sigs),
         Runs(inner), Numbered(inner, serial)
  PROVE  /\ Runs(inner') /\ Numbered(inner', serial')
         /\ Awaits(inner', Awaited(<<>>, Unique(CallsIn(sigs))))
<1>1. History(inner) /\ inner \in Seq(Message) /\ serial \in Nat /\ serial' = serial + 10
  <2>1. PICK added : Answer(sigs, added)
    BY DEF AnswerCalls
  <2>2. serial' = serial + 10
    BY <2>1, AnswerKeeps
  <2>3. History(inner)
    BY AskedHistory
  <2> QED BY <2>2, <2>3 DEF History, Typed
<1>2. PICK g : Follows(g, inner) /\ inner' = Append(g, Asked(sigs)) \o Notes(sigs)
  BY <1>1, AnswerCallsIs
<1>3. Runs(g) /\ Numbered(g, serial) /\ g \in Seq(Message) /\ Len(g) \in Nat
  <2>1. Runs(g) /\ g \in Seq(Message)
    BY <1>2 DEF Follows, History
  <2>2. Numbered(g, serial)
    BY <1>1, <1>2, NumberedFollows
  <2> QED BY <2>1, <2>2
<1> DEFINE m == Asked(sigs)
           z == Notes(sigs)
           b == CallsIn(sigs)
           u == Unique(b)
           v == Ordered(Firsts(b))
           w == Ordered(Repeats(b))
           f == Append(g, m)
           h == f \o z
<1>4. m \in Message /\ m.kind = "calls" /\ m.calls = b
  BY <1>1, AskedIs
<1>5. /\ z \in Seq(Message) /\ Len(z) = Len(w) /\ Lists(w, Repeats(b))
      /\ \A k \in 1..Len(z) : /\ w[k] \in Repeats(b) /\ w[k] \in 1..Len(b)
                              /\ z[k].kind = "result" /\ Len(z[k].calls) = 0
                              /\ z[k].id = b[w[k]].id
  BY <1>1, NotesAre
<1>6. b \in Seq(CallOf)
  BY <1>1, CallsInIs
<1>7. /\ \A k \in 1..Len(b) : b[k].id[1] = serial + 2
      /\ \A k, l \in 1..Len(b) : b[k].id = b[l].id => k = l
  BY <1>1, IdsApart
<1>8. \A i \in Repeats(b) : b[i] \notin Range(u)
  BY DEF Repeats
<1> HIDE DEF m, z, b
<1>9. /\ u \in Seq(CallOf) /\ Len(u) \in Nat
      /\ \A k \in 1..Len(u) : v[k] \in 1..Len(b) /\ u[k] = b[v[k]]
      /\ \A j, k \in 1..Len(u) : u[j].sig = u[k].sig => j = k
  <2>1. /\ u \in Seq(CallOf)
        /\ \A k \in 1..Len(u) : v[k] \in 1..Len(b) /\ u[k] = b[v[k]]
        /\ \A j, k \in 1..Len(u) : u[j].sig = u[k].sig => j = k
    BY <1>6, UniqueIs
  <2> QED BY <2>1
<1>10. \A k, l \in 1..Len(z) : w[k] = w[l] => k = l
  <2>0. Lists(w, Repeats(b))
    BY <1>5
  <2> HIDE DEF w
  <2>1. \A i, j \in 1..Len(w) : i < j => w[i] < w[j]
    BY <2>0 DEF Lists
  <2>2. Len(w) \in Nat /\ \A k \in 1..Len(z) : w[k] \in Nat
    BY <1>5
  <2> SUFFICES ASSUME NEW k \in 1..Len(z), NEW l \in 1..Len(z), w[k] = w[l] PROVE k = l
    OBVIOUS
  <2>3. ~(k < l) /\ ~(l < k)
    BY <1>5, <2>1, <2>2
  <2> QED BY <2>3
<1> HIDE DEF u, v, w
\* A call of this answer is none that came before it.
<1>11. ASSUME NEW i \in 1..Len(g), NEW k \in 1..Len(g[i].calls), NEW l \in 1..Len(b)
       PROVE  g[i].calls[k].id # b[l].id
  <2>1. g[i].calls[k].id[1] \in 0..serial
    BY <1>3 DEF Numbered
  <2>2. b[l].id[1] = serial + 2
    BY <1>7
  <2> QED BY <2>1, <2>2, <1>1
<1>12. Runs(f)
  <2>1. \A k, l \in 1..Len(m.calls) : m.calls[k].id = m.calls[l].id => k = l
    BY <1>4, <1>7
  <2>2. \A i \in 1..Len(g) : \A k \in 1..Len(g[i].calls), l \in 1..Len(m.calls) :
          g[i].calls[k].id # m.calls[l].id
    BY <1>4, <1>11
  <2> QED BY <1>3, <1>4, <2>1, <2>2, RunsCalls
<1>13. /\ f \in Seq(Message) /\ Len(f) = Len(g) + 1
       /\ \A i \in 1..Len(g) : f[i] = g[i]
       /\ f[Len(g) + 1] = m
  BY <1>3, <1>4, Appended
<1> HIDE DEF f
<1>14. ~IsTool(m)
  BY <1>4 DEF IsTool, ToolKinds
<1>15. ASSUME NEW i \in 1..Len(f), IsTool(f[i]), NEW l \in 1..Len(b) PROVE f[i].id # b[l].id
  <2>1. i \in 1..Len(g) /\ IsTool(g[i]) /\ f[i] = g[i]
    <3>1. i # Len(g) + 1
      BY <1>13, <1>14, <1>15
    <3> QED BY <1>3, <1>13, <1>15, <3>1
  <2>2. PICK j \in 1..(i - 1) : \E k \in 1..Len(g[j].calls) : g[i].id = g[j].calls[k].id
    BY <2>1, <1>3 DEF Runs
  <2>3. j \in 1..Len(g)
    BY <2>1, <2>2, <1>3
  <2> QED BY <2>1, <2>2, <2>3, <1>11
<1>16. /\ Continues(h, f)
       /\ \A i \in Later(h, f) : i - Len(f) \in 1..Len(z) /\ h[i] = z[i - Len(f)]
  BY <1>5, <1>13, JoinContinues
<1> DEFINE j == Len(f)
<1>17. j \in 1..Len(f) /\ j \in Nat /\ f[j].calls = b
  BY <1>3, <1>4, <1>13
<1> HIDE DEF h
<1>18. \A i \in Later(h, f) : IsTool(h[i]) /\ Len(h[i].calls) = 0
  BY <1>5, <1>16 DEF IsTool, ToolKinds
<1>19. \A i \in Later(h, f) : w[i - Len(f)] \in 1..Len(b) /\ h[i].id = b[w[i - Len(f)]].id
  BY <1>5, <1>16
<1>20. \A i, l \in Later(h, f) : h[i].id = h[l].id => i = l
  <2> SUFFICES ASSUME NEW i \in Later(h, f), NEW l \in Later(h, f), h[i].id = h[l].id PROVE i = l
    OBVIOUS
  <2>1. w[i - Len(f)] = w[l - Len(f)]
    BY <1>7, <1>19
  <2>2. i - Len(f) = l - Len(f)
    BY <2>1, <1>10, <1>16
  <2>3. i \in Int /\ l \in Int
    BY DEF Later
  <2> QED BY <2>2, <2>3, <1>17
<1>21. Runs(h)
  <2>1. \A i \in Later(h, f) : \E k \in 1..Len(f[j].calls) : h[i].id = f[j].calls[k].id
    BY <1>17, <1>19
  <2>2. \A l \in (j + 1)..Len(f) : IsTool(f[l])
    BY <1>17
  <2>3. \A i \in Later(h, f), l \in 1..Len(f) : IsTool(f[l]) => h[i].id # f[l].id
    BY <1>15, <1>19
  <2> HIDE DEF j
  <2> QED BY <1>12, <1>13, <1>16, <1>17, <1>18, <1>20, <2>1, <2>2, <2>3, RunsResults
<1>22. /\ Len(h) \in Nat /\ Len(f) <= Len(h) /\ h \in Seq(Message)
       /\ \A i \in 1..Len(f) : h[i] = f[i]
  BY <1>16 DEF Continues
<1>23. \A i \in 1..Len(h) : i \in 1..Len(f) \/ i \in Later(h, f)
  BY <1>17, <1>22 DEF Later
<1>24. Numbered(h, serial + 10)
  <2> SUFFICES ASSUME NEW i \in 1..Len(h), NEW k \in 1..Len(h[i].calls)
               PROVE  h[i].calls[k].id[1] \in 0..(serial + 10)
    BY DEF Numbered
  <2>1. CASE i \in 1..Len(g)
    <3>1. h[i] = g[i]
      BY <2>1, <1>3, <1>13, <1>22
    <3>2. h[i].calls[k].id[1] \in 0..serial
      BY <2>1, <3>1, <1>3 DEF Numbered
    <3> QED BY <3>2, <1>1
  <2>2. CASE i = Len(g) + 1
    <3>1. h[i] = m
      BY <2>2, <1>3, <1>13, <1>22
    <3>2. h[i].calls[k].id[1] = serial + 2
      BY <3>1, <1>4, <1>7
    <3> QED BY <3>2, <1>1
  <2>3. CASE i \in Later(h, f)
    <3>1. k \in 1..0
      BY <2>3, <1>18
    <3> QED BY <3>1
  <2> QED BY <2>1, <2>2, <2>3, <1>3, <1>13, <1>23
<1> DEFINE W == Awaited(<<>>, u)
<1>25. DOMAIN W = 1..Len(u) /\ \A k \in 1..Len(u) : W[k] = u[k].id
  <2>1. W = [k \in 1..Len(u) |-> u[k].id]
    <3>1. Len(<<>>) = 0 /\ 0 + Len(u) = Len(u)
      BY <1>9
    <3>2. \A k \in 1..Len(u) : ~(k <= 0) /\ k - 0 = k
      OBVIOUS
    <3> QED BY <3>1, <3>2 DEF Awaited
  <2> QED BY <2>1
<1> HIDE DEF W
<1>26. \A k \in DOMAIN W : v[k] \in 1..Len(b) /\ W[k] = b[v[k]].id
  BY <1>9, <1>25
<1>27. ASSUME NEW k \in DOMAIN W, NEW l \in DOMAIN W, W[k] = W[l] PROVE k = l
  <2>1. v[k] = v[l]
    BY <1>7, <1>26, <1>27
  <2>2. u[k] = u[l]
    BY <2>1, <1>9, <1>25
  <2> QED BY <2>2, <1>9, <1>25
<1>28. ASSUME NEW k \in DOMAIN W, NEW l \in 1..Len(h), IsTool(h[l]), h[l].id = W[k] PROVE FALSE
  <2>1. CASE l \in 1..Len(f)
    BY <2>1, <1>15, <1>22, <1>26, <1>28
  <2>2. CASE l \in Later(h, f)
    <3>1. w[l - Len(f)] = v[k]
      BY <2>2, <1>7, <1>19, <1>26, <1>28
    <3>2. w[l - Len(f)] \in Repeats(b)
      BY <2>2, <1>5, <1>16
    <3>3. b[v[k]] \notin Range(u)
      BY <3>1, <3>2, <1>8
    <3>4. b[v[k]] = u[k] /\ k \in DOMAIN u
      BY <1>9, <1>25
    <3> QED BY <3>3, <3>4 DEF Range
  <2> QED BY <2>1, <2>2, <1>23
<1>29. Awaits(h, W)
  <2>1. j \in 1..Len(h) /\ h[j].calls = b
    BY <1>17, <1>22
  <2>2. \A l \in (j + 1)..Len(h) : IsTool(h[l])
    BY <1>18 DEF Later
  <2>3. \A k \in DOMAIN W : \E c \in 1..Len(h[j].calls) : h[j].calls[c].id = W[k]
    BY <1>26, <2>1
  <2> HIDE DEF j
  <2> QED BY <2>1, <2>2, <2>3, <1>27, <1>28 DEF Awaits
<1>30. inner' = h
  BY <1>2 DEF h, f, m, z
<1> QED BY <1>1, <1>21, <1>24, <1>29, <1>30 DEF W, u, b

\* The results of the batch stand behind their calls once they are appended.
LEMMA AppendRuns ==
  ASSUME Typed, Histories, Batched, AppendResults, Runs(inner), Numbered(inner, serial),
         Awaits(inner, Awaited(results, batch))
  PROVE  Runs(inner') /\ Numbered(inner', serial)
<1> DEFINE W == Awaited(results, batch)
           n == Len(results)
<1>1. /\ inner \in Seq(Message) /\ Continues(inner', inner)
      /\ \A i \in Later(inner', inner) : i - Len(inner) \in 1..n /\ inner'[i] = results[i - Len(inner)]
      /\ Len(batch) = 0
  BY AppendResultsIs DEF History
<1>2. /\ Len(inner) \in Nat /\ Len(inner') \in Nat /\ Len(inner) <= Len(inner')
      /\ \A i \in 1..Len(inner) : inner'[i] = inner[i]
  BY <1>1 DEF Continues
<1>3. n \in Nat /\ \A k \in 1..n : results[k].kind = "result" /\ Len(results[k].calls) = 0
  BY DEF Batched, Plainly
<1>4. DOMAIN W = 1..n /\ \A k \in 1..n : W[k] = results[k].id
  <2>1. W = [k \in 1..n |-> results[k].id]
    <3>1. n + Len(batch) = n /\ \A k \in 1..n : k <= n
      BY <1>1, <1>3
    <3> QED BY <3>1 DEF Awaited
  <2> QED BY <2>1
<1> HIDE DEF W, n
<1>5. PICK j \in 1..Len(inner) :
        /\ \A l \in (j + 1)..Len(inner) : IsTool(inner[l])
        /\ \A k \in DOMAIN W : \E c \in 1..Len(inner[j].calls) : inner[j].calls[c].id = W[k]
  BY DEF Awaits, W
<1>6. /\ \A k, l \in DOMAIN W : W[k] = W[l] => k = l
      /\ \A k \in DOMAIN W, l \in 1..Len(inner) : IsTool(inner[l]) => inner[l].id # W[k]
  BY DEF Awaits, W
<1>7. \A i \in Later(inner', inner) :
        /\ IsTool(inner'[i]) /\ Len(inner'[i].calls) = 0
        /\ i - Len(inner) \in DOMAIN W /\ inner'[i].id = W[i - Len(inner)]
  BY <1>1, <1>3, <1>4 DEF IsTool, ToolKinds
<1>8. \A i \in Later(inner', inner) : \E k \in 1..Len(inner[j].calls) : inner'[i].id = inner[j].calls[k].id
  BY <1>5, <1>7
<1>9. \A i, l \in Later(inner', inner) : inner'[i].id = inner'[l].id => i = l
  <2> SUFFICES ASSUME NEW i \in Later(inner', inner), NEW l \in Later(inner', inner),
                      inner'[i].id = inner'[l].id
               PROVE  i = l
    OBVIOUS
  <2>1. i - Len(inner) = l - Len(inner)
    BY <1>6, <1>7
  <2>2. i \in Int /\ l \in Int
    BY DEF Later
  <2> QED BY <2>1, <2>2, <1>2
<1>10. \A i \in Later(inner', inner), l \in 1..Len(inner) : IsTool(inner[l]) => inner'[i].id # inner[l].id
  BY <1>6, <1>7
<1>11. \A i \in Later(inner', inner) : IsTool(inner'[i]) /\ Len(inner'[i].calls) = 0
  BY <1>7
<1>12. Runs(inner')
  BY <1>1, <1>5, <1>8, <1>9, <1>10, <1>11, RunsResults
<1>13. Numbered(inner', serial)
  <2> SUFFICES ASSUME NEW i \in 1..Len(inner'), NEW k \in 1..Len(inner'[i].calls)
               PROVE  inner'[i].calls[k].id[1] \in 0..serial
    BY DEF Numbered
  <2>1. CASE i \in 1..Len(inner)
    <3>1. inner'[i] = inner[i]
      BY <2>1, <1>2
    <3> QED BY <2>1, <3>1 DEF Numbered
  <2>2. CASE i \in Later(inner', inner)
    <3>1. k \in 1..0
      BY <2>2, <1>7
    <3> QED BY <3>1
  <2> QED BY <2>1, <2>2, <1>2 DEF Later
<1> QED BY <1>12, <1>13

\* The peer's history stays settled while the turn's is copied, in whatever moment of it.
LEMMA MirrorRuns ==
  ASSUME Typed, Histories, MirrorMessage, Runs(peer), Numbered(peer, serial),
         Runs(inner), Numbered(inner, serial),
         Drawn(peer, inner, cursor), Linked(peer, inner, cursor)
  PROVE  /\ Runs(peer') /\ Numbered(peer', serial)
         /\ Drawn(peer', inner, cursor + 1) /\ Linked(peer', inner, cursor + 1)
<1> DEFINE m == inner[cursor + 1]
           r == Mirror(m)
<1>1. /\ m \in Message /\ cursor + 1 \in 2..Len(inner)
      /\ History(peer') /\ Continues(peer', peer)
      /\ Mirrored(m) => peer' = Append(peer, r)
      /\ ~Mirrored(m) => peer' = peer
      /\ m.kind \notin {"recovered", "system"}
      /\ pc \in InTurn
  BY MirrorHistory
<1>2. /\ inner \in Seq(Message) /\ peer \in Seq(Message) /\ cursor \in Nat
      /\ cursor + 1 \in 1..Len(inner) /\ serial \in Nat /\ Len(inner) \in Nat
  <2>1. inner \in Seq(Message) /\ peer \in Seq(Message) /\ cursor \in 1..Len(inner)
    BY <1>1 DEF Histories, History
  <2> QED BY <1>1, <2>1 DEF Typed
<1>3. r \in Message /\ r.kind = m.kind /\ r.calls = m.calls /\ r.id = m.id
  BY <1>1, MirrorIs DEF Alike
<1>4. m.kind # "calls" => Len(m.calls) = 0
  <2>1. ~(Len(m.calls) > 0) \/ m.kind = "calls"
    BY <1>2 DEF Runs
  <2>2. m.calls \in Seq(CallOf)
    BY <1>1 DEF Message
  <2>3. Len(m.calls) \in Nat
    BY <2>2
  <2> QED BY <2>1, <2>3
<1>5. \A k \in 1..Len(m.calls) : m.calls[k].id[1] \in 0..serial
  BY <1>2 DEF Numbered
<1> HIDE DEF m, r
<1>6. Numbered(peer', serial)
  <2>1. \A k \in 1..Len(r.calls) : r.calls[k].id[1] \in 0..serial
    BY <1>3, <1>5
  <2>2. Numbered(Append(peer, r), serial)
    BY <1>2, <1>3, <2>1, NumberedAppend
  <2> QED BY <1>1, <2>2
<1>7. CASE Mirrored(m) /\ m.kind = "calls"
  <2>1. inner[cursor + 1].kind = "calls" /\ r.calls = inner[cursor + 1].calls /\ r.kind = "calls"
    BY <1>3, <1>7 DEF m
  <2>2. /\ Runs(Append(peer, r)) /\ Drawn(Append(peer, r), inner, cursor + 1)
        /\ Linked(Append(peer, r), inner, cursor + 1)
    BY <1>2, <1>3, <2>1, MirrorCalls
  <2> QED BY <1>1, <1>6, <1>7, <2>2
<1>8. CASE Mirrored(m) /\ IsTool(m)
  <2>1. /\ IsTool(inner[cursor + 1]) /\ r.calls = inner[cursor + 1].calls
        /\ IsTool(r) /\ r.id = inner[cursor + 1].id
    BY <1>3, <1>8 DEF m, IsTool
  <2>2. /\ Runs(Append(peer, r)) /\ Drawn(Append(peer, r), inner, cursor + 1)
        /\ Linked(Append(peer, r), inner, cursor + 1)
    BY <1>2, <1>3, <2>1, MirrorResult
  <2> QED BY <1>1, <1>6, <1>8, <2>2
<1>9. CASE ~IsTool(m) /\ m.kind # "calls"
  <2>1. \A i \in Later(peer', peer) : peer'[i] = r /\ Mirrored(m)
    <3>1. CASE Mirrored(m)
      BY <1>1, <1>2, <1>3, <3>1, AppendContinues
    <3>2. CASE ~Mirrored(m)
      <4>1. peer' = peer
        BY <1>1, <3>2
      <4>2. Later(peer', peer) = {}
        BY <4>1, <1>2 DEF Later
      <4> QED BY <4>2
    <3> QED BY <3>1, <3>2
  <2>2. Len(r.calls) = 0 /\ ~IsTool(r)
    BY <1>3, <1>4, <1>9 DEF IsTool
  <2>3. \A i \in Later(peer', peer) : Len(peer'[i].calls) = 0 /\ ~IsTool(peer'[i])
    BY <2>1, <2>2
  <2>4. Mirrored(m) => Plain(r)
    <3>1. m.kind \in Kinds
      BY <1>1 DEF Message
    <3>2. m.kind \notin {"calls", "result", "cleared", "recovered", "system"}
      BY <1>1, <1>9 DEF IsTool, ToolKinds
    <3> QED BY <1>3, <2>2, <3>1, <3>2 DEF Plain, Kinds
  <2>5. Runs(peer')
    <3>1. \A i \in Later(peer', peer) : Plain(peer'[i])
      BY <2>1, <2>4
    <3> QED BY <1>1, <1>2, <3>1, RunsPlain
  <2>6. ~IsTool(inner[cursor + 1]) /\ inner[cursor + 1].kind # "calls"
    BY <1>9 DEF m
  <2>7. Drawn(peer', inner, cursor + 1) /\ Linked(peer', inner, cursor + 1)
    BY <1>1, <1>2, <2>3, <2>6, MirrorPlain
  <2> QED BY <1>6, <2>5, <2>7
<1>10. IsTool(m) \/ m.kind = "calls" => Mirrored(m)
  BY DEF IsTool, ToolKinds, Mirrored
<1> QED BY <1>7, <1>8, <1>9, <1>10

\* Numbers are given upwards.
LEMMA SerialGrows ==
  ASSUME Typed, [Next]_vars
  PROVE  serial' \in Nat /\ serial <= serial'
<1>1. StepOf /\ serial \in Nat
  BY Steps DEF Typed
<1>2. CASE AddPrompt \/ EndTurn \/ Crash \/ Steer \/ Cancel \/ ResetSession
  BY <1>1, <1>2 DEF AddPrompt, EndTurn, Crash, Steer, Cancel, ResetSession, pastVars
<1>3. CASE CheckAndCompress \/ MaybeStartSpeculative \/ StopCancelled \/ StreamFails
           \/ SpeculativeEnds \/ MirrorMessage \/ AppendResults
  <2>1. serial' = serial
    BY <1>3 DEF CheckAndCompress, MaybeStartSpeculative, StopCancelled, StreamFails,
         SpeculativeEnds, MirrorMessage, AppendResults, pastVars
  <2> QED BY <1>1, <2>1
<1>8. CASE SeedTurn \/ LeaveLoop \/ BeginRound \/ CompactIfNeeded \/ EnsureContextFits
           \/ RecoverFromOverflow \/ EndRound
  <2>1. serial' = serial
    BY <1>8 DEF SeedTurn, LeaveLoop, BeginRound, CompactIfNeeded, EnsureContextFits,
         RecoverFromOverflow, EndRound, pastVars
  <2> QED BY <1>1, <2>1
<1>4. CASE IterationLimit \/ RunCall
  BY <1>1, <1>4 DEF IterationLimit, RunCall
<1>5. CASE AnswerText \/ AnswerCutOff \/ AnswerBroken
  BY <1>1, <1>5, AnswerKeeps DEF AnswerText, AnswerCutOff, AnswerBroken
<1>6. CASE \E b \in Batches : AnswerCalls(b)
  BY <1>1, <1>6, AnswerKeeps DEF AnswerCalls
<1>7. CASE UNCHANGED vars
  BY <1>1, <1>7 DEF vars, pastVars
<1> QED BY <1>1, <1>2, <1>3, <1>4, <1>5, <1>6, <1>7, <1>8 DEF StepOf

-----------------------------------------------------------------------------
(* The invariant, and the calls of a request.                               *)

\* Calls and results stand together in both sessions, whatever moment the copy is at.
Settled ==
  /\ Runs(peer) /\ Numbered(peer, serial)
  /\ pc \in InTurn => /\ Runs(inner) /\ Numbered(inner, serial)
                      /\ Drawn(peer, inner, cursor) /\ Linked(peer, inner, cursor)
  /\ pc = "batch" => Awaits(inner, Awaited(results, batch))

Safe == Typed /\ Histories /\ Snapshot /\ Batched /\ Once

\* Safe holds at first
LEMMA InitSafe == ASSUME Init PROVE Safe
BY InitTyped, InitHistories, InitBatched DEF Safe

\* and every step keeps it.
LEMMA StepSafe == ASSUME Safe, [Next]_vars PROVE Safe'
BY StepTyped, StepHistories, StepSnapshot, StepBatched, StepOnce DEF Safe

\* A history of the system message alone.
LEMMA LoneRuns ==
  ASSUME NEW h, Len(h) = 1, ~IsTool(h[1]), h[1].calls = <<>>, NEW n
  PROVE  Runs(h) /\ Numbered(h, n)
<1>1. \A i \in 1..Len(h) : i = 1 /\ ~IsTool(h[i]) /\ Len(h[i].calls) = 0
  OBVIOUS
<1>2. \A i \in 1..Len(h) : ~(Len(h[i].calls) > 0) /\ \A k \in 1..Len(h[i].calls) : FALSE
  BY <1>1
<1> QED BY <1>1, <1>2 DEF Runs, Numbered

\* Settled holds at first.
LEMMA InitSettled == ASSUME Init PROVE Settled
<1> DEFINE m == Msg("system", 0)
<1>1. peer = <<m>> /\ pc = "idle"
  BY DEF Init
<1>2. m.kind = "system" /\ m.calls = <<>>
  BY MsgIs DEF Kinds
<1> HIDE DEF m
<1>3. Len(peer) = 1 /\ peer[1] = m
  BY <1>1
<1>4. ~IsTool(peer[1]) /\ peer[1].calls = <<>>
  BY <1>2, <1>3 DEF IsTool, ToolKinds
<1>5. Runs(peer) /\ Numbered(peer, serial)
  BY <1>3, <1>4, LoneRuns
<1> QED BY <1>1, <1>5 DEF Settled, InTurn

\* The results a batch will get, after a step, but for an answer with calls.
LEMMA StepAwaits ==
  ASSUME Safe, Settled, [Next]_vars, pc' = "batch"
  PROVE  \/ Awaits(inner', Awaited(results', batch'))
         \/ \E b \in Batches : AnswerCalls(b) /\ batch' = Unique(CallsIn(b)) /\ results' = <<>>
<1>1. CASE Aside
  BY <1>1 DEF Aside, Settled
<1>2. CASE Discard
  BY <1>2 DEF Discard
<1>3. CASE RunCall
  <2>1. Awaited(results', batch') = Awaited(results, batch)
    BY <1>3, RunCallIs DEF Safe, Batched, Typed
  <2>2. inner' = inner /\ pc = "batch"
    BY <1>3 DEF RunCall
  <2> QED BY <2>1, <2>2 DEF Settled
<1>4. CASE AppendResults
  BY <1>4 DEF AppendResults
<1>5. ASSUME NEW b \in Batches, AnswerCalls(b)
      PROVE  batch' = Unique(CallsIn(b)) /\ results' = <<>>
  BY <1>5, AnswerCallsBatch DEF Safe
<1> QED BY <1>1, <1>2, <1>3, <1>4, <1>5, StepAside DEF Safe

\* Every step keeps Settled.
LEMMA StepSettled ==
  ASSUME ~Embedded, Safe, Settled, [Next]_vars
  PROVE  Settled'
<1>0. /\ Typed /\ Histories /\ Snapshot /\ Batched
      /\ peer \in Seq(Message) /\ History(peer) /\ serial \in Nat /\ serial' \in Nat /\ serial <= serial'
  BY SerialGrows DEF Safe, Histories, History, Typed
<1>1. ASSUME Runs(peer'), Numbered(peer', serial'),
             pc' \in InTurn => /\ Runs(inner') /\ Numbered(inner', serial')
                               /\ Drawn(peer', inner', cursor') /\ Linked(peer', inner', cursor'),
             \/ ~(pc' = "batch") \/ ~(\E b \in Batches : AnswerCalls(b))
             \/ Awaits(inner', Awaited(results', batch'))
      PROVE  Settled'
  BY <1>1, StepAwaits DEF Settled
<1>2. Runs(peer) /\ Numbered(peer, serial) /\ Numbered(peer, serial')
  BY <1>0, NumberedOn DEF Settled
<1>3. pc \in InTurn =>
        /\ Runs(inner) /\ Numbered(inner, serial) /\ Numbered(inner, serial')
        /\ Drawn(peer, inner, cursor) /\ Linked(peer, inner, cursor)
        /\ History(inner) /\ inner \in Seq(Message) /\ cursor \in 1..Len(inner)
  BY <1>0, NumberedOn DEF Settled, Histories, History
<1>4. pc' = "batch" => pc' \in InTurn
  BY DEF InTurn
<1>5. ASSUME pc \in InTurn, pc' \in InTurn, UNCHANGED <<peer, cursor>>, Runs(inner'), Numbered(inner', serial'),
             Grown(inner', inner),
             \/ ~(pc' = "batch") \/ ~(\E b \in Batches : AnswerCalls(b))
             \/ Awaits(inner', Awaited(results', batch'))
      PROVE  Settled'
  <2>1. Drawn(peer, inner', cursor) /\ Linked(peer, inner', cursor)
    BY <1>3, <1>5, DrawnKept, LinkedKept
  <2> QED BY <1>1, <1>2, <1>5, <2>1
<1>6. (\E b \in Batches : AnswerCalls(b)) => UNCHANGED <<peer, cursor>> /\ pc \in InTurn /\ pc' \in InTurn
  BY <1>0, AskedHistory
<1>7. ASSUME NEW b \in Batches, AnswerCalls(b) PROVE Settled'
  <2>1. Runs(inner') /\ Numbered(inner', serial') /\ Grown(inner', inner)
    BY <1>0, <1>3, <1>6, <1>7, AskedRuns, AskedHistory
  <2>2. Awaits(inner', Awaited(<<>>, Unique(CallsIn(b))))
    BY <1>0, <1>3, <1>6, <1>7, AskedRuns
  <2>3. batch' = Unique(CallsIn(b)) /\ results' = <<>>
    BY <1>0, <1>7, AnswerCallsBatch
  <2>4. Awaits(inner', Awaited(results', batch'))
    BY <2>2, <2>3
  <2> QED BY <1>5, <1>6, <1>7, <2>1, <2>4
<1>8. CASE ~(\E b \in Batches : AnswerCalls(b))
  <2>1. CASE Still
    BY <1>1, <1>2, <1>3, <1>8, <2>1 DEF Still
  <2>2. CASE Opens
    <3>1. Runs(peer') /\ Numbered(peer', serial')
      BY <1>0, <1>2, <2>2, NumberedFollows DEF Opens, Follows
    <3> QED BY <1>1, <1>8, <2>2, <3>1 DEF Opens
  <2>3. CASE Ends
    <3>1. Runs(peer') /\ Numbered(peer', serial')
      BY <1>0, <1>2, <2>3, NumberedFollows DEF Ends, Follows
    <3>2. pc' \notin InTurn
      BY <2>3 DEF Ends, InTurn
    <3> QED BY <1>1, <1>8, <3>1, <3>2
  <2>4. CASE Seeds
    <3> DEFINE s == Seed(peer)
    <3>1. Same(s, peer) /\ peer' = peer /\ cursor' = Len(peer) /\ Follows(inner', s)
      BY <2>4 DEF Seeds
    <3> HIDE DEF s
    <3>2. Len(peer) >= 1 /\ Len(peer) \in Nat
      BY <1>0 DEF History, Formed
    <3>3. Drawn(peer, s, Len(peer)) /\ Linked(peer, s, Len(peer))
      BY <1>0, <3>1, <3>2, SeededDrawn
    <3>4. Follows(s, peer)
      BY <1>0, <3>1, FollowsSame
    <3>5. s \in Seq(Message) /\ Len(peer) \in 1..Len(s) /\ Grown(inner', s)
      BY <3>1, <3>2 DEF Same, Grown, Follows
    <3>6. Drawn(peer, inner', Len(peer)) /\ Linked(peer, inner', Len(peer))
      BY <3>3, <3>5, DrawnKept, LinkedKept
    <3>7. Runs(inner')
      BY <1>2, <3>1, <3>4 DEF Follows
    <3>8. Numbered(s, serial')
      BY <1>0, <1>2, <3>4, NumberedFollows
    <3>9. Numbered(inner', serial')
      BY <1>0, <3>1, <3>5, <3>8, NumberedFollows
    <3> QED BY <1>1, <1>2, <1>8, <3>1, <3>6, <3>7, <3>9
  <2>5. CASE Grows
    <3>1. Runs(inner') /\ Numbered(inner', serial')
      BY <1>0, <1>3, <2>5, NumberedFollows DEF Grows, Follows
    <3> QED BY <1>5, <1>8, <2>5, <3>1 DEF Grows, Follows
  <2>6. CASE AppendResults
    <3>1. pc = "batch" /\ pc \in InTurn /\ serial' = serial
      BY <2>6 DEF AppendResults, InTurn, pastVars
    <3>2. Runs(inner') /\ Numbered(inner', serial)
      BY <1>0, <1>3, <2>6, <3>1, AppendRuns DEF Settled
    <3> QED BY <1>0, <1>5, <1>8, <2>6, <3>1, <3>2, AppendResultsIs
  <2>7. CASE MirrorMessage
    <3>1. pc \in InTurn /\ inner' = inner /\ cursor' = cursor + 1 /\ serial' = serial
      <4>1. serial' = serial
        BY <2>7 DEF MirrorMessage, pastVars
      <4> QED BY <1>0, <2>7, <4>1, MirrorHistory
    <3>2. /\ Runs(peer') /\ Numbered(peer', serial)
          /\ Drawn(peer', inner, cursor + 1) /\ Linked(peer', inner, cursor + 1)
      BY <1>0, <1>2, <1>3, <2>7, <3>1, MirrorRuns
    <3> QED BY <1>1, <1>3, <1>8, <3>1, <3>2
  <2>8. CASE ResetSession
    <3>1. /\ Len(peer') = 1 /\ peer'[1].kind = "system" /\ peer'[1].calls = <<>> /\ pc' = "idle"
      BY <1>0, <2>8, Reset
    <3>2. Runs(peer') /\ Numbered(peer', serial')
      BY <3>1, LoneRuns DEF IsTool, ToolKinds
    <3> QED BY <1>1, <1>8, <3>1, <3>2 DEF InTurn
  <2> QED BY <1>0, <1>8, <2>1, <2>2, <2>3, <2>4, <2>5, <2>6, <2>7, <2>8, StepWay
<1> QED BY <1>7, <1>8

\* Under the invariant the calls of a request are settled.
LEMMA SettledCalls == ASSUME Safe, Settled PROVE CallsAreSettled
<1>1. RunOnce
  BY DEF Safe, Once, RunOnce
<1>2. ASSUME Asking PROVE Paired(TurnRequest(inner))
  <2>1. pc \in InTurn
    BY <1>2 DEF Asking, InTurn
  <2>2. inner \in Seq(Message) /\ Formed(inner) /\ Runs(inner)
    BY <2>1 DEF Safe, Histories, History, Settled
  <2> QED BY <2>2, RequestIsPaired
<1>3. RequestPaired
  BY <1>2 DEF RequestPaired, Paired
<1> QED BY <1>1, <1>3 DEF CallsAreSettled

\* Whatever compaction, pruning and a crash in the middle of the copy leave of the histories,
\* each call in a request stands with its results, and no turn runs a call twice.
THEOREM CallsSettled == ASSUME ~Embedded PROVE Spec => []CallsAreSettled
<1>1. Init => Safe /\ Settled
  BY InitSafe, InitSettled
<1>2. Safe /\ Settled /\ [Next]_vars => (Safe /\ Settled)'
  BY StepSafe, StepSettled
<1>3. Safe /\ Settled => CallsAreSettled
  BY SettledCalls
<1> QED BY <1>1, <1>2, <1>3, PTL DEF Spec

-----------------------------------------------------------------------------
(* The distance of a turn from its end.                                     *)

Rank(p) == CHOOSE k \in DOMAIN Phases : Phases[k] = p

\* No two phases are the same.
LEMMA PhasesApart == \A i, j \in 1..14 : Phases[i] = Phases[j] => i = j
BY DEF Phases

\* The place of each phase.
LEMMA RankIs ==
  /\ Rank("idle") = 1 /\ Rank("stopped") = 2 /\ Rank("failed") = 3 /\ Rank("done") = 4
  /\ Rank("loop") = 5 /\ Rank("checkpoint") = 6 /\ Rank("batch") = 7 /\ Rank("retry") = 8
  /\ Rank("stream") = 9 /\ Rank("fit") = 10 /\ Rank("prepare") = 11 /\ Rank("seed") = 12
  /\ Rank("spec") = 13 /\ Rank("compress") = 14
<1>1. DOMAIN Phases = 1..14
  BY DEF Phases
<1>2. ASSUME NEW i \in 1..14 PROVE Rank(Phases[i]) = i
  <2>1. \A k \in DOMAIN Phases : Phases[k] = Phases[i] => k = i
    BY <1>1, PhasesApart
  <2>2. i \in DOMAIN Phases
    BY <1>1
  <2> QED BY <2>1, <2>2 DEF Rank
<1>3. /\ Phases[1] = "idle" /\ Phases[2] = "stopped" /\ Phases[3] = "failed" /\ Phases[4] = "done"
      /\ Phases[5] = "loop" /\ Phases[6] = "checkpoint" /\ Phases[7] = "batch" /\ Phases[8] = "retry"
      /\ Phases[9] = "stream" /\ Phases[10] = "fit" /\ Phases[11] = "prepare" /\ Phases[12] = "seed"
      /\ Phases[13] = "spec" /\ Phases[14] = "compress"
  BY DEF Phases
<1>4. \A i \in 1..14 : Rank(Phases[i]) = i
  BY <1>2
<1>5. Rank("idle") = 1 /\ Rank("stopped") = 2 /\ Rank("failed") = 3 /\ Rank("done") = 4
  BY <1>3, <1>4
<1>6. Rank("loop") = 5 /\ Rank("checkpoint") = 6 /\ Rank("batch") = 7 /\ Rank("retry") = 8
  BY <1>3, <1>4
<1>7. Rank("stream") = 9 /\ Rank("fit") = 10 /\ Rank("prepare") = 11 /\ Rank("seed") = 12
  BY <1>3, <1>4
<1>8. Rank("spec") = 13 /\ Rank("compress") = 14
  BY <1>3, <1>4
<1> QED BY <1>5, <1>6, <1>7, <1>8

\* The first of five numbers that differ has become smaller.
Down(x, y) == \E k \in DOMAIN y : x[k] < y[k] /\ \A j \in 1..(k - 1) : x[j] = y[j]

\* Of two quintuples the one that is less at the first place where they differ is lower.
LEMMA DownIs ==
  ASSUME NEW a1, NEW a2, NEW a3, NEW a4, NEW a5, NEW b1, NEW b2, NEW b3, NEW b4, NEW b5
  PROVE  /\ a1 < b1 => Down(<<a1, a2, a3, a4, a5>>, <<b1, b2, b3, b4, b5>>)
         /\ a1 = b1 /\ a2 < b2 => Down(<<a1, a2, a3, a4, a5>>, <<b1, b2, b3, b4, b5>>)
         /\ a1 = b1 /\ a2 = b2 /\ a3 < b3 => Down(<<a1, a2, a3, a4, a5>>, <<b1, b2, b3, b4, b5>>)
         /\ a1 = b1 /\ a2 = b2 /\ a3 = b3 /\ a4 < b4 =>
              Down(<<a1, a2, a3, a4, a5>>, <<b1, b2, b3, b4, b5>>)
         /\ a1 = b1 /\ a2 = b2 /\ a3 = b3 /\ a4 = b4 /\ a5 < b5 =>
              Down(<<a1, a2, a3, a4, a5>>, <<b1, b2, b3, b4, b5>>)
<1> DEFINE x == <<a1, a2, a3, a4, a5>>
           y == <<b1, b2, b3, b4, b5>>
<1>1. /\ DOMAIN y = 1..5 /\ x[1] = a1 /\ x[2] = a2 /\ x[3] = a3 /\ x[4] = a4 /\ x[5] = a5
      /\ y[1] = b1 /\ y[2] = b2 /\ y[3] = b3 /\ y[4] = b4 /\ y[5] = b5
  OBVIOUS
<1> HIDE DEF x, y
<1>2. \A j \in 1..(1 - 1) : FALSE
  OBVIOUS
<1>3. /\ \A j \in 1..(2 - 1) : j = 1
      /\ \A j \in 1..(3 - 1) : j = 1 \/ j = 2
      /\ \A j \in 1..(4 - 1) : j = 1 \/ j = 2 \/ j = 3
      /\ \A j \in 1..(5 - 1) : j = 1 \/ j = 2 \/ j = 3 \/ j = 4
  OBVIOUS
<1>4. 1 \in 1..5 /\ 2 \in 1..5 /\ 3 \in 1..5 /\ 4 \in 1..5 /\ 5 \in 1..5
  OBVIOUS
<1>5. ASSUME a1 < b1 PROVE Down(x, y)
  BY <1>1, <1>2, <1>4, <1>5 DEF Down
<1>6. ASSUME a1 = b1, a2 < b2 PROVE Down(x, y)
  BY <1>1, <1>3, <1>4, <1>6 DEF Down
<1>7. ASSUME a1 = b1, a2 = b2, a3 < b3 PROVE Down(x, y)
  BY <1>1, <1>3, <1>4, <1>7 DEF Down
<1>8. ASSUME a1 = b1, a2 = b2, a3 = b3, a4 < b4 PROVE Down(x, y)
  BY <1>1, <1>3, <1>4, <1>8 DEF Down
<1>9. ASSUME a1 = b1, a2 = b2, a3 = b3, a4 = b4, a5 < b5 PROVE Down(x, y)
  BY <1>1, <1>3, <1>4, <1>9 DEF Down
<1> QED BY <1>5, <1>6, <1>7, <1>8, <1>9 DEF x, y

\* The same of a step, in terms of what it changes.
Nearer ==
  \/ tc'.iterations \in Nat /\ tc.iterations < tc'.iterations /\ tc'.iterations <= Limit
  \/ tc'.iterations = tc.iterations /\ Rank(pc') < Rank(pc)
  \/ tc'.iterations = tc.iterations /\ pc' = pc /\ more' /\ ~more
  \/ tc'.iterations = tc.iterations /\ pc' = pc /\ more' = more /\ Len(batch') < Len(batch)
  \/ /\ tc'.iterations = tc.iterations /\ pc' = pc /\ more' = more /\ batch' = batch
     /\ inner' = inner /\ cursor' = cursor + 1
  \/ pc' = "idle"

\* Every step of a turn lowers its distance.
LEMMA TurnStepNearer == ASSUME Safe, TurnStep, Fixed PROVE Nearer
<1>0. /\ Typed /\ tc \in Contexts /\ tc.iterations \in Nat /\ Limit \in Nat /\ Batched
  BY SettingIs DEF Safe, Typed, Contexts
<1>1. CASE CheckAndCompress
  BY <1>1, RankIs DEF CheckAndCompress, Nearer, turnVars
<1>2. CASE MaybeStartSpeculative
  BY <1>2, RankIs DEF MaybeStartSpeculative, Nearer, turnVars
<1>3. CASE SeedTurn
  <2>1. pc = "seed" /\ pc' \in {"stopped", "loop"} /\ tc' = tc
    BY <1>3 DEF SeedTurn
  <2> QED BY <2>1, RankIs DEF Nearer
<1>4. CASE LeaveLoop
  <2>1. /\ pc = "loop" /\ ~more /\ tc' = tc
        /\ pc' = IF inbox = {} THEN "done" ELSE "loop"
    BY <1>4 DEF LeaveLoop
  <2>2. more' = (inbox # {})
    BY <1>4 DEF LeaveLoop
  <2>3. inbox # {} => more'
    BY <2>2
  <2> QED BY <2>1, <2>3, RankIs DEF Nearer
<1>5. CASE StopCancelled
  BY <1>5, RankIs DEF StopCancelled, Nearer, turnVars
<1>6. CASE IterationLimit
  BY <1>6, RankIs DEF IterationLimit, Nearer, KeepRound
<1>7. CASE BeginRound
  <2>1. tc' = [tc EXCEPT !.iterations = tc.iterations + 1] /\ tc.iterations < Limit
    BY <1>0, <1>7 DEF BeginRound, Count, LimitReached
  <2>2. tc'.iterations = tc.iterations + 1
    BY <1>0, <2>1 DEF Contexts
  <2> QED BY <1>0, <2>1, <2>2 DEF Nearer
<1>8. CASE CompactIfNeeded
  BY <1>8, RankIs DEF CompactIfNeeded, Nearer, KeepRound
<1>9. CASE EnsureContextFits
  BY <1>9, RankIs DEF EnsureContextFits, Nearer, KeepRound
<1>10. CASE RecoverFromOverflow
  <2>1. pc = "stream" /\ pc' \in {"retry", "failed"} /\ tc' = tc
    BY <1>10 DEF RecoverFromOverflow, KeepRound
  <2> QED BY <2>1, RankIs DEF Nearer
<1>11. CASE StreamFails
  <2>1. pc \in {"stream", "retry"} /\ pc' \in {"stopped", "failed"} /\ tc' = tc
    BY <1>11 DEF StreamFails, turnVars
  <2> QED BY <2>1, RankIs DEF Nearer
<1>12. CASE Answers
  <2>1. pc \in {"stream", "retry"}
    BY <1>12 DEF Answers, AnswerText, AnswerCutOff, AnswerBroken, AnswerCalls, Answer, Streaming
  <2>2. pc' \in {"loop", "batch"}
    BY <1>12 DEF Answers, AnswerText, AnswerCutOff, AnswerBroken, AnswerCalls
  <2>3. tc'.iterations = tc.iterations
    <3>1. \/ tc' = tc
          \/ tc' = [tc EXCEPT !.continuations = @ + 1]
          \/ tc' = [tc EXCEPT !.malformed = @ + 1]
          \/ \E x : tc' = [tc EXCEPT !.executed = x]
      BY <1>12 DEF Answers, AnswerText, AnswerCutOff, AnswerBroken, AnswerCalls
    <3> QED BY <3>1, <1>0 DEF Contexts
  <2> QED BY <2>1, <2>2, <2>3, RankIs DEF Nearer
<1>13. CASE RunCall
  <2>1. pc' = pc /\ more' = more /\ tc' = tc /\ batch # <<>> /\ batch \in Seq(CallOf)
    BY <1>0, <1>13 DEF RunCall, KeepRound, Batched
  <2>2. batch' = Tail(batch) \/ batch' = <<>>
    BY <1>0, <1>13, RunCallIs DEF Batched, Typed
  <2>3. Len(Tail(batch)) < Len(batch) /\ Len(<<>>) < Len(batch)
    BY <2>1
  <2> QED BY <2>1, <2>2, <2>3 DEF Nearer
<1>14. CASE AppendResults
  BY <1>14, RankIs DEF AppendResults, Nearer, KeepRound
<1>15. CASE MirrorMessage
  BY <1>15 DEF MirrorMessage, Nearer, KeepRound, KeepTools
<1>16. CASE EndRound
  BY <1>16, RankIs DEF EndRound, Nearer, KeepRound
<1>17. CASE EndTurn
  BY <1>17 DEF EndTurn, Discard, Nearer
<1> QED BY <1>1, <1>2, <1>3, <1>4, <1>5, <1>6, <1>7, <1>8, <1>9, <1>10, <1>11, <1>12, <1>13, <1>14,
           <1>15, <1>16, <1>17 DEF TurnStep

\* Every step of a turn takes it nearer to its end: no round that corrects, continues or takes
\* up what was steered is repeated without one of the bounds going down.
THEOREM TurnsAdvance == Spec => TurnAdvances
<1>1. Init => Safe
  BY InitSafe
<1>2. Safe /\ [Next]_vars => Safe'
  BY StepSafe
<1>3. ASSUME Safe, [Next]_vars, TurnStep
      PROVE  \E k \in DOMAIN Distance :
               /\ Distance'[k] < Distance[k] \/ pc' = "idle"
               /\ \A j \in 1..(k - 1) : Distance'[j] = Distance[j] \/ pc' = "idle"
  <2>0. DOMAIN Distance = 1..5
    BY DEF Distance
  <2>1. Nearer
    <3>1. Fixed
      BY <1>3, Steps DEF Fixed
    <3> QED BY <1>3, <3>1, TurnStepNearer
  <2>2. CASE pc' = "idle"
    <3>1. 1 \in 1..5 /\ \A j \in 1..(1 - 1) : FALSE
      OBVIOUS
    <3> QED BY <2>0, <2>2, <3>1
  <2>3. CASE Down(Distance', Distance)
    BY <2>3 DEF Down
  <2>4. ASSUME pc' # "idle" PROVE Down(Distance', Distance)
    <3> DEFINE m == IF more THEN 0 ELSE 1
               n == IF more' THEN 0 ELSE 1
               i == tc.iterations
               j == tc'.iterations
    <3>1. /\ Distance = <<Limit - i, Rank(pc), m, Len(batch), Len(inner) - cursor>>
          /\ Distance' = <<Limit - j, Rank(pc'), n, Len(batch'), Len(inner') - cursor'>>
      <4>1. Limit' = Limit
        BY <1>3, Steps, LimitsFixed DEF Fixed
      <4> QED BY <4>1 DEF Distance, Rank
    <3>2. i \in Nat /\ Limit \in Nat /\ Len(inner) \in Nat /\ cursor \in Nat
      <4>1. i \in Nat /\ Limit \in Nat
        BY <1>3, SettingIs DEF Safe, Typed, Contexts
      <4>2. Len(inner) \in Nat /\ cursor \in Nat
        <5>1. CASE pc \in InTurn
          BY <1>3, <5>1 DEF Safe, Histories, History
        <5>2. CASE pc \notin InTurn
          BY <1>3, <5>2 DEF Safe, Histories
        <5> QED BY <5>1, <5>2
      <4> QED BY <4>1, <4>2
    <3>3. CASE j \in Nat /\ i < j /\ j <= Limit
      <4>1. Limit - j < Limit - i
        BY <3>2, <3>3
      <4> QED BY <3>1, <4>1, DownIs
    <3>4. CASE j = i /\ Rank(pc') < Rank(pc)
      <4>1. Limit - j = Limit - i
        BY <3>4
      <4> QED BY <3>1, <3>4, <4>1, DownIs
    <3>5. CASE j = i /\ pc' = pc /\ more' /\ ~more
      <4>1. Limit - j = Limit - i /\ n < m /\ Rank(pc') = Rank(pc)
        BY <3>5
      <4> QED BY <3>1, <4>1, DownIs
    <3>6. CASE j = i /\ pc' = pc /\ more' = more /\ Len(batch') < Len(batch)
      <4>1. Limit - j = Limit - i /\ n = m /\ Rank(pc') = Rank(pc)
        BY <3>6
      <4> QED BY <3>1, <3>6, <4>1, DownIs
    <3>7. CASE /\ j = i /\ pc' = pc /\ more' = more /\ batch' = batch
               /\ inner' = inner /\ cursor' = cursor + 1
      <4>1. /\ Limit - j = Limit - i /\ n = m /\ Rank(pc') = Rank(pc) /\ Len(batch') = Len(batch)
            /\ Len(inner') - cursor' < Len(inner) - cursor
        BY <3>2, <3>7
      <4> QED BY <3>1, <4>1, DownIs
    <3> QED BY <2>1, <2>4, <3>3, <3>4, <3>5, <3>6, <3>7 DEF Nearer
  <2> QED BY <2>2, <2>3, <2>4
<1>4. Safe /\ [Next]_vars =>
        [TurnStep => \E k \in DOMAIN Distance :
           /\ Distance'[k] < Distance[k] \/ pc' = "idle"
           /\ \A j \in 1..(k - 1) : Distance'[j] = Distance[j] \/ pc' = "idle"]_vars
  BY <1>3
<1> QED BY <1>1, <1>2, <1>4, PTL DEF Spec, TurnAdvances

-----------------------------------------------------------------------------
(* What a turn leaves in the history of the peer.                           *)

Says(h, x) == \E k \in 1..Len(h) : h[k].n = x

\* What a history says it says when it has grown.
LEMMA SaysGrown ==
  ASSUME NEW h \in Seq(Message), NEW g, Grown(g, h), NEW x, Says(h, x)
  PROVE  Says(g, x)
<1>1. Len(h) \in Nat /\ Len(g) \in Nat /\ Len(h) <= Len(g)
  BY DEF Grown
<1>2. PICK k \in 1..Len(h) : h[k].n = x
  BY DEF Says
<1>3. k \in 1..Len(g) /\ g[k].n = x
  BY <1>1, <1>2 DEF Grown, Kept
<1> QED BY <1>3 DEF Says

\* The history of the peer has what is copied of the turn's own.
Recorded ==
  /\ pc \in InTurn => \A i \in 1..cursor : Mirrored(inner[i]) => Says(peer, inner[i].n)
  /\ \A x \in mirrored : Says(peer, x)
  /\ pc \notin InTurn => mirrored = {}

\* Only MirrorMessage adds to mirrored.
LEMMA StepMirrored ==
  ASSUME Typed, Recorded, [Next]_vars
  PROVE  mirrored' = mirrored \/ (mirrored' = {} /\ pc' = "idle") \/ MirrorMessage
<1>1. StepOf
  BY Steps
<1>2. CASE AddPrompt \/ CheckAndCompress \/ MaybeStartSpeculative \/ StopCancelled \/ StreamFails
           \/ SpeculativeEnds \/ Steer \/ Cancel \/ ResetSession
  BY <1>2 DEF AddPrompt, CheckAndCompress, MaybeStartSpeculative, StopCancelled, StreamFails,
              SpeculativeEnds, Steer, Cancel, ResetSession, turnVars
<1>3. CASE SeedTurn \/ LeaveLoop \/ IterationLimit \/ BeginRound
  BY <1>3 DEF SeedTurn, LeaveLoop, IterationLimit, BeginRound, KeepMirror
<1>4. CASE CompactIfNeeded \/ EnsureContextFits \/ RecoverFromOverflow \/ RunCall \/ AppendResults \/ EndRound
  BY <1>4 DEF CompactIfNeeded, EnsureContextFits, RecoverFromOverflow, RunCall, AppendResults, EndRound, KeepMirror
<1>5. CASE AnswerText \/ AnswerCutOff \/ AnswerBroken
  BY <1>5, AnswerKeeps DEF AnswerText, AnswerCutOff, AnswerBroken
<1>6. CASE \E b \in Batches : AnswerCalls(b)
  BY <1>6, AnswerKeeps DEF AnswerCalls
<1>7. CASE EndTurn \/ Crash
  BY <1>7 DEF EndTurn, Crash, Discard
<1>8. CASE MirrorMessage
  BY <1>8
<1>9. CASE UNCHANGED vars
  BY <1>9 DEF vars, turnVars
<1> QED BY <1>1, <1>2, <1>3, <1>4, <1>5, <1>6, <1>7, <1>8, <1>9 DEF StepOf

\* Recorded holds at first.
LEMMA InitRecorded == ASSUME Init PROVE Recorded
BY DEF Init, Recorded, InTurn

\* Every step keeps Recorded.
LEMMA StepRecorded ==
  ASSUME Safe, Recorded, [Next]_vars
  PROVE  Recorded'
<1>0. Typed /\ Histories /\ Snapshot /\ Batched /\ peer \in Seq(Message) /\ History(peer)
  BY DEF Safe, Histories, History
<1>1. ASSUME \A x : Says(peer, x) => Says(peer', x),
             pc \in InTurn \/ pc' \notin InTurn,
             mirrored' = mirrored \/ (mirrored' = {} /\ pc' = "idle"),
             pc' \in InTurn => Grown(inner', inner) /\ cursor' = cursor,
             pc' \in InTurn \/ mirrored' = {}
      PROVE  Recorded'
  <2>1. \A x \in mirrored' : Says(peer', x)
    BY <1>1 DEF Recorded
  <2>2. ASSUME pc' \in InTurn, NEW i \in 1..cursor', Mirrored(inner'[i]) PROVE Says(peer', inner'[i].n)
    <3>1. inner \in Seq(Message) /\ cursor \in 1..Len(inner) /\ cursor' = cursor /\ pc \in InTurn
      BY <1>0, <1>1, <2>2 DEF Histories, History
    <3>2. i \in 1..Len(inner) /\ i \in 1..cursor
      BY <3>1
    <3>3. Kept(inner'[i], inner[i])
      BY <1>1, <2>2, <3>2 DEF Grown
    <3>4. Mirrored(inner[i]) /\ inner'[i].n = inner[i].n
      BY <2>2, <3>3 DEF Kept, IsTool, ToolKinds, Mirrored
    <3>5. Says(peer, inner[i].n)
      BY <3>1, <3>2, <3>4 DEF Recorded
    <3> QED BY <1>1, <3>4, <3>5
  <2> QED BY <1>1, <2>1, <2>2 DEF Recorded
<1>2. \A x : Says(peer, x) => Says(peer, x)
  OBVIOUS
<1>3. Grown(peer', peer) => \A x : Says(peer, x) => Says(peer', x)
  BY <1>0, SaysGrown
<1>4. ~MirrorMessage => mirrored' = mirrored \/ (mirrored' = {} /\ pc' = "idle")
  BY <1>0, StepMirrored
<1>5. pc \notin InTurn => mirrored = {}
  BY DEF Recorded
<1>6. pc \in InTurn => inner \in Seq(Message) /\ Grown(inner, inner)
  BY <1>0, GrownSelf DEF Histories, History, Same
<1>7. CASE MirrorMessage
  <2> DEFINE m == inner[cursor + 1]
  <2>1. /\ m \in Message /\ cursor + 1 \in 2..Len(inner) /\ cursor' = cursor + 1
        /\ inner' = inner /\ pc' = pc /\ pc \in InTurn
        /\ Continues(peer', peer)
        /\ Mirrored(m) => peer' = Append(peer, Mirror(m))
    BY <1>0, <1>7, MirrorHistory
  <2>2. mirrored' = IF Mirrored(m) /\ IsUser(m) THEN mirrored \cup {m.n} ELSE mirrored
    BY <1>7 DEF MirrorMessage
  <2>3. Mirror(m) \in Message /\ Mirror(m).n = m.n
    BY <2>1, MirrorIs DEF Alike
  <2> DEFINE r == Mirror(m)
  <2> HIDE DEF m, r
  <2>4. Mirrored(m) => Says(peer', m.n)
    <3>1. /\ Len(Append(peer, r)) = Len(peer) + 1 /\ Len(peer) \in Nat
          /\ Append(peer, r)[Len(peer) + 1] = r
      BY <1>0, <2>3, Appended DEF r
    <3>2. Says(Append(peer, r), m.n)
      BY <2>3, <3>1 DEF Says, r
    <3> QED BY <2>1, <3>2 DEF r
  <2>5. \A x : Says(peer, x) => Says(peer', x)
    <3>1. Grown(peer', peer)
      BY <1>0, <2>1, ContinuesGrown
    <3> QED BY <1>3, <3>1
  <2>6. \A x \in mirrored' : Says(peer', x)
    BY <2>2, <2>4, <2>5 DEF Recorded
  <2>7. ASSUME NEW i \in 1..cursor', Mirrored(inner'[i]) PROVE Says(peer', inner'[i].n)
    <3>1. CASE i \in 1..cursor
      BY <2>1, <2>5, <2>7, <3>1 DEF Recorded
    <3>2. CASE i \notin 1..cursor
      <4>1. cursor \in 1..Len(inner) /\ Len(inner) \in Nat
        BY <1>0, <2>1 DEF Histories, History
      <4>2. i = cursor + 1
        BY <2>1, <3>2, <4>1
      <4>3. inner'[i] = m
        BY <2>1, <4>2 DEF m
      <4> QED BY <2>4, <2>7, <4>3
    <3> QED BY <3>1, <3>2
  <2> QED BY <2>1, <2>6, <2>7 DEF Recorded
<1>8. CASE ~MirrorMessage
  <2>1. CASE Still
    <3>1. pc' \in InTurn => pc \in InTurn
      BY <2>1 DEF Still
    <3>2. pc' \notin InTurn => mirrored' = {}
      BY <1>4, <1>5, <1>8, <2>1 DEF Still
    <3> QED BY <1>1, <1>4, <1>6, <1>8, <2>1, <3>1, <3>2 DEF Still
  <2>2. CASE Opens
    <3>1. mirrored' = {} /\ pc' \notin InTurn
      BY <1>4, <1>5, <1>8, <2>2 DEF Opens
    <3> QED BY <3>1 DEF Recorded
  <2>3. CASE Ends \/ ResetSession
    <3>1. pc' = "idle" /\ pc' \notin InTurn
      BY <1>0, <2>3, Reset DEF Ends, InTurn
    <3>4. CASE Ends
      BY <3>1, <3>4 DEF Recorded, Ends
    <3>5. CASE ResetSession
      <4>1. pc = "idle" /\ mirrored' = mirrored
        BY <3>5 DEF ResetSession, turnVars
      <4>2. mirrored = {}
        BY <4>1 DEF Recorded, InTurn
      <4> QED BY <3>1, <4>1, <4>2 DEF Recorded
    <3> QED BY <2>3, <3>4, <3>5
  <2>4. CASE Seeds
    <3>1. mirrored' = {}
      BY <1>4, <1>5, <1>8, <2>4 DEF Seeds
    <3>2. ASSUME NEW i \in 1..cursor' PROVE Says(peer', inner'[i].n)
      <4> DEFINE s == Seed(peer)
      <4>1. Same(s, peer) /\ cursor' = Len(peer) /\ Grown(inner', s) /\ peer' = peer
        BY <2>4 DEF Seeds, Follows
      <4> HIDE DEF s
      <4>2. i \in 1..Len(peer) /\ i \in 1..Len(s)
        BY <4>1 DEF Same
      <4>3. Kept(s[i], peer[i]) /\ Kept(inner'[i], s[i])
        BY <4>1, <4>2 DEF Same, Grown
      <4>4. peer'[i].n = inner'[i].n
        BY <4>1, <4>3 DEF Kept
      <4> QED BY <4>1, <4>2, <4>4 DEF Says
    <3> QED BY <2>4, <3>1, <3>2 DEF Recorded, Seeds
  <2>5. ASSUME pc \in InTurn, pc' \in InTurn, Grown(inner', inner), UNCHANGED <<peer, cursor>>
        PROVE  Recorded'
    BY <1>1, <1>4, <1>8, <2>5
  <2>6. CASE Grows
    BY <2>5, <2>6 DEF Grows, Follows
  <2>7. CASE AppendResults
    BY <1>0, <2>5, <2>7, AppendResultsIs
  <2>8. ASSUME NEW b \in Batches, AnswerCalls(b) PROVE Recorded'
    BY <1>0, <2>5, <2>8, AskedHistory
  <2> QED BY <1>0, <1>8, <2>1, <2>2, <2>3, <2>4, <2>6, <2>7, <2>8, StepWay
<1> QED BY <1>7, <1>8

\* The messages that record the steered texts X, and what they say.
SteersOf(X) == [k \in DOMAIN Ordered(X) |-> Msg("steer", Ordered(X)[k])]

\* They are such messages, and each text is said.
LEMMA SteersSaid ==
  ASSUME NEW N \in Nat, NEW X \in SUBSET (1..N)
  PROVE  Additions(SteersOf(X), X) /\ \A x \in X : \E k \in 1..Len(SteersOf(X)) : SteersOf(X)[k].n = x
  BY SteersAre DEF SteersOf

\* A turn that ends, but for a crash, leaves all it said, and, unless it was cancelled, all it
\* was steered with, in the history of the peer.
THEOREM TurnsRecorded == Spec => TurnIsRecorded
<1>1. Init => Safe /\ Recorded
  BY InitSafe, InitRecorded
<1>2. Safe /\ Recorded /\ [Next]_vars => (Safe /\ Recorded)'
  BY StepSafe, StepRecorded
<1>3. ASSUME Safe, Recorded, EndTurn
      PROVE  LET told == {peer'[i].n : i \in DOMAIN peer'} IN
             /\ \A i \in DOMAIN inner : Mirrored(inner[i]) => inner[i].n \in told
             /\ pc = "stopped" \/ promoted \subseteq told
  <2> DEFINE told == {peer'[i].n : i \in DOMAIN peer'}
             w == SteersOf(promoted \ mirrored)
             r == peer \o w
  <2>1. /\ pc \in InTurn /\ cursor = Len(inner)
        /\ IF pc = "stopped" THEN peer' = peer
           ELSE peer' = IF pc = "done" THEN Pruned(r) ELSE r
    BY <1>3 DEF EndTurn, InTurn, Unrecorded, Pruned, SteersOf
  <2>2. /\ peer \in Seq(Message) /\ History(peer) /\ inner \in Seq(Message)
        /\ serial \in Nat /\ promoted \ mirrored \in SUBSET (1..serial)
    BY <1>3, <2>1 DEF Safe, Typed, Histories, History
  <2>3. Additions(w, promoted \ mirrored) /\ \A x \in promoted \ mirrored : \E k \in 1..Len(w) : w[k].n = x
    BY <2>2, SteersSaid
  <2> HIDE DEF w
  <2>4. /\ Follows(r, peer) /\ r \in Seq(Message) /\ Len(r) = Len(peer) + Len(w)
        /\ Len(peer) \in Nat /\ Len(w) \in Nat /\ w \in Seq(Message)
    <3>1. w \in Seq(Message)
      BY <2>3 DEF Additions
    <3>2. r \in Seq(Message) /\ Len(r) = Len(peer) + Len(w)
      BY <2>2, <3>1, Joined
    <3>3. Follows(r, peer)
      BY <2>2, <2>3, <3>1, ExtendsJoined DEF Additions, Extends
    <3> QED BY <2>2, <3>1, <3>2, <3>3
  <2>5. \A k \in 1..Len(w) : r[Len(peer) + k] = w[k]
    BY <2>2, <2>4, JoinedRight
  <2> HIDE DEF r
  <2>6. Grown(Pruned(r), r) /\ Grown(r, r)
    BY <2>4, HistoryPruned, GrownSelf DEF Follows, Same
  <2>7. pc # "stopped" => Grown(peer', r)
    BY <2>1, <2>6
  <2>8. Grown(peer', peer) /\ peer' \in Seq(Message)
    <3>1. EndTurn => Ends
      BY <1>3, EndTurnEnds DEF Safe
    <3> QED BY <1>3, <3>1 DEF Ends, Follows, Grown
  <2>9. \A x : Says(peer', x) => x \in told
    BY <2>8 DEF Says
  <2> HIDE DEF told
  <2>10. ASSUME NEW i \in DOMAIN inner, Mirrored(inner[i]) PROVE inner[i].n \in told
    <3>1. i \in 1..cursor
      BY <2>1, <2>2
    <3>2. Says(peer, inner[i].n)
      BY <1>3, <2>1, <2>10, <3>1 DEF Recorded
    <3> QED BY <2>2, <2>8, <2>9, <3>2, SaysGrown
  <2>11. ASSUME pc # "stopped", NEW x \in promoted PROVE x \in told
    <3>1. CASE x \in mirrored
      <4>1. Says(peer, x)
        BY <1>3, <3>1 DEF Recorded
      <4> QED BY <2>2, <2>8, <2>9, <4>1, SaysGrown
    <3>2. CASE x \notin mirrored
      <4>1. PICK k \in 1..Len(w) : w[k].n = x
        BY <2>3, <3>2
      <4>2. Len(peer) + k \in 1..Len(r) /\ r[Len(peer) + k].n = x
        BY <2>4, <2>5, <4>1
      <4>3. Says(r, x)
        BY <4>2 DEF Says
      <4> QED BY <2>4, <2>7, <2>9, <2>11, <4>3, SaysGrown
    <3> QED BY <3>1, <3>2
  <2> QED BY <2>10, <2>11 DEF told
<1>4. Safe /\ Recorded /\ [Next]_vars =>
        [EndTurn =>
           LET told == {peer'[i].n : i \in DOMAIN peer'} IN
           /\ \A i \in DOMAIN inner : Mirrored(inner[i]) => inner[i].n \in told
           /\ pc = "stopped" \/ promoted \subseteq told]_vars
  BY <1>3
<1> QED BY <1>1, <1>2, <1>4, PTL DEF Spec, TurnIsRecorded

-----------------------------------------------------------------------------
(* No message is lost: what a step does to compactions and their summaries.  *)

\* A speculative compaction that may still be applied may be put behind the history.
Fitting ==
  /\ spec.state \in {"running", "ready"} => spec.count <= Len(peer)
  /\ spec.state \in {"running", "ready"} /\ spec.first # 0 /\ Fresh => Takes(spec, peer)

\* No compaction has lost a message: neither in the session of the peer nor in that of the turn.
Coverage == /\ Covered(peer) /\ Fitting
            /\ pc \in InTurn => Covered(inner)

\* What CheckAndCompress does to the history of a peer.
LEMMA CompressTells ==
  ASSUME Safe, Fitting, CheckAndCompress
  PROVE  /\ Covered(peer) => Covered(peer')
         /\ TellsNoMore(peer', peer, spec.covers)
         /\ peer' = peer \/ Len(peer') = Len(peer) + 3
         /\ spec' = NoSpec \/ spec' = spec
         /\ spec.state = "ready" /\ peer' # peer => spec' = NoSpec
<1> DEFINE c == Compaction(peer)
           a == Msg("auto", 0)
<1>1. History(peer) /\ peer \in Seq(Message) /\ Len(peer) \in Nat
  BY DEF Safe, Histories, History
<1>2. \/ peer' = peer
      \/ spec.state = "ready" /\ Fresh /\ peer' = Append(MarkCompaction(peer, spec), a)
      \/ c.first # 0 /\ peer' = Append(MarkCompaction(peer, c), a)
  BY DEF CheckAndCompress, ApplySpeculative, SyncCompact
<1>3. (spec' = NoSpec \/ spec' = spec) /\ (spec.state = "ready" /\ peer' # peer => spec' = NoSpec)
  BY DEF CheckAndCompress
<1>4. a \in Message /\ Quiet(a, spec.covers)
  BY AutoIs, AutoQuiet
<1> HIDE DEF a
<1>5. ASSUME NEW d, Cuts(d, peer), peer' = Append(MarkCompaction(peer, d), a)
      PROVE  Len(peer') = Len(peer) + 3
  <2>1. Follows(MarkCompaction(peer, d), peer) /\ Len(MarkCompaction(peer, d)) = Len(peer) + 2
    BY <1>1, <1>5, HistoryCompacted
  <2> DEFINE k == MarkCompaction(peer, d)
  <2>2. k \in Seq(Message) /\ Len(k) = Len(peer) + 2 /\ peer' = Append(k, a)
    BY <1>5, <2>1 DEF Follows, History
  <2> HIDE DEF k
  <2>3. Len(peer') = Len(k) + 1
    BY <1>4, <2>2, Appended
  <2> QED BY <1>1, <2>2, <2>3
<1>6. CASE peer' = peer
  <2>1. Covered(peer) => Covered(peer')
    BY <1>6
  <2>2. TellsNoMore(peer', peer, spec.covers)
    BY <1>6 DEF TellsNoMore
  <2> QED BY <1>3, <1>6, <2>1, <2>2
<1>7. CASE spec.state = "ready" /\ Fresh /\ peer' = Append(MarkCompaction(peer, spec), a)
  <2> DEFINE k == MarkCompaction(peer, spec)
  <2>1. Cuts(spec, peer) /\ Takes(spec, peer)
    BY <1>7 DEF Safe, Snapshot, Fitting
  <2>2. Follows(k, peer) /\ TellsNoMore(k, peer, spec.covers)
    BY <1>1, <2>1, HistoryCompacted, CompactedTells
  <2>3. Covered(peer) => Covered(k)
    BY <1>1, <2>1, CoveredCompacted DEF History
  <2> HIDE DEF k
  <2>4. Extends(Append(k, a), k, spec.covers)
    BY <1>4, <2>2, ExtendsAppend DEF Follows
  <2>5. peer' = Append(k, a)
    BY <1>7 DEF k
  <2>6. TellsNoMore(peer', peer, spec.covers)
    BY <2>2, <2>4, <2>5 DEF Extends, TellsNoMore
  <2>7. Covered(peer) => Covered(peer')
    BY <2>3, <2>4, <2>5 DEF Extends
  <2> QED BY <1>3, <1>5, <1>7, <2>1, <2>6, <2>7
<1>8. CASE c.first # 0 /\ peer' = Append(MarkCompaction(peer, c), a)
  <2>1. Cuts(c, peer)
    BY <1>1, <1>8, CompactionCuts
  <2>2. Extends(peer', peer, spec.covers)
    BY <1>1, <1>8, ExtendsCompacted DEF a
  <2> HIDE DEF c
  <2>3. Len(peer') = Len(peer) + 3
    BY <1>5, <1>8, <2>1
  <2> QED BY <1>3, <2>2, <2>3 DEF Extends
<1> QED BY <1>2, <1>6, <1>7, <1>8

\* The prompt of a turn
LEMMA AddPromptExtends ==
  ASSUME Safe, AddPrompt
  PROVE  /\ Extends(peer', peer, {turns + 1}) /\ spec' = spec
         /\ \A i \in Later(peer', peer) : peer'[i].kind # "summary"
<1> DEFINE m == Msg("prompt", turns + 1)
<1>1. turns + 1 \in Nat /\ "prompt" \in Kinds
  BY DEF Safe, Typed, Kinds
<1>2. /\ m \in Message /\ m.kind = "prompt" /\ m.calls = <<>> /\ m.n = turns + 1
      /\ m.covers = {} /\ ~m.compacted
  BY <1>1, MsgIs
<1>3. peer' = Append(peer, m) /\ spec' = spec
  BY DEF AddPrompt
<1>4. History(peer) /\ peer \in Seq(Message)
  BY DEF Safe, Histories, History
<1> HIDE DEF m
<1>5. Quiet(m, {turns + 1})
  BY <1>2 DEF Quiet, Plain
<1>6. Extends(peer', peer, {turns + 1})
  BY <1>2, <1>3, <1>4, <1>5, ExtendsAppend
<1>7. \A i \in Later(peer', peer) : peer'[i] = m
  BY <1>2, <1>3, <1>4, AppendContinues
<1> QED BY <1>2, <1>3, <1>6, <1>7

\* and what is mirrored leave it covered.
LEMMA MirrorCovered ==
  ASSUME Safe, MirrorMessage
  PROVE  /\ Covered(peer) => Covered(peer')
         /\ \A i \in Later(peer', peer) : peer'[i].kind # "summary"
         /\ \A x : Tells(peer', x) => Tells(peer, x) \/ x = inner[cursor + 1].n
                                      \/ x \in inner[cursor + 1].covers
<1> DEFINE m == inner[cursor + 1]
           r == Mirror(m)
<1>1. /\ m \in Message
      /\ Continues(peer', peer)
      /\ Mirrored(m) => peer' = Append(peer, r)
      /\ ~Mirrored(m) => peer' = peer
  BY MirrorHistory DEF Safe
<1>2. History(peer) /\ peer \in Seq(Message) /\ Len(peer) \in Nat
  BY DEF Safe, Histories, History
<1>3. r \in Message /\ Alike(r, m) /\ ~r.compacted
  BY <1>1, MirrorIs
<1> HIDE DEF m, r
<1>4. CASE ~Mirrored(m)
  <2>1. peer' = peer
    BY <1>1, <1>4
  <2>2. Later(peer, peer) = {}
    BY <1>2, GrownSelf, NothingLater
  <2> QED BY <2>1, <2>2
<1>5. CASE Mirrored(m)
  <2>1. peer' = Append(peer, r)
    BY <1>1, <1>5
  <2>2. /\ Continues(peer', peer) /\ Len(peer') = Len(peer) + 1
        /\ \A i \in Later(peer', peer) : i = Len(peer) + 1 /\ peer'[i] = r
    BY <1>2, <1>3, <2>1, AppendContinues
  <2>3. r.kind # "summary" /\ ~r.compacted /\ r.n = m.n /\ r.covers = m.covers
    BY <1>3, <1>5 DEF Alike, Mirrored
  <2>4. Covered(peer) => Covered(peer')
    BY <1>2, <2>2, <2>3, CoveredContinued
  <2>5. ASSUME NEW x, Tells(peer', x) PROVE Tells(peer, x) \/ x = m.n \/ x \in m.covers
    <3>1. PICK i \in 1..Len(peer') : peer'[i].n = x \/ x \in peer'[i].covers
      BY <2>5 DEF Tells
    <3>2. CASE i \in 1..Len(peer)
      <4>1. peer'[i] = peer[i]
        BY <2>2, <3>2 DEF Continues
      <4> QED BY <3>1, <3>2, <4>1 DEF Tells
    <3>3. CASE i \notin 1..Len(peer)
      <4>1. i \in Later(peer', peer)
        BY <1>2, <2>2, <3>3 DEF Later
      <4> QED BY <2>2, <2>3, <3>1, <4>1
    <3> QED BY <3>2, <3>3
  <2> QED BY <2>2, <2>3, <2>4, <2>5 DEF m
<1> QED BY <1>4, <1>5

\* A step leaves the history of the peer covered.
LEMMA PeerCovered ==
  ASSUME Safe, Covered(peer), Fitting, [Next]_vars
  PROVE  Covered(peer')
<1>1. Typed /\ Histories /\ Snapshot /\ Batched
  BY DEF Safe
<1>2. CASE Still \/ Seeds \/ Grows
  BY <1>2 DEF Still, Seeds, Grows
<1>3. CASE Opens
  <2>1. CASE AddPrompt
    BY <2>1, AddPromptExtends DEF Extends
  <2>2. CASE CheckAndCompress
    BY <2>2, CompressTells
  <2> QED BY <1>3, <2>1, <2>2 DEF Opens
<1>4. CASE Ends
  BY <1>4 DEF Ends, Extends
<1>5. CASE AppendResults
  BY <1>1, <1>5, AppendResultsIs
<1>6. CASE MirrorMessage
  BY <1>6, MirrorCovered
<1>7. CASE ResetSession
  BY <1>1, <1>7, Reset, CoveredAtFirst
<1>8. CASE \E b \in Batches : AnswerCalls(b)
  BY <1>1, <1>8, AskedHistory
<1>9. \/ Still \/ Opens \/ Seeds \/ Grows \/ Ends
      \/ AppendResults \/ MirrorMessage \/ ResetSession
      \/ \E b \in Batches : AnswerCalls(b)
  BY <1>1, StepWay
<1> QED BY <1>9, <1>2, <1>3, <1>4, <1>5, <1>6, <1>7, <1>8

\* The calls of an answer and the notices about repeated ones leave the session covered.
LEMMA AskedCovered ==
  ASSUME Safe, Covered(inner), History(inner), NEW sigs \in Batches, AnswerCalls(sigs)
  PROVE  Covered(inner')
<1>1. Typed /\ serial \in Nat
  BY DEF Safe, Typed
<1>2. PICK g : /\ Follows(g, inner) /\ Extends(g, inner, Said)
               /\ inner' = Append(g, Asked(sigs)) \o Notes(sigs)
  BY <1>1, AnswerCallsIs
<1> DEFINE m == Asked(sigs)
           z == Notes(sigs)
<1>3. m \in Message /\ m.kind = "calls" /\ ~m.compacted
  BY <1>1, AskedIs
<1>4. z \in Seq(Message) /\ \A k \in 1..Len(z) : z[k].kind = "result" /\ ~z[k].compacted
  BY <1>1, NotesAre
<1> HIDE DEF m, z
<1>5. History(g) /\ g \in Seq(Message) /\ Covered(g)
  BY <1>2 DEF Extends, Follows, History
<1> DEFINE f == Append(g, m)
<1>6. Continues(f, g) /\ \A i \in Later(f, g) : f[i] = m
  BY <1>3, <1>5, AppendContinues
<1>7. History(f) /\ f \in Seq(Message)
  BY <1>3, <1>4, <1>5, HistoryAsked DEF History
<1> HIDE DEF f
<1>8. Covered(f)
  BY <1>3, <1>5, <1>6, CoveredContinued
<1> DEFINE e == f \o z
<1>9. Continues(e, f) /\ \A i \in Later(e, f) : i - Len(f) \in 1..Len(z) /\ e[i] = z[i - Len(f)]
  BY <1>4, <1>7, JoinContinues
<1> HIDE DEF e
<1>10. \A i \in Later(e, f) : e[i].kind # "summary" /\ ~e[i].compacted
  BY <1>4, <1>9
<1>11. Covered(e)
  BY <1>7, <1>8, <1>9, <1>10, CoveredContinued
<1> QED BY <1>2, <1>11 DEF e, f, m, z

\* A step leaves the session of the turn covered.
LEMMA InnerCovered ==
  ASSUME Safe, Coverage, [Next]_vars, pc' \in InTurn
  PROVE  Covered(inner')
<1>1. Typed /\ Histories /\ Snapshot /\ Batched
  BY DEF Safe
<1>2. Covered(peer) /\ (pc \in InTurn => Covered(inner))
  BY DEF Coverage
<1>3. CASE Still \/ Grows
  BY <1>2, <1>3 DEF Still, Grows, Extends
<1>4. CASE Opens \/ Ends \/ ResetSession
  <2>1. "idle" \notin InTurn
    BY DEF InTurn
  <2>2. ResetSession => pc' = "idle"
    BY <1>1, Reset
  <2> QED BY <1>4, <2>1, <2>2 DEF Opens, Ends
<1>5. CASE Seeds
  <2>1. Covered(Seed(peer))
    BY <1>1, <1>2, CoveredSeeded DEF Histories
  <2> QED BY <1>5, <2>1 DEF Seeds, Extends
<1>6. CASE AppendResults
  <2>1. /\ History(inner) /\ Continues(inner', inner) /\ pc \in InTurn
        /\ \A i \in Later(inner', inner) :
              i - Len(inner) \in 1..Len(results) /\ inner'[i] = results[i - Len(inner)]
    BY <1>1, <1>6, AppendResultsIs
  <2>2. Plainly(results)
    BY <1>1 DEF Batched
  <2>3. \A i \in Later(inner', inner) : inner'[i].kind # "summary" /\ ~inner'[i].compacted
    BY <2>1, <2>2 DEF Plainly
  <2> QED BY <1>2, <2>1, <2>3, CoveredContinued
<1>7. CASE MirrorMessage
  BY <1>1, <1>2, <1>7, MirrorHistory
<1>8. CASE \E b \in Batches : AnswerCalls(b)
  <2>1. PICK b \in Batches : AnswerCalls(b)
    BY <1>8
  <2>2. History(inner) /\ pc \in InTurn
    BY <1>1, <2>1, AskedHistory
  <2> QED BY <1>2, <2>1, <2>2, AskedCovered
<1>9. \/ Still \/ Opens \/ Seeds \/ Grows \/ Ends
      \/ AppendResults \/ MirrorMessage \/ ResetSession
      \/ \E b \in Batches : AnswerCalls(b)
  BY <1>1, StepWay
<1> QED BY <1>9, <1>3, <1>4, <1>5, <1>6, <1>7, <1>8

\* As long as a speculative compaction waits, it may be applied or comes too late.
LEMMA FittingKept ==
  ASSUME Safe, Coverage, [Next]_vars, spec' = spec, Grown(peer', peer),
         spec.state \in {"running", "ready"}
  PROVE  /\ spec.count <= Len(peer')
         /\ spec.first # 0 /\ Len(peer') <= spec.count + 2 => Takes(spec, peer')
<1>1. Typed /\ Histories /\ Snapshot /\ Batched
  BY DEF Safe
<1>2. peer \in Seq(Message) /\ Len(peer) \in Nat /\ Len(peer') \in Nat /\ Len(peer) <= Len(peer')
  BY <1>1 DEF Histories, History, Grown
<1>3. spec.count <= Len(peer) /\ spec.count \in Nat
  BY <1>1 DEF Coverage, Fitting, Snapshot
<1>4. spec.count <= Len(peer')
  BY <1>2, <1>3
<1>5. ASSUME spec.first # 0, Len(peer') <= spec.count + 2
      PROVE  Takes(spec, peer')
  <2>1. Len(peer) <= spec.count + 2
    BY <1>2, <1>3, <1>5
  <2>2. Takes(spec, peer) /\ Cuts(spec, peer)
    BY <1>1, <1>5, <2>1 DEF Coverage, Fitting, Fresh, Snapshot
  <2>3. CASE peer' = peer
    BY <2>2, <2>3
  <2>4. CASE \A i \in Later(peer', peer) : peer'[i].kind # "summary"
    BY <1>2, <2>2, <2>4, TakesGrown
  <2>5. CASE Still \/ Seeds \/ Grows
    BY <2>3, <2>5 DEF Still, Seeds, Grows
  <2>6. CASE Opens
    <3>1. CASE AddPrompt
      BY <3>1, <2>4, AddPromptExtends
    <3>2. CASE CheckAndCompress
      <4>1. peer' = peer \/ Len(peer') = Len(peer) + 3
        BY <3>2, CompressTells DEF Coverage
      <4>2. Len(peer') # Len(peer) + 3
        BY <1>2, <1>3, <1>5
      <4> QED BY <2>3, <4>1, <4>2
    <3> QED BY <2>6, <3>1, <3>2 DEF Opens
  <2>7. CASE Ends
    BY <2>4, <2>7 DEF Ends
  <2>8. CASE AppendResults \/ \E b \in Batches : AnswerCalls(b)
    <3>1. peer' = peer
      BY <1>1, <2>8, AppendResultsIs, AskedHistory
    <3> QED BY <3>1, <2>3
  <2>9. CASE MirrorMessage
    BY <2>4, <2>9, MirrorCovered
  <2>10. CASE ResetSession
    <3>1. spec' = NoSpec
      BY <1>1, <2>10, Reset
    <3> QED BY <3>1 DEF NoSpec
  <2>11. \/ Still \/ Opens \/ Seeds \/ Grows \/ Ends
         \/ AppendResults \/ MirrorMessage \/ ResetSession
         \/ \E b \in Batches : AnswerCalls(b)
    BY <1>1, StepWay
  <2> QED BY <2>5, <2>6, <2>7, <2>8, <2>9, <2>10, <2>11
<1> QED BY <1>4, <1>5

\* A step leaves the speculative compaction of a peer fitting.
LEMMA StepFitting ==
  ASSUME Safe, Coverage, [Next]_vars
  PROVE  Fitting'
<1>1. Typed /\ Histories /\ Snapshot /\ Batched
  BY DEF Safe
<1>2. Grown(peer', peer) \/ ResetSession
  BY <1>1, PeerGrown
<1>3. CASE spec' = NoSpec
  BY <1>3 DEF NoSpec, Fitting
<1>4. CASE spec' = spec /\ Grown(peer', peer)
  <2>1. CASE spec.state \in {"running", "ready"}
    BY <1>4, <2>1, FittingKept DEF Fitting, Fresh
  <2>2. CASE spec.state \notin {"running", "ready"}
    BY <1>4, <2>2 DEF Fitting
  <2> QED BY <2>1, <2>2
<1>5. CASE ResetSession
  BY <1>1, <1>3, <1>5, Reset
<1>6. CASE MaybeStartSpeculative
  <2> DEFINE c == Compaction(peer)
  <2>1. peer' = peer /\ peer \in Seq(Message) /\ Formed(peer) /\ Len(peer) \in Nat
    BY <1>1, <1>6 DEF MaybeStartSpeculative, Histories, History
  <2>2. \/ spec' = spec
        \/ spec' = [state |-> "running", count |-> Len(peer), first |-> c.first,
                    covers |-> c.covers]
    BY <1>6 DEF MaybeStartSpeculative
  <2>3. c.first # 0 => Takes(c, peer)
    BY <2>1, CompactionTakes DEF Coverage
  <2>4. CASE spec' = spec
    <3>1. Grown(peer', peer)
      BY <2>1, GrownSelf DEF Same
    <3> QED BY <1>4, <2>4, <3>1
  <2> HIDE DEF c
  <2>5. CASE spec' = [state |-> "running", count |-> Len(peer), first |-> c.first,
                      covers |-> c.covers]
    <3>1. spec'.count = Len(peer) /\ spec'.first = c.first /\ spec'.covers = c.covers
      BY <2>5
    <3>2. spec'.first # 0 => Takes(spec', peer)
      BY <3>1, <2>3 DEF Takes
    <3> QED BY <2>1, <3>1, <3>2 DEF Fitting
  <2> QED BY <2>2, <2>4, <2>5
<1>7. CASE SpeculativeEnds
  <2>1. peer' = peer /\ spec.state = "running"
    BY <1>7 DEF SpeculativeEnds
  <2>2. PICK s : spec' = [spec EXCEPT !.state = s]
    BY <1>7 DEF SpeculativeEnds
  <2>3. spec'.count = spec.count /\ spec'.first = spec.first /\ spec'.covers = spec.covers
    BY <1>1, <2>2 DEF Snapshot
  <2>4. spec.count <= Len(peer) /\ (spec.first # 0 /\ Fresh => Takes(spec, peer))
    BY <2>1 DEF Coverage, Fitting
  <2>5. Takes(spec, peer) => Takes(spec', peer)
    BY <2>3 DEF Takes
  <2>6. Fresh' => Fresh
    BY <2>1, <2>3 DEF Fresh
  <2>7. spec'.first # 0 /\ Fresh' => Takes(spec', peer)
    BY <2>3, <2>4, <2>5, <2>6
  <2> QED BY <2>1, <2>3, <2>4, <2>7 DEF Fitting
<1>8. spec' = spec \/ spec' = NoSpec \/ MaybeStartSpeculative \/ SpeculativeEnds
  BY <1>1, StepSpec
<1> QED BY <1>2, <1>3, <1>4, <1>5, <1>6, <1>7, <1>8

\* A step loses no message.
LEMMA StepCoverage ==
  ASSUME Safe, Coverage, [Next]_vars
  PROVE  Coverage'
<1>1. Covered(peer')
  BY PeerCovered DEF Coverage
<1>2. Fitting'
  BY StepFitting
<1>3. pc' \in InTurn => Covered(inner')
  BY InnerCovered
<1> QED BY <1>1, <1>2, <1>3 DEF Coverage

\* Nothing has been lost at the start.
LEMMA InitCoverage == ASSUME Init PROVE Coverage
<1>1. peer = <<Msg("system", 0)>> /\ pc = "idle" /\ spec = NoSpec
  BY DEF Init
<1>2. Covered(peer)
  BY <1>1, CoveredAtFirst
<1> QED BY <1>1, <1>2 DEF Coverage, Fitting, NoSpec, InTurn

-----------------------------------------------------------------------------
(* The session of a turn has what the history of the peer has.              *)

\* The session of a turn has all that the history of the peer has.
Carried == pc \in InTurn => \A i \in 1..Len(peer) : Says(inner, peer[i].n)

\* A step leaves it so.
LEMMA StepCarried ==
  ASSUME Safe, Carried, [Next]_vars
  PROVE  Carried'
<1>1. Typed /\ Histories /\ Snapshot /\ Batched
  BY DEF Safe
<1> SUFFICES ASSUME pc' \in InTurn, NEW i \in 1..Len(peer')
             PROVE  Says(inner', peer'[i].n)
  BY DEF Carried, Says
<1>2. ASSUME pc \in InTurn, peer' = peer, Grown(inner', inner)
      PROVE  Says(inner', peer'[i].n)
  <2>1. inner \in Seq(Message) /\ Says(inner, peer[i].n)
    BY <1>1, <1>2 DEF Carried, Histories, History
  <2> QED BY <1>2, <2>1, SaysGrown
<1>3. CASE Still
  <2>1. pc \in InTurn /\ peer' = peer /\ inner' = inner
    BY <1>3 DEF Still
  <2> QED BY <2>1 DEF Carried
<1>4. CASE Opens \/ Ends \/ ResetSession
  <2>1. "idle" \notin InTurn
    BY DEF InTurn
  <2>2. ResetSession => pc' = "idle"
    BY <1>1, Reset
  <2> QED BY <1>4, <2>1, <2>2 DEF Opens, Ends
<1>5. CASE Seeds
  <2>1. peer' = peer /\ Same(Seed(peer), peer) /\ Grown(inner', Seed(peer))
    BY <1>5 DEF Seeds, Follows
  <2>2. i \in 1..Len(peer) /\ peer'[i] = peer[i] /\ Len(peer) \in Nat
    BY <1>1, <2>1 DEF Histories, History
  <2>3. Seed(peer)[i].n = peer[i].n /\ i \in 1..Len(Seed(peer)) /\ Seed(peer) \in Seq(Message)
    BY <2>1, <2>2 DEF Same, Grown, Kept
  <2>4. Says(Seed(peer), peer[i].n)
    BY <2>3 DEF Says
  <2> QED BY <2>1, <2>2, <2>3, <2>4, SaysGrown
<1>6. CASE Grows
  BY <1>2, <1>6 DEF Grows, Follows
<1>7. CASE AppendResults \/ \E b \in Batches : AnswerCalls(b)
  <2>1. pc \in InTurn /\ peer' = peer /\ Grown(inner', inner)
    BY <1>1, <1>7, AppendResultsIs, AskedHistory
  <2> QED BY <1>2, <2>1
<1>8. CASE MirrorMessage
  <2> DEFINE m == inner[cursor + 1]
  <2>1. /\ m \in Message /\ cursor + 1 \in 2..Len(inner) /\ inner' = inner /\ pc \in InTurn
        /\ Mirrored(m) => peer' = Append(peer, Mirror(m))
        /\ ~Mirrored(m) => peer' = peer
    BY <1>1, <1>8, MirrorHistory
  <2>2. peer \in Seq(Message) /\ Len(peer) \in Nat /\ inner \in Seq(Message)
    BY <1>1, <2>1 DEF Histories, History
  <2>3. Mirror(m) \in Message /\ Mirror(m).n = m.n
    BY <2>1, MirrorIs DEF Alike
  <2>4. Says(inner, m.n)
    BY <2>1, <2>2 DEF Says
  <2> HIDE DEF m
  <2>5. CASE ~Mirrored(m)
    BY <2>1, <2>5 DEF Carried
  <2>6. CASE Mirrored(m)
    <3>1. peer' = Append(peer, Mirror(m)) /\ Len(peer') = Len(peer) + 1
      BY <2>1, <2>2, <2>3, <2>6, Appended
    <3>2. CASE i \in 1..Len(peer)
      <4>1. peer'[i] = peer[i]
        BY <2>2, <2>3, <3>1, <3>2, Appended
      <4> QED BY <2>1, <3>2, <4>1 DEF Carried
    <3>3. CASE i = Len(peer) + 1
      <4>1. peer'[i] = Mirror(m)
        BY <2>2, <2>3, <3>1, <3>3, Appended
      <4> QED BY <2>1, <2>3, <2>4, <4>1
    <3> QED BY <2>2, <3>1, <3>2, <3>3
  <2> QED BY <2>5, <2>6
<1>9. \/ Still \/ Opens \/ Seeds \/ Grows \/ Ends
      \/ AppendResults \/ MirrorMessage \/ ResetSession
      \/ \E b \in Batches : AnswerCalls(b)
  BY <1>1, StepWay
<1> QED BY <1>9, <1>3, <1>4, <1>5, <1>6, <1>7, <1>8

\* Neither the peer nor the turn has anything that the request does not tell.
LEMMA AllTold ==
  ASSUME Safe, Coverage, Carried
  PROVE  RequestTellsAll
<1> SUFFICES ASSUME Asking, NEW m \in Range(peer) \cup Range(inner)
             PROVE  m.n \in Told(TurnRequest(inner)) \cup Cleared(peer) \cup Cleared(inner) \cup {0}
  BY DEF RequestTellsAll
<1>1. pc \in InTurn
  BY DEF Asking, InTurn
<1>2. peer \in Seq(Message) /\ inner \in Seq(Message) /\ Formed(inner) /\ Covered(inner)
  BY <1>1 DEF Safe, Histories, History, Coverage
<1>3. \A j \in 1..Len(inner) :
        inner[j].n \in Told(TurnRequest(inner)) \cup Cleared(inner) \cup {0}
  BY <1>2, RequestTold
<1>4. CASE m \in Range(inner)
  <2>1. PICK j \in 1..Len(inner) : m = inner[j]
    BY <1>2, <1>4 DEF Range
  <2> QED BY <1>3, <2>1
<1>5. CASE m \in Range(peer)
  <2>1. PICK i \in 1..Len(peer) : m = peer[i]
    BY <1>2, <1>5 DEF Range
  <2>2. PICK j \in 1..Len(inner) : inner[j].n = peer[i].n
    BY <1>1, <2>1 DEF Carried, Says
  <2> QED BY <1>3, <2>1, <2>2
<1> QED BY <1>4, <1>5

-----------------------------------------------------------------------------
(* Nothing that was forgotten comes back.                                   *)

\* The texts that wait for the turn or were given to it.
Mail == inbox \cup promoted \cup pending \cup {prompt}

\* A step that leaves them alone, and one that only takes some away.
SameMail == UNCHANGED <<inbox, promoted, pending, prompt>>
LessMail == /\ inbox' \subseteq inbox /\ promoted' \subseteq promoted
            /\ pending' = {} /\ prompt' \in {prompt, 0}

\* What a step does to these texts
LEMMA StepMail ==
  ASSUME [Next]_vars
  PROVE  \/ SameMail \/ (Drain /\ prompt' = prompt) \/ LessMail
         \/ AddPrompt \/ Steer \/ ResetSession
<1>1. StepOf
  BY Steps
<1>2. CASE CheckAndCompress \/ MaybeStartSpeculative \/ StopCancelled \/ StreamFails
           \/ SpeculativeEnds \/ Cancel
  BY <1>2 DEF CheckAndCompress, MaybeStartSpeculative, StopCancelled, StreamFails,
              SpeculativeEnds, Cancel, peerVars, turnVars, SameMail
<1>3. CASE IterationLimit \/ CompactIfNeeded \/ EnsureContextFits \/ RecoverFromOverflow
  BY <1>3 DEF IterationLimit, CompactIfNeeded, EnsureContextFits, RecoverFromOverflow,
              KeepMail, KeepMirror, SameMail
<1>4. CASE RunCall \/ AppendResults \/ MirrorMessage
  BY <1>4 DEF RunCall, AppendResults, MirrorMessage, KeepMail, KeepMirror, SameMail
<1>5. CASE SeedTurn
  BY <1>5 DEF SeedTurn, SameMail
<1>6. CASE LeaveLoop \/ EndRound
  BY <1>6 DEF LeaveLoop, EndRound, KeepMirror
<1>7. CASE BeginRound
  BY <1>7 DEF BeginRound, KeepMail, KeepMirror, LessMail
<1>8. CASE AnswerText \/ AnswerCutOff
  BY <1>8, AnswerKeeps DEF AnswerText, AnswerCutOff
<1>9. CASE AnswerBroken
  BY <1>9, AnswerKeeps DEF AnswerBroken, KeepMail, SameMail
<1>10. CASE \E b \in Batches : AnswerCalls(b)
  <2>1. PICK b \in Batches : AnswerCalls(b)
    BY <1>10
  <2>2. prompt' = prompt
    BY <2>1, AnswerKeeps DEF AnswerCalls
  <2>3. Drain \/ (UNCHANGED pending /\ KeepMail)
    BY <2>1 DEF AnswerCalls
  <2> QED BY <2>2, <2>3 DEF KeepMail, SameMail
<1>11. CASE EndTurn \/ Crash
  BY <1>11 DEF EndTurn, Crash, Discard, LessMail
<1>12. CASE UNCHANGED vars
  BY <1>12 DEF vars, peerVars, turnVars, SameMail
<1> QED BY <1>1, <1>2, <1>3, <1>4, <1>5, <1>6, <1>7, <1>8, <1>9, <1>10, <1>11, <1>12 DEF StepOf

\* Between two turns nothing waits and there is no prompt.
LEMMA StepIdle ==
  ASSUME [Next]_vars, pc' = "idle"
  PROVE  (pc = "idle" /\ UNCHANGED <<pending, prompt>>) \/ (pending' = {} /\ prompt' = 0)
<1>1. StepOf
  BY Steps
<1>2. CASE EndTurn \/ Crash
  BY <1>2 DEF EndTurn, Crash, Discard
<1>3. CASE ResetSession \/ SpeculativeEnds \/ Steer \/ Cancel \/ UNCHANGED vars
  BY <1>3 DEF ResetSession, SpeculativeEnds, Steer, Cancel, vars, turnVars
<1>4. CASE AddPrompt \/ CheckAndCompress \/ MaybeStartSpeculative \/ SeedTurn \/ LeaveLoop
           \/ StopCancelled \/ IterationLimit
  BY <1>4 DEF AddPrompt, CheckAndCompress, MaybeStartSpeculative, SeedTurn, LeaveLoop,
              StopCancelled, IterationLimit
<1>5. CASE BeginRound \/ CompactIfNeeded \/ EnsureContextFits \/ RecoverFromOverflow \/ StreamFails
  BY <1>5 DEF BeginRound, CompactIfNeeded, EnsureContextFits, RecoverFromOverflow, StreamFails
<1>6. CASE AnswerText \/ AnswerCutOff \/ AnswerBroken \/ \E b \in Batches : AnswerCalls(b)
  BY <1>6 DEF AnswerText, AnswerCutOff, AnswerBroken, AnswerCalls
<1>7. CASE RunCall \/ AppendResults \/ MirrorMessage \/ EndRound
  BY <1>7 DEF RunCall, AppendResults, MirrorMessage, Mirroring, EndRound
<1> QED BY <1>1, <1>2, <1>3, <1>4, <1>5, <1>6, <1>7 DEF StepOf

\* Prompts and steered texts are counted, and only a reset forgets.
LEMMA StepPast ==
  ASSUME [Next]_vars
  PROVE  /\ (turns' = turns \/ AddPrompt) /\ (steers' = steers \/ Steer)
         /\ forgotten' = forgotten \/ ResetSession
<1>1. StepOf
  BY Steps
<1>2. CASE AddPrompt \/ Steer
  BY <1>2 DEF AddPrompt, Steer
<1>3. CASE CheckAndCompress \/ MaybeStartSpeculative \/ SeedTurn \/ LeaveLoop
           \/ StopCancelled \/ BeginRound \/ StreamFails
  BY <1>3 DEF CheckAndCompress, MaybeStartSpeculative, SeedTurn, LeaveLoop,
              StopCancelled, BeginRound, StreamFails, pastVars
<1>4. CASE IterationLimit \/ CompactIfNeeded \/ EnsureContextFits \/ RecoverFromOverflow
           \/ RunCall
  BY <1>4 DEF IterationLimit, CompactIfNeeded, EnsureContextFits, RecoverFromOverflow,
              RunCall, KeepPast
<1>5. CASE AppendResults \/ MirrorMessage \/ EndRound \/ EndTurn \/ SpeculativeEnds
  BY <1>5 DEF AppendResults, MirrorMessage, EndRound, EndTurn, SpeculativeEnds, pastVars
<1>6. CASE AnswerText \/ AnswerCutOff \/ AnswerBroken
  BY <1>6, AnswerKeeps DEF AnswerText, AnswerCutOff, AnswerBroken
<1>7. CASE \E b \in Batches : AnswerCalls(b)
  BY <1>7, AnswerKeeps DEF AnswerCalls
<1>8. CASE Cancel \/ Crash
  BY <1>8 DEF Cancel, Crash
<1>9. CASE ResetSession
  BY <1>9 DEF ResetSession
<1>10. CASE UNCHANGED vars
  BY <1>10 DEF vars, pastVars
<1> QED BY <1>1, <1>2, <1>3, <1>4, <1>5, <1>6, <1>7, <1>8, <1>9, <1>10 DEF StepOf

\* Everything said so far, by its number.
Given == (1..turns) \cup ((MaxTurns + 1)..(MaxTurns + steers))
         \cup ((MaxTurns + MaxSteers + 1)..serial)

\* No part of the peer, of its turn or of its speculative compaction tells of what was forgotten.
Forgetful ==
  /\ forgotten \subseteq Given
  /\ \A x \in forgotten : ~Tells(peer, x)
  /\ \A x \in forgotten : ~Tells(inner, x)
  /\ \A x \in forgotten : ~Tells(results, x)
  /\ \A x \in forgotten : x \notin spec.covers
  /\ \A x \in forgotten : x \notin Mail
  /\ pc = "idle" => pending = {} /\ prompt = 0

\* What has not been said yet has not been forgotten.
LEMMA NotGiven ==
  ASSUME Typed, NEW x \in Given
  PROVE  /\ x \in Nat /\ x # 0 /\ x <= serial
         /\ turns < MaxTurns => x # turns + 1
         /\ steers < MaxSteers => x # MaxTurns + steers + 1
<1>1. /\ MaxTurns \in Nat /\ MaxSteers \in Nat /\ turns \in 0..MaxTurns /\ steers \in 0..MaxSteers
      /\ serial \in Nat /\ MaxTurns + MaxSteers <= serial
  BY SettingIs DEF Typed
<1>2. CASE x \in 1..turns
  BY <1>1, <1>2
<1>3. CASE x \in (MaxTurns + 1)..(MaxTurns + steers)
  BY <1>1, <1>3
<1>4. CASE x \in (MaxTurns + MaxSteers + 1)..serial
  BY <1>1, <1>4
<1> QED BY <1>2, <1>3, <1>4 DEF Given

\* What has been said stays said.
LEMMA GivenGrows ==
  ASSUME Typed, [Next]_vars, NEW x \in Given
  PROVE  x \in Given'
<1>1. /\ MaxTurns \in Nat /\ MaxSteers \in Nat /\ turns \in 0..MaxTurns /\ steers \in 0..MaxSteers
      /\ serial \in Nat
  BY SettingIs DEF Typed
<1>2. MaxTurns' = MaxTurns /\ MaxSteers' = MaxSteers
  BY Steps DEF MaxTurns, MaxSteers
<1>3. serial' \in Nat /\ serial <= serial'
  BY SerialGrows
<1>4. turns' = turns \/ turns' = turns + 1
  BY StepPast DEF AddPrompt
<1>5. steers' = steers \/ steers' = steers + 1
  BY StepPast DEF Steer
<1>6. CASE x \in 1..turns
  <2>1. x \in 1..turns'
    BY <1>1, <1>4, <1>6
  <2> QED BY <2>1 DEF Given
<1>7. CASE x \in (MaxTurns + 1)..(MaxTurns + steers)
  <2>1. x \in (MaxTurns' + 1)..(MaxTurns' + steers')
    BY <1>1, <1>2, <1>5, <1>7
  <2> QED BY <2>1 DEF Given
<1>8. CASE x \in (MaxTurns + MaxSteers + 1)..serial
  <2>1. x \in (MaxTurns' + MaxSteers' + 1)..serial'
    BY <1>1, <1>2, <1>3, <1>8
  <2> QED BY <2>1 DEF Given
<1> QED BY <1>6, <1>7, <1>8 DEF Given

\* What a turn may still say has not been forgotten.
LEMMA SaidNotForgotten ==
  ASSUME Typed, Forgetful, NEW x \in forgotten
  PROVE  x \notin Said /\ x # 0
<1>1. x \in Given /\ x \notin Mail /\ serial \in Nat
  BY DEF Forgetful, Typed
<1>2. x \in Nat /\ x # 0 /\ x <= serial
  BY <1>1, NotGiven
<1>3. ~(x > serial)
  BY <1>1, <1>2
<1> QED BY <1>1, <1>2, <1>3 DEF Said, Mail

\* A step brings nothing forgotten back into the history of the peer,
LEMMA PeerForgets ==
  ASSUME Safe, Coverage, Forgetful, [Next]_vars, NEW x \in forgotten
  PROVE  ~Tells(peer', x)
<1>1. Typed /\ Histories /\ Snapshot /\ Batched
  BY DEF Safe
<1>2. /\ ~Tells(peer, x) /\ ~Tells(inner, x) /\ x \notin spec.covers /\ x \in Given
      /\ x \notin Said /\ x # 0
  BY <1>1, SaidNotForgotten DEF Forgetful
<1>3. peer' = peer => ~Tells(peer', x)
  BY <1>2
<1>4. CASE Still \/ Seeds \/ Grows
  BY <1>3, <1>4 DEF Still, Seeds, Grows
<1>5. CASE Opens
  <2>1. CASE AddPrompt
    <3>1. TellsNoMore(peer', peer, {turns + 1})
      BY <2>1, AddPromptExtends DEF Extends
    <3>2. x # turns + 1
      BY <1>1, <1>2, <2>1, NotGiven DEF AddPrompt
    <3> QED BY <1>2, <3>1, <3>2 DEF TellsNoMore
  <2>2. CASE CheckAndCompress
    <3>1. TellsNoMore(peer', peer, spec.covers)
      BY <2>2, CompressTells DEF Coverage
    <3> QED BY <1>2, <3>1 DEF TellsNoMore
  <2> QED BY <1>5, <2>1, <2>2 DEF Opens
<1>6. CASE Ends
  <2>1. TellsNoMore(peer', peer, Said)
    BY <1>6 DEF Ends, Extends
  <2> QED BY <1>2, <2>1 DEF TellsNoMore
<1>7. CASE AppendResults \/ \E b \in Batches : AnswerCalls(b)
  BY <1>1, <1>3, <1>7, AppendResultsIs, AskedHistory
<1>8. CASE MirrorMessage
  <2>1. cursor + 1 \in 1..Len(inner)
    BY <1>1, <1>8, MirrorHistory
  <2>2. x # inner[cursor + 1].n /\ x \notin inner[cursor + 1].covers
    BY <1>2, <2>1 DEF Tells
  <2>3. Tells(peer', x) => Tells(peer, x) \/ x = inner[cursor + 1].n
                           \/ x \in inner[cursor + 1].covers
    BY <1>8, MirrorCovered
  <2> QED BY <1>2, <2>2, <2>3
<1>9. CASE ResetSession
  <2>1. Len(peer') = 1 /\ peer'[1].n = 0 /\ peer'[1].covers = {}
    BY <1>1, <1>9, Reset
  <2> QED BY <1>2, <2>1 DEF Tells
<1>10. \/ Still \/ Opens \/ Seeds \/ Grows \/ Ends
       \/ AppendResults \/ MirrorMessage \/ ResetSession
       \/ \E b \in Batches : AnswerCalls(b)
  BY <1>1, StepWay
<1> QED BY <1>10, <1>4, <1>5, <1>6, <1>7, <1>8, <1>9

\* nor, by the calls of an answer, into the session of the turn,
LEMMA AskedForgets ==
  ASSUME Typed, Histories, Forgetful, NEW sigs \in Batches, AnswerCalls(sigs), NEW x \in forgotten
  PROVE  ~Tells(inner', x)
<1>1. serial \in Nat /\ History(inner)
  BY AskedHistory DEF Typed
<1>2. ~Tells(inner, x) /\ x \notin Said /\ x # 0
  BY SaidNotForgotten DEF Forgetful
<1>3. x \in Nat /\ x <= serial
  BY NotGiven DEF Forgetful
<1>4. PICK g : /\ Follows(g, inner) /\ Extends(g, inner, Said)
               /\ inner' = Append(g, Asked(sigs)) \o Notes(sigs)
  BY <1>1, AnswerCallsIs
<1> DEFINE m == Asked(sigs)
           z == Notes(sigs)
<1>5. m \in Message /\ m.n = serial + 2 /\ m.covers = {}
  BY <1>1, AskedIs
<1>6. z \in Seq(Message) /\ \A k \in 1..Len(z) : k \in Nat /\ z[k].n = serial + 2 + k /\ z[k].covers = {}
  BY <1>1, NotesAre
<1> HIDE DEF m, z
<1>7. g \in Seq(Message) /\ ~Tells(g, x)
  BY <1>2, <1>4 DEF Extends, Follows, History, TellsNoMore
<1>8. ~Tells(z, x)
  <2>1. ASSUME NEW k \in 1..Len(z) PROVE z[k].n # x
    BY <1>1, <1>3, <1>6
  <2> QED BY <1>6, <2>1 DEF Tells
<1>9. x # m.n
  BY <1>1, <1>3, <1>5
<1> DEFINE f == Append(g, m)
<1>10. f \in Seq(Message) /\ Len(f) = Len(g) + 1 /\ Len(g) \in Nat
       /\ f[Len(g) + 1] = m
  BY <1>5, <1>7, Appended
<1>11. \A i \in 1..Len(g) : f[i] = g[i]
  BY <1>5, <1>7, Appended
<1> HIDE DEF f
<1>12. ASSUME NEW i \in 1..Len(f) PROVE f[i].n # x /\ x \notin f[i].covers
  <2>1. CASE i \in 1..Len(g)
    BY <1>7, <1>11, <2>1 DEF Tells
  <2>2. CASE i = Len(g) + 1
    BY <1>5, <1>9, <1>10, <2>2
  <2> QED BY <1>10, <2>1, <2>2
<1>13. ~Tells(f, x)
  BY <1>12 DEF Tells
<1>14. ~Tells(f \o z, x)
  BY <1>6, <1>8, <1>10, <1>13, TellsJoined
<1> QED BY <1>4, <1>14 DEF f, m, z

\* or by any other step;
LEMMA InnerForgets ==
  ASSUME Safe, Forgetful, [Next]_vars, NEW x \in forgotten
  PROVE  ~Tells(inner', x)
<1>1. Typed /\ Histories /\ Snapshot /\ Batched
  BY DEF Safe
<1>2. /\ ~Tells(peer, x) /\ ~Tells(inner, x) /\ ~Tells(results, x)
      /\ x \notin Said /\ x # 0
  BY <1>1, SaidNotForgotten DEF Forgetful
<1>3. inner' = inner => ~Tells(inner', x)
  BY <1>2
<1>4. CASE Still \/ Opens
  BY <1>3, <1>4 DEF Still, Opens
<1>5. CASE Seeds
  <2>1. Same(Seed(peer), peer) /\ TellsNoMore(inner', Seed(peer), Said) /\ peer \in Seq(Message)
    BY <1>1, <1>5 DEF Seeds, Extends, Histories, History
  <2>2. ~Tells(Seed(peer), x)
    BY <1>2, <2>1, TellsSame
  <2> QED BY <1>2, <2>1, <2>2 DEF TellsNoMore
<1>6. CASE Grows
  <2>1. TellsNoMore(inner', inner, Said)
    BY <1>6 DEF Grows, Extends
  <2> QED BY <1>2, <2>1 DEF TellsNoMore
<1>7. CASE Ends
  <2>1. inner' = <<>>
    BY <1>7 DEF Ends
  <2> QED BY <2>1 DEF Tells
<1>8. CASE AppendResults
  <2>1. inner' = inner \o results
    BY <1>8 DEF AppendResults
  <2>2. inner \in Seq(Message) /\ results \in Seq(Message)
    BY <1>1, <1>8, AppendResultsIs DEF Batched, History
  <2> QED BY <1>2, <2>1, <2>2, TellsJoined
<1>9. CASE MirrorMessage
  BY <1>1, <1>3, <1>9, MirrorHistory
<1>10. CASE ResetSession
  BY <1>1, <1>3, <1>10, Reset
<1>11. CASE \E b \in Batches : AnswerCalls(b)
  BY <1>1, <1>11, AskedForgets
<1>12. \/ Still \/ Opens \/ Seeds \/ Grows \/ Ends
       \/ AppendResults \/ MirrorMessage \/ ResetSession
       \/ \E b \in Batches : AnswerCalls(b)
  BY <1>1, StepWay
<1> QED BY <1>12, <1>4, <1>5, <1>6, <1>7, <1>8, <1>9, <1>10, <1>11

\* nor into the results of its batch,
LEMMA ResultsForget ==
  ASSUME Safe, Forgetful, [Next]_vars, NEW x \in forgotten
  PROVE  ~Tells(results', x)
<1>1. Typed /\ Batched /\ serial \in Nat
  BY DEF Safe, Typed
<1>2. ~Tells(results, x) /\ x \in Nat /\ x <= serial
  BY <1>1, NotGiven DEF Forgetful
<1>3. CASE Aside
  BY <1>2, <1>3 DEF Aside
<1>4. CASE results' = <<>>
  BY <1>4 DEF Tells
<1>5. CASE RunCall
  <2>1. Plainly(results') /\ Plainly(results)
    BY <1>1, <1>5, RunCallIs DEF Batched
  <2>2. results' \in Seq(Message)
    BY <1>1, <1>5, RunCallIs DEF Batched
  <2>3. \A k \in 1..Len(results') :
          results'[k].n > serial \/ \E j \in 1..Len(results) : results'[k].n = results[j].n
    BY <1>1, <1>5, RunCallIs DEF Batched
  <2>4. ASSUME NEW k \in 1..Len(results') PROVE results'[k].n # x /\ x \notin results'[k].covers
    <3>1. CASE results'[k].n > serial
      BY <1>1, <1>2, <2>1, <3>1 DEF Plainly
    <3>2. CASE \E j \in 1..Len(results) : results'[k].n = results[j].n
      BY <1>2, <2>1, <3>2 DEF Plainly, Tells
    <3> QED BY <2>3, <3>1, <3>2
  <2> QED BY <2>4 DEF Tells
<1>6. CASE Discard \/ AppendResults
  BY <1>4, <1>6 DEF Discard, AppendResults
<1>7. CASE \E b \in Batches : AnswerCalls(b)
  BY <1>4, <1>7 DEF AnswerCalls
<1> QED BY <1>1, <1>3, <1>5, <1>6, <1>7, StepAside

\* nor into what a speculative compaction took up,
LEMMA SpecForgets ==
  ASSUME Safe, Forgetful, [Next]_vars, NEW x \in forgotten
  PROVE  x \notin spec'.covers
<1>1. Typed /\ Histories /\ Snapshot
  BY DEF Safe
<1>2. x \notin spec.covers /\ ~Tells(peer, x)
  BY DEF Forgetful
<1>3. CASE spec' = spec \/ spec' = NoSpec
  BY <1>2, <1>3 DEF NoSpec
<1>4. CASE MaybeStartSpeculative
  <2> DEFINE c == Compaction(peer)
  <2>1. peer \in Seq(Message)
    BY <1>1 DEF Histories, History
  <2>2. x \notin c.covers
    BY <1>2, <2>1, CompactionTells
  <2>3. spec' = spec \/ spec'.covers = c.covers
    BY <1>4 DEF MaybeStartSpeculative
  <2> QED BY <1>2, <2>2, <2>3
<1>5. CASE SpeculativeEnds
  <2>1. spec'.covers = spec.covers
    BY <1>1, <1>5 DEF SpeculativeEnds, Snapshot
  <2> QED BY <1>2, <2>1
<1> QED BY <1>1, <1>3, <1>4, <1>5, StepSpec

\* nor into what the turn waits for.
LEMMA MailForgets ==
  ASSUME Safe, Forgetful, [Next]_vars, NEW x \in forgotten
  PROVE  x \notin Mail'
<1>1. Typed
  BY DEF Safe
<1>2. x \notin Mail /\ x # 0
  BY <1>1, SaidNotForgotten DEF Forgetful
<1>3. x \notin inbox /\ x \notin promoted /\ x \notin pending /\ x # prompt
  BY <1>2 DEF Mail
<1>4. CASE SameMail
  BY <1>3, <1>4 DEF SameMail, Mail
<1>5. CASE Drain /\ prompt' = prompt
  BY <1>3, <1>5 DEF Drain, Mail
<1>6. CASE LessMail
  BY <1>2, <1>3, <1>6 DEF LessMail, Mail
<1>7. CASE AddPrompt
  <2>1. x # turns + 1
    BY <1>1, <1>7, NotGiven DEF AddPrompt, Forgetful
  <2> QED BY <1>3, <1>7, <2>1 DEF AddPrompt, Mail
<1>8. CASE Steer
  <2>1. x # MaxTurns + (steers + 1)
    <3>1. x # MaxTurns + steers + 1
      BY <1>1, <1>8, NotGiven DEF Steer, Forgetful
    <3>2. MaxTurns \in Nat /\ steers \in Nat
      BY <1>1, SettingIs DEF Typed
    <3> QED BY <3>1, <3>2
  <2>2. /\ inbox' = inbox \cup {MaxTurns + (steers + 1)} /\ promoted' = promoted
        /\ pending' = pending /\ prompt' = prompt
    BY <1>8 DEF Steer, turnVars
  <2> QED BY <1>3, <2>1, <2>2 DEF Mail
<1>9. CASE ResetSession
  <2>1. inbox' = {} /\ promoted' = {} /\ pending' = pending /\ prompt' = prompt
    BY <1>9 DEF ResetSession, turnVars
  <2> QED BY <1>3, <2>1 DEF Mail
<1> QED BY <1>4, <1>5, <1>6, <1>7, <1>8, <1>9, StepMail

\* Every step keeps Forgetful.
LEMMA StepForgetful ==
  ASSUME Safe, Coverage, Forgetful, [Next]_vars
  PROVE  Forgetful'
<1>1. Typed /\ Histories /\ Batched
  BY DEF Safe
<1>2. pc' = "idle" => pending' = {} /\ prompt' = 0
  BY StepIdle DEF Forgetful
<1>3. CASE forgotten' = forgotten
  <2>1. forgotten' \subseteq Given'
    BY <1>1, <1>3, GivenGrows DEF Forgetful
  <2>2. \A x \in forgotten' : ~Tells(peer', x) /\ ~Tells(inner', x) /\ ~Tells(results', x)
    BY <1>3, PeerForgets, InnerForgets, ResultsForget
  <2>3. \A x \in forgotten' : x \notin spec'.covers /\ x \notin Mail'
    BY <1>3, SpecForgets, MailForgets
  <2> QED BY <1>2, <2>1, <2>2, <2>3 DEF Forgetful
<1>4. CASE ResetSession
  <2>1. forgotten' = Given /\ UNCHANGED <<results, pending, prompt>> /\ inbox' = {} /\ promoted' = {}
    BY <1>4 DEF ResetSession, Given, turnVars
  <2>2. /\ Len(peer') = 1 /\ peer'[1].n = 0 /\ peer'[1].covers = {}
        /\ spec' = NoSpec /\ pc = "idle" /\ inner' = inner
    BY <1>1, <1>4, Reset
  <2>3. inner = <<>> /\ results = <<>> /\ pending = {} /\ prompt = 0
    BY <1>1, <2>2 DEF Histories, Batched, InTurn, Forgetful
  <2>4. \A x \in Given : x # 0
    BY <1>1, NotGiven
  <2>5. forgotten' \subseteq Given'
    BY <1>1, <2>1, GivenGrows
  <2>6. \A x \in forgotten' : ~Tells(peer', x) /\ ~Tells(inner', x) /\ ~Tells(results', x)
    BY <2>1, <2>2, <2>3, <2>4 DEF Tells
  <2>7. \A x \in forgotten' : x \notin spec'.covers
    BY <2>2 DEF NoSpec
  <2>8. \A x \in forgotten' : x \notin Mail'
    BY <2>1, <2>3, <2>4 DEF Mail
  <2> QED BY <1>2, <2>5, <2>6, <2>7, <2>8 DEF Forgetful
<1> QED BY <1>3, <1>4, StepPast

\* Nothing is forgotten at first.
LEMMA InitForgetful == ASSUME Init PROVE Forgetful
BY DEF Init, Forgetful

\* so no history tells of it.
LEMMA ForgetfulForgets == ASSUME Safe, Forgetful PROVE ResetForgets
<1>1. DOMAIN peer = 1..Len(peer)
  BY DEF Safe, Histories, History
<1> SUFFICES ASSUME NEW i \in 1..Len(peer), NEW x \in forgotten
             PROVE  x # peer[i].n /\ x \notin peer[i].covers
  BY <1>1 DEF ResetForgets
<1> QED BY DEF Forgetful, Tells

-----------------------------------------------------------------------------
(* A turn starts from the history of its peer.                              *)

\* The places of a round
Rounds == {"prepare", "fit", "stream", "retry", "batch", "checkpoint"}

\* Until its first round begins, a turn has the history of the peer as the first part
\* of its own.
Starts ==
  /\ pc \in Rounds => tc.iterations >= 1
  /\ pc = "loop" /\ tc.iterations = 0 =>
       cursor = Len(peer) /\ \A i \in 1..cursor : Alike(inner[i], peer[i])

\* What a step does to the number of rounds
LEMMA StepRounds ==
  ASSUME Typed, [Next]_vars
  PROVE  /\ pc' \in Rounds => (pc \in Rounds /\ tc'.iterations = tc.iterations) \/ BeginRound
         /\ pc' = "loop" => \/ pc = "loop" /\ UNCHANGED <<peer, inner, cursor, tc>>
                            \/ SeedTurn
                            \/ pc \in Rounds /\ tc'.iterations = tc.iterations
<1>1. StepOf /\ tc \in Contexts
  BY Steps DEF Typed
<1>2. CASE AddPrompt \/ CheckAndCompress \/ MaybeStartSpeculative
  BY <1>2 DEF AddPrompt, CheckAndCompress, MaybeStartSpeculative, Rounds
<1>3. CASE SeedTurn \/ BeginRound
  BY <1>3 DEF SeedTurn, BeginRound, Rounds
<1>4. CASE LeaveLoop \/ StopCancelled \/ IterationLimit
  BY <1>4 DEF LeaveLoop, StopCancelled, IterationLimit, Rounds, KeepPeer, KeepMirror
<1>5. CASE CompactIfNeeded \/ EnsureContextFits \/ RecoverFromOverflow
  BY <1>5 DEF CompactIfNeeded, EnsureContextFits, RecoverFromOverflow, KeepRound, Rounds
<1>6. CASE StreamFails
  BY <1>6 DEF StreamFails, Rounds
<1>7. CASE AnswerText \/ AnswerCutOff \/ AnswerBroken
  <2>1. pc \in Rounds
    BY <1>7, AnswerKeeps DEF AnswerText, AnswerCutOff, AnswerBroken, Rounds
  <2>2. tc'.iterations = tc.iterations
    BY <1>1, <1>7 DEF AnswerText, AnswerCutOff, AnswerBroken, Contexts
  <2> QED BY <2>1, <2>2
<1>8. CASE \E b \in Batches : AnswerCalls(b)
  <2>1. PICK b \in Batches : AnswerCalls(b)
    BY <1>8
  <2>2. pc \in Rounds
    BY <2>1, AnswerKeeps DEF AnswerCalls, Rounds
  <2>3. tc' = [tc EXCEPT !.executed = @ \cup Range(b)]
    BY <2>1 DEF AnswerCalls
  <2>4. tc'.iterations = tc.iterations
    BY <1>1, <2>3 DEF Contexts
  <2> QED BY <2>2, <2>4
<1>9. CASE RunCall \/ AppendResults \/ EndRound
  BY <1>9 DEF RunCall, AppendResults, EndRound, KeepRound, Rounds
<1>10. CASE MirrorMessage
  BY <1>10 DEF MirrorMessage, Mirroring, KeepRound, Rounds
<1>11. CASE EndTurn \/ Crash
  BY <1>11 DEF EndTurn, Crash, Discard, Rounds
<1>12. CASE SpeculativeEnds \/ Steer \/ Cancel \/ ResetSession
  BY <1>12 DEF SpeculativeEnds, Steer, Cancel, ResetSession, turnVars, peerVars, Rounds
<1>13. CASE UNCHANGED vars
  BY <1>13 DEF vars, turnVars, peerVars
<1> QED BY <1>1, <1>2, <1>3, <1>4, <1>5, <1>6, <1>7, <1>8, <1>9, <1>10, <1>11, <1>12, <1>13 DEF StepOf

\* Every step keeps Starts.
LEMMA StepStarts ==
  ASSUME Safe, Starts, [Next]_vars
  PROVE  Starts'
<1>1. Typed /\ Histories /\ tc \in Contexts
  BY DEF Safe, Typed
<1>2. pc' \in Rounds => tc'.iterations >= 1
  <2>1. CASE pc \in Rounds /\ tc'.iterations = tc.iterations
    BY <2>1 DEF Starts
  <2>2. CASE BeginRound
    <3>1. tc'.iterations = tc.iterations + 1 /\ tc.iterations \in Nat
      BY <1>1, <2>2, SettingIs DEF BeginRound, Count, Contexts
    <3> QED BY <3>1
  <2> QED BY <1>1, <2>1, <2>2, StepRounds
<1>3. ASSUME pc' = "loop", tc'.iterations = 0
      PROVE  cursor' = Len(peer') /\ \A i \in 1..cursor' : Alike(inner'[i], peer'[i])
  <2>1. CASE pc = "loop" /\ UNCHANGED <<peer, inner, cursor, tc>>
    BY <1>3, <2>1 DEF Starts
  <2>2. CASE SeedTurn
    <3>1. peer' = peer /\ cursor' = Len(peer) /\ Continues(inner', Seed(peer))
      BY <1>1, <2>2, SeedTurnSeeds DEF Seeds
    <3>2. Marked(Seed(peer), peer)
      BY <1>1, SeedIs DEF Histories, History
    <3>3. \A i \in 1..Len(peer) : inner'[i] = Seed(peer)[i] /\ Alike(Seed(peer)[i], peer[i])
      BY <3>1, <3>2 DEF Continues, Marked
    <3> QED BY <3>1, <3>3
  <2>3. CASE pc \in Rounds /\ tc'.iterations = tc.iterations
    <3>1. tc.iterations >= 1 /\ tc.iterations = 0
      BY <1>3, <2>3 DEF Starts
    <3> QED BY <3>1
  <2> QED BY <1>1, <1>3, <2>1, <2>2, <2>3, StepRounds
<1> QED BY <1>2, <1>3 DEF Starts

\* Starts holds at first,
LEMMA InitStarts == ASSUME Init PROVE Starts
BY DEF Init, Starts, Rounds

\* so its first request is the one the peer would have made.
LEMMA StartsSeen == ASSUME Pins = <<>>, Safe, Starts PROVE TurnSeesPeer
<1> SUFFICES ASSUME pc = "loop", tc.iterations = 0
             PROVE  Gist(TurnRequest(SubSeq(inner, 1, cursor))) = Gist(Request(peer, Pins))
  BY DEF TurnSeesPeer
<1>1. /\ inner \in Seq(Message) /\ cursor \in 1..Len(inner)
      /\ peer \in Seq(Message) /\ Formed(peer)
  BY DEF Safe, Histories, History, InTurn
<1>2. cursor = Len(peer) /\ \A i \in 1..cursor : Alike(inner[i], peer[i])
  BY DEF Starts
<1> DEFINE g == SubSeq(inner, 1, cursor)
<1>3. g \in Seq(Message) /\ Len(g) = cursor /\ \A i \in 1..cursor : g[i] = inner[i]
  BY <1>1
<1> HIDE DEF g
<1>4. Marked(g, peer)
  BY <1>2, <1>3 DEF Marked
<1>5. Gist(TurnRequest(g)) = Gist(TurnRequest(peer))
  BY <1>1, <1>4, RequestAlike
<1>6. TurnRequest(peer) = Request(peer, Pins)
  BY DEF TurnRequest
<1> QED BY <1>5, <1>6 DEF g

-----------------------------------------------------------------------------
(* What requests tell.                                                      *)

\* Everything that the theorems below rest on
Account == Safe /\ Coverage /\ Carried /\ Forgetful /\ Starts

\* It holds always.
LEMMA KeptAlways == Spec => []Account
<1>1. Init => Account
  <2> SUFFICES ASSUME Init PROVE Account
    OBVIOUS
  <2>1. Carried
    BY DEF Init, Carried, InTurn
  <2> QED BY <2>1, InitSafe, InitCoverage, InitForgetful, InitStarts DEF Account
<1>2. Account /\ [Next]_vars => Account'
  <2> SUFFICES ASSUME Account, [Next]_vars PROVE Account'
    OBVIOUS
  <2>1. Safe /\ Coverage /\ Carried /\ Forgetful /\ Starts
    BY DEF Account
  <2>2. Safe' /\ Coverage'
    BY <2>1, StepSafe, StepCoverage
  <2>3. Carried' /\ Starts'
    BY <2>1, StepCarried, StepStarts
  <2>4. Forgetful'
    BY <2>1, StepForgetful
  <2> QED BY <2>2, <2>3, <2>4 DEF Account
<1> QED BY <1>1, <1>2, PTL DEF Spec

\* No sequence of compactions, copies, cancellations and crashes loses a message between
\* two summaries, and none brings one back that a reset has forgotten.
THEOREM NothingLost == Spec => [](RequestTellsAll /\ ResetForgets)
<1>1. Account => RequestTellsAll /\ ResetForgets
  BY AllTold, ForgetfulForgets DEF Account
<1> QED BY <1>1, KeptAlways, PTL

\* What a request tells is the history of the peer, the whole of it and nothing that a
\* reset has forgotten, and a turn starts from what the peer would put into a request.
\* The last does not hold with pinned prompts: those are not copied into the session of a
\* turn (see PinnedPromptsAsked), hence the hypothesis.
THEOREM HistoryTold == ASSUME Pins = <<>> PROVE Spec => []HistoryIsTold
<1>1. Account => HistoryIsTold
  <2> SUFFICES ASSUME Account PROVE HistoryIsTold
    OBVIOUS
  <2>1. Safe /\ Coverage /\ Carried /\ Forgetful /\ Starts
    BY DEF Account
  <2>2. RequestTellsAll /\ ResetForgets
    BY <2>1, AllTold, ForgetfulForgets
  <2>3. TurnSeesPeer
    BY <2>1, StartsSeen
  <2> QED BY <2>2, <2>3 DEF HistoryIsTold
<1> QED BY <1>1, KeptAlways, PTL

=============================================================================
