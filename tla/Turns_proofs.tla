----------------------------- MODULE Turns_proofs -----------------------------
(***************************************************************************)
(* Proofs about the turns of peers and the slots they take: PeerTurn, for    *)
(* any number of messages, commands, background notes and resets, and any    *)
(* bounds; Slots, for any sessions, resets, models and servers.  The two     *)
(* modules share no variable, and no proof uses facts about both.            *)
(***************************************************************************)
EXTENDS PeerTurn, Slots, TLAPS

-----------------------------------------------------------------------------
(* PeerTurn: typing.                                                        *)

LEMMA ProcTypes ==
  /\ Turn \subseteq Proc /\ Texts \subseteq Turn /\ Pins \subseteq Turn
  /\ Texts \subseteq Input /\ Notes \subseteq Input /\ Input \subseteq Text
  /\ Turn \subseteq Text /\ Input \subseteq Proc
  /\ Texts \subseteq Proc /\ Pins \subseteq Proc /\ Notes \subseteq Proc
  /\ Resets \subseteq Proc /\ Commands \subseteq Proc /\ Boot \in Turn
  /\ Boot \notin Texts /\ Boot \notin Pins /\ Boot \notin Notes
  /\ Boot \notin Resets
BY KindsAreDisjoint DEF Turn, Input, Text, Proc, Handler, Commands

\* The program counter keeps its type.
LEMMA GotoType ==
  ASSUME pc \in [Proc -> PC], NEW p \in Proc, NEW l \in PC, Goto(p, l)
  PROVE  pc' \in [Proc -> PC]
BY DEF Goto

\* So does the history, whatever is appended.
LEMMA AppendType ==
  ASSUME recorded \in [Text -> Nat], NEW S, Record(S)
  PROVE  recorded' \in [Text -> Nat]
<1>1. \A i \in Text : recorded[i] + (IF i \in S THEN 1 ELSE 0) \in Nat
  OBVIOUS
<1> QED BY <1>1 DEF Record

\* Type correctness: every variable always stays in its type.
THEOREM TypeCorrect == Spec => []TypeOK
<1>1. Init => TypeOK
  BY ProcTypes, ResumeAssumption, BoundsAssumption
     DEF Init, TypeOK, PC, Holding, Working, Resetting, Ended
<1>2. TypeOK /\ [Next]_vars => TypeOK'
  <2> SUFFICES ASSUME TypeOK, [Next]_vars PROVE TypeOK'
    OBVIOUS
  <2> USE ProcTypes
  <2>1. CASE Arrive
    <3>1. ASSUME NEW m \in Texts, LaunchText(m) \/ SaturatedText(m)
          PROVE  TypeOK'
      BY <3>1, GotoType DEF LaunchText, SaturatedText, TypeOK, Admit, PC, Ended,
           turnVars, sessionVars, ghostVars
    <3>2. ASSUME NEW c \in Commands, LaunchCommand(c) \/ SaturatedCommand(c)
          PROVE  TypeOK'
      BY <3>2, GotoType DEF LaunchCommand, SaturatedCommand, TypeOK, PC, Ended,
           Resetting, inboxVars, turnVars, sessionVars, ghostVars
    <3>3. ASSUME NEW n \in Notes, Notify(n)
          PROVE  TypeOK'
      BY <3>3, GotoType DEF Notify, TypeOK, Admit, PC, Ended, turnVars,
           sessionVars, ghostVars
    <3> QED BY <2>1, <3>1, <3>2, <3>3 DEF Arrive
  <2>2. ASSUME NEW t \in Texts \cup Pins, HandlerStep(t) PROVE TypeOK'
    BY <2>2, GotoType DEF HandlerStep, BeginWait, Acquire, SameGeneration,
         DropStale, Claim, DropPromoted, Register, CancelEntry, TypeOK, PC,
         Holding, Working, Ended, inboxVars, turnVars, sessionVars, ghostVars
  <2>3. CASE BootStep
    BY <2>3, GotoType DEF BootStep, ScheduleResume, ResumeInterruptedTask,
         TypeOK, PC, Working, inboxVars, turnVars, sessionVars, ghostVars
  <2>4. ASSUME NEW t \in Turn, TurnStep(t) PROVE TypeOK'
    <3> USE DEF KeepHandlers, inboxVars, turnVars, sessionVars, ghostVars, PC,
                Working
    <3>1. CASE SyncModel(t) \/ SyncModelFails(t)
      BY <3>1, GotoType DEF SyncModel, SyncModelFails, TypeOK
    <3>2. CASE SetResumePrompt(t) \/ ClearResumePrompt(t)
      BY <3>2, GotoType DEF SetResumePrompt, ClearResumePrompt, TypeOK
    <3>3. CASE AddPrompt(t)
      BY <3>3, GotoType DEF AddPrompt, TypeOK
    <3>4. CASE Enter(t)
      <4>1. (IF lastPrompt = t THEN {} ELSE {t}) \in SUBSET Text
        OBVIOUS
      <4> QED BY <3>4, <4>1, GotoType DEF Enter, TypeOK
    <3>4s. CASE StopCancelled(t)
      BY <3>4s, GotoType DEF StopCancelled, TypeOK
    <3>5. CASE Drain(t)
      BY <3>5, GotoType DEF Drain, DrainInto, TypeOK
    <3>6. CASE Iterate(t)
      BY <3>6, GotoType, BoundsAssumption DEF Iterate, TypeOK
    <3>7. CASE IterationLimit(t)
      BY <3>7, GotoType DEF IterationLimit, TypeOK
    <3>8. CASE StreamStep(t)
      <4>1. CASE StreamFails(t)
        BY <4>1, GotoType DEF StreamFails, TypeOK
      <4>2. CASE StreamAgain(t)
        BY <4>2, GotoType DEF StreamAgain, TypeOK
      <4>3. CASE StreamAnswers(t)
        BY <4>3, GotoType DEF StreamAnswers, TypeOK
      <4>4. CASE StreamTools(t)
        BY <4>4, GotoType, AppendType DEF StreamTools, Mirror, TypeOK
      <4> QED BY <3>8, <4>1, <4>2, <4>3, <4>4 DEF StreamStep
    <3>9. CASE FinalDrain(t)
      BY <3>9, GotoType DEF FinalDrain, DrainInto, TypeOK
    <3>10. CASE FinalSync(t)
      BY <3>10, GotoType, AppendType DEF FinalSync, Mirror, TypeOK
    <3>11. CASE TakePromoted(t)
      BY <3>11, GotoType, AppendType DEF TakePromoted, TypeOK
    <3>12. CASE Release(t)
      BY <3>12, GotoType, BoundsAssumption DEF Release, TypeOK, Ended
    <3> QED BY <2>4, <3>1, <3>2, <3>3, <3>4, <3>4s, <3>5, <3>6, <3>7, <3>8, <3>9, <3>10,
              <3>11, <3>12 DEF TurnStep
  <2>5. ASSUME NEW r \in Resets, ResetStep(r) PROVE TypeOK'
    BY <2>5, GotoType DEF ResetStep, CancelActiveRequest, ClearInput,
         ClearPeerSession, BumpPeerGeneration, CancelEntry, TypeOK, PC, Resetting,
         Ended, Input, Text, inboxVars, turnVars, sessionVars, ghostVars
  <2>6. CASE Crash
    BY <2>6, BoundsAssumption
       DEF Crash, TypeOK, PC, Ended, Input, Text, sessionVars
  <2>7. CASE UNCHANGED vars
    BY <2>7 DEF vars, handlerVars, inboxVars, turnVars, sessionVars, ghostVars,
         TypeOK
  <2> QED BY <2>1, <2>2, <2>3, <2>4, <2>5, <2>6, <2>7 DEF Next
<1> QED BY <1>1, <1>2, PTL DEF Spec

-----------------------------------------------------------------------------
(* The registered turn is the only live one.                                *)

\* Inductive: a live turn is the one cancelFuncs holds.
EntryOwner == \A t \in Turn : Live(t) => entry = t

LEMMA GotoValue ==
  ASSUME pc \in [Proc -> PC], NEW p \in Proc, NEW l, Goto(p, l)
  PROVE  pc'[p] = l /\ \A q \in Proc : q # p => pc'[q] = pc[q]
BY DEF Goto

\* A step that leaves the registration alone and starts no turn.
LEMMA QuietStep ==
  ASSUME EntryOwner, UNCHANGED <<entry, cancelled>>,
         \A t \in Turn : pc'[t] \in Working => pc[t] \in Working
  PROVE  EntryOwner'
BY DEF EntryOwner, Live

LEMMA EntryOwnerInit == Init => EntryOwner
BY ProcTypes DEF Init, EntryOwner, Live, Working

LEMMA EntryOwnerNext == TypeOK /\ EntryOwner /\ [Next]_vars => EntryOwner'
<1> SUFFICES ASSUME TypeOK, EntryOwner, [Next]_vars PROVE EntryOwner'
  OBVIOUS
<1>0. pc \in [Proc -> PC]
  BY DEF TypeOK
<1> USE ProcTypes
<1>1. CASE Arrive
  <2>1. ASSUME NEW m \in Texts, LaunchText(m) \/ SaturatedText(m)
        PROVE  EntryOwner'
    BY <1>0, <2>1, GotoValue, QuietStep DEF LaunchText, SaturatedText, Working
  <2>2. ASSUME NEW c \in Commands, LaunchCommand(c) \/ SaturatedCommand(c)
        PROVE  EntryOwner'
    BY <1>0, <2>2, GotoValue, QuietStep DEF LaunchCommand, SaturatedCommand, Working
  <2>3. ASSUME NEW n \in Notes, Notify(n) PROVE EntryOwner'
    BY <1>0, <2>3, GotoValue, QuietStep DEF Notify, Working
  <2> QED BY <1>1, <2>1, <2>2, <2>3 DEF Arrive
<1>2. ASSUME NEW t \in Texts \cup Pins, HandlerStep(t) PROVE EntryOwner'
  <2>1. CASE Register(t)
    <3>1. \A s \in Turn : Live(s) => s = entry /\ s # NoTurn
      BY KindsAreDisjoint DEF EntryOwner
    <3>2. \A s \in Turn : s # t => ~Live(s)'
      BY <1>0, <2>1, <3>1, GotoValue DEF Register, CancelEntry, Live
    <3> QED BY <2>1, <3>2 DEF Register, EntryOwner
  <2>2. CASE ~Register(t)
    <3>1. /\ UNCHANGED <<entry, cancelled>>
          /\ \E l \in PC \ Working : Goto(t, l)
      BY <1>2, <2>2
         DEF HandlerStep, BeginWait, Acquire, SameGeneration, DropStale, Claim,
             DropPromoted, PC, Working, Holding, Ended
    <3> QED BY <1>0, <3>1, GotoValue, QuietStep
  <2> QED BY <2>1, <2>2
<1>3. CASE BootStep
  <2>1. CASE ScheduleResume
    <3>1. \A t \in Turn : ~Live(t)
      BY <2>1, KindsAreDisjoint DEF ScheduleResume, EntryOwner
    <3> QED BY <1>0, <2>1, <3>1, GotoValue DEF ScheduleResume, EntryOwner, Live
  <2>2. CASE ResumeInterruptedTask
    BY <1>0, <2>2, GotoValue, QuietStep DEF ResumeInterruptedTask, Working
  <2> QED BY <1>3, <2>1, <2>2 DEF BootStep
<1>4. ASSUME NEW t \in Turn, TurnStep(t) PROVE EntryOwner'
  <2>1. CASE Release(t)
    <3>1. \A s \in Turn : Live(s)' => s # t /\ Live(s)
      BY <1>0, <2>1, GotoValue DEF Release, Live, Working
    <3> QED BY <2>1, <3>1 DEF Release, EntryOwner
  <2>2. CASE ~Release(t)
    <3>1. pc[t] \in Working /\ UNCHANGED <<entry, cancelled>>
      BY <1>4, <2>2
         DEF TurnStep, SyncModel, SyncModelFails, SetResumePrompt, AddPrompt,
             Enter, StopCancelled, Drain, Iterate, IterationLimit, StreamStep,
             StreamFails, StreamAgain, StreamAnswers, StreamTools, FinalDrain,
             FinalSync, TakePromoted, ClearResumePrompt, KeepHandlers, Working
    <3>2. \E l : Goto(t, l)
      BY <1>4, <2>2
         DEF TurnStep, SyncModel, SyncModelFails, SetResumePrompt, AddPrompt,
             Enter, StopCancelled, Drain, Iterate, IterationLimit, StreamStep,
             StreamFails, StreamAgain, StreamAnswers, StreamTools, FinalDrain,
             FinalSync, TakePromoted, ClearResumePrompt
    <3> QED BY <1>0, <3>1, <3>2, GotoValue, QuietStep
  <2> QED BY <2>1, <2>2
<1>5. ASSUME NEW r \in Resets, ResetStep(r) PROVE EntryOwner'
  <2>1. r \notin Turn
    BY KindsAreDisjoint DEF Turn, Handler, Commands
  <2>2. CASE CancelActiveRequest(r)
    BY <1>0, <2>1, <2>2, GotoValue
       DEF CancelActiveRequest, CancelEntry, EntryOwner, Live, TypeOK
  <2>3. CASE ~CancelActiveRequest(r)
    BY <1>0, <1>5, <2>1, <2>3, GotoValue, QuietStep
       DEF ResetStep, ClearInput, ClearPeerSession, BumpPeerGeneration
  <2> QED BY <2>2, <2>3
<1>6. CASE Crash
  BY <1>6 DEF Crash, EntryOwner, Live, Working, Ended
<1>7. CASE UNCHANGED vars
  BY <1>7, QuietStep DEF vars, handlerVars
<1> QED BY <1>1, <1>2, <1>3, <1>4, <1>5, <1>6, <1>7 DEF Next

\* At most one turn of a peer is live at any moment.
THEOREM OneTurnIsLive == Spec => []OneLiveTurn
<1>1. EntryOwner => OneLiveTurn
  BY DEF EntryOwner, OneLiveTurn
<1> QED BY <1>1, EntryOwnerInit, EntryOwnerNext, TypeCorrect, PTL DEF Spec

\* No turn is live right after a reset has cancelled the registered one.
THEOREM ResetCancels == Spec => ResetCancelsLiveTurn
<1>1. ASSUME EntryOwner, NEW r \in Resets, CancelActiveRequest(r)
      PROVE  \A t \in Turn : ~Live(t)'
  <2>1. \A t \in Turn : t \notin cancelled => t = entry \/ pc[t] \notin Working
    BY <1>1 DEF EntryOwner, Live
  <2>2. Goto(r, "clearInput") /\ CancelEntry
    BY <1>1 DEF CancelActiveRequest
  <2>3. \A t \in Turn : t # r /\ t # NoTurn
    BY KindsAreDisjoint DEF Turn, Handler, Commands
  <2> QED BY <2>1, <2>2, <2>3 DEF Live, Goto, CancelEntry
<1>2. EntryOwner /\ [Next]_vars
        => [\A r \in Resets : CancelActiveRequest(r) => \A t \in Turn : ~Live(t)']_vars
  BY <1>1
<1> QED BY <1>2, EntryOwnerInit, EntryOwnerNext, TypeCorrect, PTL
        DEF Spec, ResetCancelsLiveTurn
-----------------------------------------------------------------------------
(* The processing mutex.                                                    *)

\* Inductive: the resuming turn never has the mutex.
MutexOwner == HandlersSerialised /\ mutex # Boot

LEMMA MutexOwnerInit == Init => MutexOwner
BY ProcTypes, KindsAreDisjoint DEF Init, MutexOwner, HandlersSerialised, Holding, Working

\* A step that leaves the mutex, and every handler on its side of it, alone.
LEMMA SameSide ==
  ASSUME MutexOwner, UNCHANGED mutex,
         \A t \in Texts \cup Pins : pc[t] \in Holding \cup Working
                                  <=> pc'[t] \in Holding \cup Working
  PROVE  MutexOwner'
BY DEF MutexOwner, HandlersSerialised

LEMMA MutexOwnerNext == TypeOK /\ MutexOwner /\ [Next]_vars => MutexOwner'
<1> SUFFICES ASSUME TypeOK, MutexOwner, [Next]_vars PROVE MutexOwner'
  OBVIOUS
<1>0. pc \in [Proc -> PC]
  BY DEF TypeOK
<1> DEFINE In == Holding \cup Working
<1>i. {"idle", "boot", "admitted", "queued"} \cap In = {} /\ Resetting \cap In = {}
      /\ Ended \cap In = {}
  BY DEF Holding, Working, Resetting, Ended
<1> USE ProcTypes
<1>1. CASE Arrive
  <2>1. ASSUME NEW p \in Proc, pc[p] = "idle", UNCHANGED mutex,
               \E l \in {"admitted", "cancelActive", "inbox", "refused"} : Goto(p, l)
        PROVE  MutexOwner'
    <3>1. pc[p] \notin In /\ pc'[p] \notin In
      BY <1>0, <1>i, <2>1, GotoValue DEF Resetting, Ended
    <3> QED BY <1>0, <2>1, <3>1, GotoValue, SameSide
  <2>2. \A m \in Texts : LaunchText(m) \/ SaturatedText(m) => MutexOwner'
    BY <2>1 DEF LaunchText, SaturatedText
  <2>3. \A c \in Commands : LaunchCommand(c) \/ SaturatedCommand(c) => MutexOwner'
    BY <2>1 DEF LaunchCommand, SaturatedCommand
  <2>4. \A n \in Notes : Notify(n) => MutexOwner'
    BY <2>1 DEF Notify
  <2> QED BY <1>1, <2>2, <2>3, <2>4 DEF Arrive
<1>2. ASSUME NEW t \in Texts \cup Pins, HandlerStep(t) PROVE MutexOwner'
  <2>1. t # NoTurn /\ t # Boot
    BY KindsAreDisjoint
  <2>2. CASE Acquire(t)
    <3>1. \A s \in Texts \cup Pins : pc[s] \notin In
      BY <2>2, KindsAreDisjoint DEF Acquire, MutexOwner, HandlersSerialised
    <3>2. /\ mutex' = t /\ pc'[t] \in In
          /\ \A s \in Turn : s # t => pc'[s] = pc[s]
      BY <1>0, <2>2, GotoValue DEF Acquire, Holding
    <3> QED BY <2>1, <3>1, <3>2 DEF MutexOwner, HandlersSerialised
  <2>3. CASE DropStale(t) \/ DropPromoted(t)
    <3>1. /\ pc[t] \in In /\ mutex' = NoTurn /\ pc'[t] \notin In
          /\ \A s \in Turn : s # t => pc'[s] = pc[s]
      BY <1>0, <1>i, <2>3, GotoValue DEF DropStale, DropPromoted, Holding, Ended
    <3> QED BY <3>1, KindsAreDisjoint DEF MutexOwner, HandlersSerialised
  <2>4. CASE ~Acquire(t) /\ ~DropStale(t) /\ ~DropPromoted(t)
    <3>1. /\ UNCHANGED mutex
          /\ \/ pc[t] \in In /\ \E l \in In : Goto(t, l)
             \/ pc[t] = "admitted" /\ Goto(t, "queued")
      BY <1>2, <2>4 DEF HandlerStep, BeginWait, SameGeneration, Claim, Register,
           Holding, Working
    <3>2. pc[t] \in In <=> pc'[t] \in In
      BY <1>0, <1>i, <3>1, GotoValue
    <3>3. \A s \in Turn : s # t => pc'[s] = pc[s]
      BY <1>0, <3>1, GotoValue
    <3> QED BY <3>1, <3>2, <3>3, SameSide
  <2> QED BY <2>2, <2>3, <2>4
<1>3. CASE BootStep
  <2>1. UNCHANGED mutex /\ \A t \in Texts \cup Pins : pc'[t] = pc[t]
    BY <1>0, <1>3, GotoValue DEF BootStep, ScheduleResume, ResumeInterruptedTask
  <2> QED BY <2>1, SameSide
<1>4. ASSUME NEW t \in Turn, TurnStep(t) PROVE MutexOwner'
  <2>1. pc[t] \in Working
    BY <1>4
       DEF TurnStep, SyncModel, SyncModelFails, SetResumePrompt, AddPrompt,
           Enter, StopCancelled, Drain, Iterate, IterationLimit, StreamStep,
           StreamFails, StreamAgain, StreamAnswers, StreamTools, FinalDrain,
           FinalSync, TakePromoted, ClearResumePrompt, Release, Working
  <2>2. CASE Release(t)
    <3>1. /\ pc'[t] \notin In
          /\ \A s \in Turn : s # t => pc'[s] = pc[s]
          /\ mutex' = IF t = Boot THEN mutex ELSE NoTurn
      BY <1>0, <1>i, <2>2, GotoValue DEF Release, Ended
    <3>2. CASE t = Boot
      BY <3>1, <3>2 DEF MutexOwner, HandlersSerialised
    <3>3. CASE t # Boot
      <4>1. t \in Texts \cup Pins
        BY <3>3 DEF Turn
      <4>2. \A s \in Texts \cup Pins : s # t => pc[s] \notin In
        BY <2>1, <4>1 DEF MutexOwner, HandlersSerialised
      <4>3. mutex' = NoTurn /\ NoTurn \notin Turn
        BY <3>1, <3>3, KindsAreDisjoint
      <4> QED BY <3>1, <4>2, <4>3 DEF MutexOwner, HandlersSerialised
    <3> QED BY <3>2, <3>3
  <2>3. CASE ~Release(t)
    <3>1. UNCHANGED mutex /\ \E l \in Working : Goto(t, l)
      BY <1>4, <2>3
         DEF TurnStep, SyncModel, SyncModelFails, SetResumePrompt, AddPrompt,
             Enter, StopCancelled, Drain, Iterate, IterationLimit, StreamStep,
             StreamFails, StreamAgain, StreamAnswers, StreamTools, FinalDrain,
             FinalSync, TakePromoted, ClearResumePrompt, KeepHandlers, Working
    <3>2. pc'[t] \in Working /\ \A s \in Turn : s # t => pc'[s] = pc[s]
      BY <1>0, <3>1, GotoValue
    <3> QED BY <2>1, <3>1, <3>2, SameSide
  <2> QED BY <2>2, <2>3
<1>5. ASSUME NEW r \in Resets, ResetStep(r) PROVE MutexOwner'
  <2>1. r \notin Texts \cup Pins
    BY KindsAreDisjoint
  <2>2. UNCHANGED mutex /\ \E l : Goto(r, l)
    BY <1>5 DEF ResetStep, CancelActiveRequest, ClearInput, ClearPeerSession,
         BumpPeerGeneration
  <2> QED BY <1>0, <2>1, <2>2, GotoValue, SameSide
<1>6. CASE Crash
  BY <1>6, <1>i, KindsAreDisjoint DEF Crash, MutexOwner, HandlersSerialised, Ended
<1>7. CASE UNCHANGED vars
  BY <1>7, SameSide DEF vars, handlerVars
<1> QED BY <1>1, <1>2, <1>3, <1>4, <1>5, <1>6, <1>7 DEF Next

\* Handlers' turns are serialised by the mutex and none keeps it.
THEOREM Serialised == Spec => []HandlersSerialised
<1>1. MutexOwner => HandlersSerialised
  BY DEF MutexOwner
<1> QED BY <1>1, MutexOwnerInit, MutexOwnerNext, TypeCorrect, PTL DEF Spec

-----------------------------------------------------------------------------
(* A text is run by its own handler or steered into another turn.           *)

\* Inductive: a text is nowhere before it arrives, in one place while it is
\* pending, and with no turn but its own once its handler has claimed it.
OnePlace ==
  \A m \in Texts :
    /\ pc[m] = "idle" => m \notin pending \cup promoted /\ ~Steered(m)
    /\ m \in pending => m \notin promoted /\ ~Steered(m)
    /\ pc[m] \in {"register"} \cup Working => m \notin pending \cup promoted /\ ~Steered(m)

LEMMA OnePlaceInit == Init => OnePlace
BY ProcTypes DEF Init, OnePlace, Steered, Working

\* A step that moves no text and brings no handler to register or to work.
LEMMA NoMove ==
  ASSUME OnePlace, UNCHANGED <<pending, promoted, steer, fresh>>,
         \A m \in Texts : pc'[m] = "idle" => pc[m] = "idle",
         \A m \in Texts : pc'[m] \in {"register"} \cup Working
                            => pc[m] \in {"register"} \cup Working
  PROVE  OnePlace'
BY DEF OnePlace, Steered

LEMMA OnePlaceNext == TypeOK /\ OnePlace /\ [Next]_vars => OnePlace'
<1> SUFFICES ASSUME TypeOK, OnePlace, [Next]_vars PROVE OnePlace'
  OBVIOUS
<1>0. pc \in [Proc -> PC]
  BY DEF TypeOK
<1> USE ProcTypes
<1>1. CASE Arrive
  <2>1. ASSUME NEW m \in Texts, LaunchText(m) \/ SaturatedText(m)
        PROVE  OnePlace'
    <3>1. /\ pc[m] = "idle" /\ pending' = pending \cup {m}
          /\ pc'[m] \notin {"idle", "register"} \cup Working
          /\ \A q \in Texts : q # m => pc'[q] = pc[q]
          /\ UNCHANGED <<promoted, steer, fresh>>
      BY <1>0, <2>1, GotoValue DEF LaunchText, SaturatedText, Admit, Working, turnVars
    <3> QED BY <3>1 DEF OnePlace, Steered
  <2>2. ASSUME NEW c \in Commands, LaunchCommand(c) \/ SaturatedCommand(c)
        PROVE  OnePlace'
    <3>1. c \notin Texts
      BY KindsAreDisjoint DEF Commands
    <3>2. UNCHANGED <<pending, promoted, steer, fresh>> /\ \E l : Goto(c, l)
      BY <2>2 DEF LaunchCommand, SaturatedCommand, inboxVars, turnVars
    <3> QED BY <1>0, <3>1, <3>2, NoMove, GotoValue
  <2>3. ASSUME NEW n \in Notes, Notify(n) PROVE OnePlace'
    <3>1. n \notin Texts
      BY KindsAreDisjoint
    <3>2. /\ pending' = pending \cup {n} /\ UNCHANGED <<promoted, steer, fresh>>
          /\ \A q \in Texts : pc'[q] = pc[q]
      BY <1>0, <2>3, <3>1, GotoValue DEF Notify, Admit, turnVars
    <3> QED BY <3>1, <3>2 DEF OnePlace, Steered
  <2> QED BY <1>1, <2>1, <2>2, <2>3 DEF Arrive
<1>2. ASSUME NEW t \in Texts \cup Pins, HandlerStep(t) PROVE OnePlace'
  <2>1. CASE Claim(t)
    <3>1. /\ t \in pending /\ pending' = pending \ {t} /\ pc'[t] = "register"
          /\ \A q \in Texts : q # t => pc'[q] = pc[q]
          /\ UNCHANGED <<promoted, steer, fresh>>
      BY <1>0, <2>1, GotoValue DEF Claim, turnVars
    <3> QED BY <3>1 DEF OnePlace, Steered
  <2>2. CASE ~Claim(t)
    <3>1. /\ UNCHANGED <<pending, promoted, steer, fresh>>
          /\ \/ \E l \in PC \ ({"idle", "register"} \cup Working) : Goto(t, l)
             \/ t \in Pins /\ Goto(t, "register")
             \/ pc[t] = "register" /\ Goto(t, "start")
      BY <1>2, <2>2
         DEF HandlerStep, BeginWait, Acquire, SameGeneration, DropStale,
             DropPromoted, Register, PC, Holding, Working, Ended, inboxVars,
             turnVars
    <3>2. t \in Pins => t \notin Texts
      BY KindsAreDisjoint
    <3> QED BY <1>0, <3>1, <3>2, NoMove, GotoValue
  <2> QED BY <2>1, <2>2
<1>3. CASE BootStep
  BY <1>0, <1>3, NoMove, GotoValue
     DEF BootStep, ScheduleResume, ResumeInterruptedTask, inboxVars, turnVars
<1>4. ASSUME NEW t \in Turn, TurnStep(t) PROVE OnePlace'
  <2>1. /\ pc[t] \in Working
        /\ \E l \in PC \ {"idle"} : Goto(t, l)
    BY <1>4
       DEF TurnStep, SyncModel, SyncModelFails, SetResumePrompt, AddPrompt,
           Enter, StopCancelled, Drain, Iterate, IterationLimit, StreamStep,
           StreamFails, StreamAgain, StreamAnswers, StreamTools, FinalDrain,
           FinalSync, TakePromoted, ClearResumePrompt, Release, Working, PC, Ended
  <2>2. /\ \A m \in Texts : pc'[m] = "idle" => pc[m] = "idle"
        /\ \A m \in Texts : pc'[m] \in {"register"} \cup Working
                             => pc[m] \in {"register"} \cup Working
    BY <1>0, <2>1, GotoValue
  <2>3. CASE Enter(t)
    <3>1. /\ UNCHANGED <<pending, promoted, steer>>
          /\ fresh' \in [Turn -> SUBSET Text]
          /\ \A s \in Turn : s # t => fresh'[s] = fresh[s]
          /\ fresh'[t] \subseteq {t}
      BY <2>3 DEF Enter, TypeOK, inboxVars
    <3>2. \A m \in Texts : Steered(m)' => Steered(m)
      BY <3>1 DEF Steered
    <3> QED BY <2>2, <3>1, <3>2 DEF OnePlace
  <2>4. CASE DrainInto(t) /\ UNCHANGED fresh
    <3>1. /\ pending' = {} /\ promoted' = promoted \cup pending
          /\ \A s \in Turn : steer'[s] \subseteq steer[s] \cup pending
      BY <2>4 DEF DrainInto, TypeOK
    <3>2. \A m \in Texts : Steered(m)' => Steered(m) \/ m \in pending
      BY <2>4, <3>1 DEF Steered
    <3> QED BY <2>2, <3>1, <3>2 DEF OnePlace
  <2>5. CASE Iterate(t)
    <3>1. /\ UNCHANGED <<pending, promoted>>
          /\ \A s \in Turn : /\ steer'[s] \subseteq steer[s]
                             /\ fresh'[s] \subseteq fresh[s] \cup steer[s]
      BY <2>5 DEF Iterate, TypeOK, inboxVars
    <3>2. \A m \in Texts : Steered(m)' => Steered(m)
      BY <3>1 DEF Steered
    <3> QED BY <2>2, <3>1, <3>2 DEF OnePlace
  <2>6. CASE UNCHANGED pending /\ promoted' \subseteq promoted
               /\ \A s \in Turn : steer'[s] \subseteq steer[s] /\ fresh'[s] \subseteq fresh[s]
    <3>1. \A m \in Texts : Steered(m)' => Steered(m)
      BY <2>6 DEF Steered
    <3> QED BY <2>2, <2>6, <3>1 DEF OnePlace
  <2>7. CASE SyncModel(t) \/ SyncModelFails(t) \/ SetResumePrompt(t)
               \/ AddPrompt(t) \/ StopCancelled(t) \/ IterationLimit(t)
               \/ StreamFails(t) \/ StreamAgain(t) \/ StreamAnswers(t)
               \/ TakePromoted(t) \/ ClearResumePrompt(t)
    <3>1. UNCHANGED <<pending, steer, fresh>> /\ promoted' \subseteq promoted
      BY <2>7 DEF SyncModel, SyncModelFails, SetResumePrompt, AddPrompt,
           StopCancelled, IterationLimit, StreamFails, StreamAgain,
           StreamAnswers, TakePromoted, ClearResumePrompt, inboxVars, turnVars
    <3> QED BY <2>6, <3>1
  <2>8. CASE StreamTools(t) \/ FinalSync(t) \/ Release(t)
    BY <2>6, <2>8 DEF StreamTools, FinalSync, Mirror, Release, TypeOK, inboxVars
  <2>9. CASE Drain(t) \/ FinalDrain(t)
    BY <2>4, <2>9 DEF Drain, FinalDrain
  <2> QED BY <1>4, <2>3, <2>5, <2>7, <2>8, <2>9 DEF TurnStep, StreamStep
<1>5. ASSUME NEW r \in Resets, ResetStep(r) PROVE OnePlace'
  <2>1. r \notin Texts
    BY KindsAreDisjoint
  <2>2. /\ \E l : Goto(r, l)
        /\ pending' \subseteq pending /\ promoted' \subseteq promoted
        /\ UNCHANGED <<steer, fresh>>
    BY <1>5 DEF ResetStep, CancelActiveRequest, ClearInput, ClearPeerSession,
         BumpPeerGeneration, inboxVars, turnVars
  <2>3. \A m \in Texts : pc'[m] = pc[m]
    BY <1>0, <2>1, <2>2, GotoValue
  <2> QED BY <2>2, <2>3 DEF OnePlace, Steered
<1>6. CASE Crash
  <2>1. /\ pending' = {} /\ promoted' = {}
        /\ \A s \in Turn : steer'[s] = {} /\ fresh'[s] = {}
    BY <1>6 DEF Crash
  <2> QED BY <2>1 DEF OnePlace, Steered
<1>7. CASE UNCHANGED vars
  BY <1>7, NoMove DEF vars, handlerVars, inboxVars, turnVars
<1> QED BY <1>1, <1>2, <1>3, <1>4, <1>5, <1>6, <1>7 DEF Next

\* No text is both answered by its own turn and steered into another one.
THEOREM RunOrSteered == Spec => []ClaimedOrSteered
<1>1. OnePlace => ClaimedOrSteered
  BY DEF OnePlace, ClaimedOrSteered
<1> QED BY <1>1, OnePlaceInit, OnePlaceNext, TypeCorrect, PTL DEF Spec

-----------------------------------------------------------------------------
(* Whatever has been admitted is accounted for.                             *)

Waiting == {"admitted", "queued", "locked", "claim", "promoted", "inbox"}
Kept(i) == recorded[i] > 0 \/ i \in discarded

\* Inductive: what a turn has mirrored is in the history, or was when a reset
\* threw it away.  TakePromoted relies on it to skip a text.
Accounting ==
  /\ \A i \in Input : pc[i] \in Waiting => i \in pending \cup promoted \/ Kept(i)
  /\ \A t \in Turn : \A i \in mirrored[t] : Kept(i)

LEMMA AccountingInit == Init => Accounting
BY ProcTypes DEF Init, Accounting, Waiting

\* Appending to the history loses nothing and keeps what is appended.
LEMMA AppendKeeps ==
  ASSUME recorded \in [Text -> Nat], NEW S, Record(S), UNCHANGED discarded
  PROVE  /\ \A i \in Text : Kept(i) => Kept(i)'
         /\ \A i \in Text \cap S : Kept(i)'
<1>1. \A i \in Text : recorded'[i] = recorded[i] + (IF i \in S THEN 1 ELSE 0)
  BY DEF Record
<1>2. \A i \in Text : recorded[i] \in Nat
  OBVIOUS
<1> QED BY <1>1, <1>2 DEF Kept

\* A step that makes no text wait anew, takes nothing out of the inbox and of
\* the history, and mirrors nothing.
LEMMA NothingTaken ==
  ASSUME TypeOK, Accounting, mirrored' = mirrored,
         \A i \in Input : pc'[i] \in Waiting => pc[i] \in Waiting,
         \A i \in Input : pc'[i] \in Waiting /\ i \in pending \cup promoted
                           => i \in pending' \cup promoted' \/ Kept(i)',
         \A i \in Text : Kept(i) => Kept(i)'
  PROVE  Accounting'
<1>1. \A t \in Turn : mirrored[t] \subseteq Text
  BY DEF TypeOK
<1> QED BY <1>1, ProcTypes DEF Accounting

LEMMA AccountingNext == TypeOK /\ Accounting /\ [Next]_vars => Accounting'
<1> SUFFICES ASSUME TypeOK, Accounting, [Next]_vars PROVE Accounting'
  OBVIOUS
<1>0. pc \in [Proc -> PC] /\ recorded \in [Text -> Nat]
  BY DEF TypeOK
<1> USE ProcTypes
<1>1. CASE Arrive
  <2>1. ASSUME NEW m \in Input, LaunchText(m) \/ SaturatedText(m) \/ Notify(m)
        PROVE  Accounting'
    <3>1. /\ pending' = pending \cup {m}
          /\ \A q \in Input : q # m => pc'[q] = pc[q]
          /\ UNCHANGED <<promoted, recorded, discarded, mirrored>>
      BY <1>0, <2>1, GotoValue DEF LaunchText, SaturatedText, Notify, Admit,
           turnVars, sessionVars, ghostVars
    <3> QED BY <3>1 DEF Accounting, Kept
  <2>2. ASSUME NEW c \in Commands, LaunchCommand(c) \/ SaturatedCommand(c)
        PROVE  Accounting'
    <3>1. c \notin Input
      BY KindsAreDisjoint DEF Commands, Input
    <3>2. /\ UNCHANGED <<pending, promoted, recorded, discarded, mirrored>>
          /\ \E l : Goto(c, l)
      BY <2>2 DEF LaunchCommand, SaturatedCommand, inboxVars, turnVars,
           sessionVars, ghostVars
    <3> QED BY <1>0, <3>1, <3>2, NothingTaken, GotoValue DEF Kept
  <2> QED BY <1>1, <2>1, <2>2 DEF Arrive
<1>2. ASSUME NEW t \in Texts \cup Pins, HandlerStep(t) PROVE Accounting'
  <2>1. t \in Pins => t \notin Input
    BY KindsAreDisjoint DEF Input
  <2>2. UNCHANGED <<promoted, recorded, discarded, mirrored>>
    BY <1>2 DEF HandlerStep, BeginWait, Acquire, SameGeneration, DropStale, Claim,
         DropPromoted, Register, inboxVars, turnVars, sessionVars, ghostVars
  <2>3. CASE Claim(t)
    <3>1. /\ pending' = pending \ {t} /\ pc'[t] = "register"
          /\ \A q \in Input : q # t => pc'[q] = pc[q]
      BY <1>0, <2>3, GotoValue DEF Claim
    <3> QED BY <2>2, <3>1, NothingTaken DEF Kept, Waiting
  <2>4. CASE ~Claim(t)
    <3>1. UNCHANGED pending
      BY <1>2, <2>4 DEF HandlerStep, BeginWait, Acquire, SameGeneration,
           DropStale, DropPromoted, Register, inboxVars
    <3>2. /\ \E l : Goto(t, l)
          /\ pc[t] \in Waiting \/ \E l \in PC \ Waiting : Goto(t, l)
      BY <1>2, <2>4
         DEF HandlerStep, BeginWait, Acquire, SameGeneration, DropStale,
             DropPromoted, Register, Waiting, PC, Working
    <3>3. \A i \in Input : pc'[i] \in Waiting => pc[i] \in Waiting
      BY <1>0, <3>2, GotoValue
    <3> QED BY <2>2, <3>1, <3>3, NothingTaken DEF Kept
  <2> QED BY <2>3, <2>4
<1>3. CASE BootStep
  <2>1. /\ UNCHANGED <<pending, promoted, recorded, discarded, mirrored>>
        /\ \A i \in Input : pc'[i] = pc[i]
    BY <1>0, <1>3, GotoValue, KindsAreDisjoint
       DEF BootStep, ScheduleResume, ResumeInterruptedTask, inboxVars, turnVars,
           sessionVars, ghostVars, Input
  <2> QED BY <2>1, NothingTaken DEF Kept
<1>4. ASSUME NEW t \in Turn, TurnStep(t) PROVE Accounting'
  <2>1. UNCHANGED discarded /\ \E l \in PC \ Waiting : Goto(t, l)
    BY <1>4
       DEF TurnStep, SyncModel, SyncModelFails, SetResumePrompt, AddPrompt,
           Enter, StopCancelled, Drain, Iterate, IterationLimit, StreamStep,
           StreamFails, StreamAgain, StreamAnswers, StreamTools, FinalDrain,
           FinalSync, TakePromoted, ClearResumePrompt, Release, KeepHandlers,
           ghostVars, Waiting, PC, Working, Ended
  <2>2. \A i \in Input : pc'[i] \in Waiting => pc[i] \in Waiting
    BY <1>0, <2>1, GotoValue
  <2>3. CASE AddPrompt(t)
    <3>1. \A i \in Text : Kept(i) => Kept(i)'
      BY <1>0, <2>1, <2>3 DEF AddPrompt, Kept
    <3> QED BY <2>2, <2>3, <3>1, NothingTaken DEF AddPrompt, inboxVars, turnVars
  <2>4. CASE StreamTools(t) \/ FinalSync(t)
    <3>1. Mirror(t) /\ UNCHANGED <<pending, promoted>>
      BY <2>4 DEF StreamTools, FinalSync, inboxVars
    <3>2. /\ \A i \in Text : Kept(i) => Kept(i)'
          /\ \A i \in Text \cap fresh[t] : Kept(i)'
      BY <1>0, <2>1, <3>1, AppendKeeps DEF Mirror
    <3>3. \A s \in Turn : mirrored'[s] \subseteq Text
                         /\ mirrored'[s] \subseteq mirrored[s] \cup fresh[t]
      BY <3>1 DEF Mirror, TypeOK
    <3>4. \A s \in Turn : \A i \in mirrored'[s] : Kept(i)'
      BY <3>2, <3>3 DEF Accounting
    <3> QED BY <2>2, <3>1, <3>2, <3>4 DEF Accounting
  <2>5. CASE TakePromoted(t)
    <3>1. /\ UNCHANGED <<pending, mirrored>> /\ Record(promoted \ mirrored[t])
      BY <2>5 DEF TakePromoted, turnVars
    <3>2. /\ \A i \in Text : Kept(i) => Kept(i)'
          /\ \A i \in Text \cap (promoted \ mirrored[t]) : Kept(i)'
      BY <1>0, <2>1, <3>1, AppendKeeps
    <3>3. \A i \in Input : i \in promoted => Kept(i)'
      BY <3>2 DEF Accounting
    <3> QED BY <2>2, <3>1, <3>2, <3>3, NothingTaken
  <2>6. CASE Release(t)
    <3>1. /\ UNCHANGED <<pending, promoted, recorded>>
          /\ \A s \in Turn : mirrored'[s] \subseteq mirrored[s]
      BY <2>6 DEF Release, TypeOK, inboxVars, sessionVars
    <3> QED BY <2>1, <2>2, <3>1 DEF Accounting, Kept
  <2>7. CASE Drain(t) \/ FinalDrain(t)
    <3>1. /\ DrainInto(t) /\ UNCHANGED <<recorded, mirrored>>
      BY <2>7 DEF Drain, FinalDrain, sessionVars
    <3> QED BY <2>1, <2>2, <3>1, NothingTaken DEF DrainInto, Kept
  <2>8. CASE UNCHANGED <<pending, promoted, recorded, mirrored>>
    BY <2>1, <2>2, <2>8, NothingTaken DEF Kept
  <2> QED
    BY <1>4, <2>3, <2>4, <2>5, <2>6, <2>7, <2>8
       DEF TurnStep, SyncModel, SyncModelFails, SetResumePrompt, Enter,
           StopCancelled, Iterate, IterationLimit, StreamStep, StreamFails,
           StreamAgain, StreamAnswers, ClearResumePrompt, inboxVars, turnVars,
           sessionVars
<1>5. ASSUME NEW r \in Resets, ResetStep(r) PROVE Accounting'
  <2>1. r \notin Input
    BY KindsAreDisjoint DEF Input
  <2>2. /\ \E l : Goto(r, l)
        /\ UNCHANGED mirrored
        /\ pending \cup promoted \subseteq pending' \cup promoted' \cup discarded'
        /\ discarded \subseteq discarded'
        /\ recorded' = recorded \/ \A i \in Text : recorded[i] > 0 => i \in discarded'
    BY <1>5 DEF ResetStep, CancelActiveRequest, ClearInput, ClearPeerSession,
         BumpPeerGeneration, inboxVars, turnVars, sessionVars, ghostVars
  <2>3. \A i \in Text : Kept(i) => Kept(i)'
    BY <2>2 DEF Kept
  <2>4. \A i \in Input : pc'[i] = pc[i]
    BY <1>0, <2>1, <2>2, GotoValue
  <2> QED BY <2>2, <2>3, <2>4, NothingTaken DEF Kept
<1>6. CASE Crash
  <2>1. /\ \A s \in Turn : mirrored'[s] = {}
        /\ discarded' = discarded \cup pending \cup promoted
        /\ UNCHANGED recorded
    BY <1>6 DEF Crash, sessionVars
  <2>2. \A i \in Input : pc'[i] \in Waiting => pc[i] \in Waiting
    BY <1>6, KindsAreDisjoint DEF Crash, Waiting, Input, Ended
  <2> QED BY <2>1, <2>2 DEF Accounting, Kept
<1>7. CASE UNCHANGED vars
  BY <1>7, NothingTaken
     DEF vars, handlerVars, inboxVars, turnVars, sessionVars, ghostVars, Kept
<1> QED BY <1>1, <1>2, <1>3, <1>4, <1>5, <1>6, <1>7 DEF Next

\* Nothing that was admitted vanishes.
THEOREM NothingVanishes == Spec => []AdmittedIsAccountedFor
<1>1. Accounting => AdmittedIsAccountedFor
  BY DEF Accounting, AdmittedIsAccountedFor, Waiting, Kept
<1> QED BY <1>1, AccountingInit, AccountingNext, TypeCorrect, PTL DEF Spec

-----------------------------------------------------------------------------
(* A peer whose turns nobody cancels: no reset, no crash, and nothing left  *)
(* by an earlier process.  The resuming turn then finds nothing to resume,  *)
(* or is cancelled by the first handler before it looks.                    *)

Handlers  == Texts \cup Pins
Resumable == Working \ {"look", "start", "prompt", "release"}

\* A handler's turn runs with a live context, and a resume prompt behind it.
Serving(t) ==
  /\ t \in cancelled => pc[t] = "done"
  /\ entry = t => pc[t] \in Working \cup {"done"}
  /\ outcome[t] # "cancel"
  /\ pc[t] \in Resumable => resume # NoTurn

\* The resuming turn drains, mirrors and clears nothing.
BootIdles ==
  /\ pc[Boot] = "boot" => /\ \A p \in Proc \ {Boot} : pc[p] = "idle"
                          /\ resume = NoTurn /\ cancelled = {}
  /\ pc[Boot] = "look" => entry = Boot \/ Boot \in cancelled
  /\ entry = Boot => /\ resume = NoTurn /\ Boot \notin cancelled
                     /\ \A t \in Handlers : pc[t] \notin Working
  /\ pc[Boot] \in Working \ {"look", "release"} =>
       /\ Boot \in cancelled
       /\ \/ pc[Boot] \in {"start", "prompt", "record", "enter"}
          \/ pc[Boot] = "sync" /\ outcome[Boot] = "cancel"
  /\ fresh[Boot] = {} /\ steer[Boot] = {} /\ mirrored[Boot] = {}

QuietInv == BootIdles /\ \A t \in Handlers : Serving(t)

LEMMA QuietInit ==
  ASSUME InitialResume = {NoTurn}
  PROVE  Init => QuietInv
BY ProcTypes, KindsAreDisjoint
   DEF Init, QuietInv, BootIdles, Serving, Handlers, Working, Resumable

\* Where the handlers stand: they are not the resuming turn, and only one runs.
LEMMA HandlersAre ==
  /\ Handlers \subseteq Turn /\ Handlers \subseteq Proc
  /\ \A t \in Handlers : t # Boot /\ t # NoTurn
  /\ Turn = Handlers \cup {Boot} /\ Boot # NoTurn
BY ProcTypes, KindsAreDisjoint DEF Handlers, Turn

LEMMA OneHandlerWorks ==
  ASSUME MutexOwner, NEW t \in Handlers, pc[t] \in Holding \cup Working,
         NEW s \in Handlers, s # t
  PROVE  pc[s] \notin Holding \cup Working
BY DEF MutexOwner, HandlersSerialised, Handlers

\* A process other than the resuming turn that neither starts nor ends a turn.
LEMMA QuietFrame ==
  ASSUME TypeOK, QuietInv, NEW p \in Proc \ {Boot}, NEW l, Goto(p, l),
         pc[Boot] # "boot", pc[p] # "done",
         pc[p] \notin Working, l \notin Working,
         UNCHANGED <<entry, cancelled, outcome, resume, fresh, steer, mirrored>>
  PROVE  QuietInv'
<1>1. /\ pc'[p] = l /\ \A q \in Proc : q # p => pc'[q] = pc[q]
      /\ pc'[Boot] = pc[Boot]
  BY ProcTypes, GotoValue DEF TypeOK
<1>2. BootIdles'
  BY <1>1, HandlersAre DEF QuietInv, BootIdles
<1>3. \A t \in Handlers : Serving(t)'
  BY <1>1, HandlersAre DEF QuietInv, Serving, Resumable
<1> QED BY <1>2, <1>3 DEF QuietInv

\* A handler before its turn, or one that gives up.
LEMMA QuietHandler ==
  ASSUME TypeOK, MutexOwner, QuietInv, NEW t \in Handlers, HandlerStep(t)
  PROVE  QuietInv'
<1> USE HandlersAre
<1>0. pc \in [Proc -> PC] /\ cancelled \subseteq Turn /\ entry \in Turn \cup {NoTurn}
  BY DEF TypeOK
<1>1. pc[t] # "idle"
  BY DEF HandlerStep, BeginWait, Acquire, SameGeneration, DropStale, Claim, DropPromoted,
         Register
<1>2. pc[Boot] # "boot"
  BY <1>1 DEF QuietInv, BootIdles
<1>3. CASE Register(t)
  <2>1. /\ pc[t] = "register" /\ pc'[t] = "start" /\ entry' = t
        /\ \A q \in Proc : q # t => pc'[q] = pc[q]
        /\ cancelled' = cancelled \cup ({entry} \ {NoTurn})
        /\ UNCHANGED <<outcome, resume, fresh, steer, mirrored>>
    BY <1>0, <1>3, GotoValue DEF Register, CancelEntry, turnVars, sessionVars
  <2>2. \A s \in Handlers : s # t => pc[s] \notin Working
    BY <2>1, OneHandlerWorks DEF Holding
  <2>3. BootIdles'
    <3>1. pc[Boot] = "look" => Boot \in cancelled'
      BY <2>1 DEF QuietInv, BootIdles
    <3>2. pc'[Boot] = pc[Boot] /\ entry' # Boot /\ cancelled \subseteq cancelled'
      BY <2>1, ProcTypes
    <3> QED BY <1>2, <2>1, <3>1, <3>2 DEF QuietInv, BootIdles
  <2>4. \A s \in Handlers : Serving(s)'
    <3>1. \A s \in Handlers : s \in cancelled' => pc[s] = "done"
      BY <2>1, <2>2, <1>0 DEF QuietInv, Serving, Working
    <3>2. pc[t] # "done" /\ t \notin cancelled'
      BY <2>1, <3>1
    <3> QED BY <2>1, <3>1, <3>2 DEF QuietInv, Serving, Working, Resumable
  <2> QED BY <2>3, <2>4 DEF QuietInv
<1>4. CASE ~Register(t)
  <2>1. /\ UNCHANGED <<entry, cancelled, outcome, resume, fresh, steer, mirrored>>
        /\ pc[t] \notin Working /\ pc[t] # "done"
        /\ \E l \in PC \ Working : Goto(t, l)
    BY <1>4 DEF HandlerStep, BeginWait, Acquire, SameGeneration, DropStale, Claim,
         DropPromoted, turnVars, sessionVars, Working, Holding, Ended, PC
  <2> QED BY <1>2, <2>1, QuietFrame
<1> QED BY <1>3, <1>4

\* The turn of a handler: nobody cancels it, and it is the only one that works.
LEMMA QuietTurn ==
  ASSUME TypeOK, MutexOwner, QuietInv, NEW t \in Handlers, TurnStep(t)
  PROVE  QuietInv'
<1> USE HandlersAre
<1>0. /\ pc \in [Proc -> PC] /\ outcome \in [Turn -> {"none", "ok", "error", "cancel"}]
      /\ fresh \in [Turn -> SUBSET Text] /\ steer \in [Turn -> SUBSET Input]
      /\ mirrored \in [Turn -> SUBSET Text]
  BY DEF TypeOK
<1>1. pc[t] \in Working
  BY DEF TurnStep, SyncModel, SyncModelFails, SetResumePrompt, AddPrompt, Enter,
         StopCancelled, Drain, Iterate, IterationLimit, StreamStep, StreamFails,
         StreamAgain, StreamAnswers, StreamTools, FinalDrain, FinalSync, TakePromoted,
         ClearResumePrompt, Release, Working
<1>2. t \notin cancelled /\ entry # Boot /\ pc[Boot] # "boot"
  BY <1>1 DEF QuietInv, Serving, BootIdles, Working
<1>3. \A s \in Handlers : s # t => pc[s] \notin Working
  BY <1>1, OneHandlerWorks
<1>4. UNCHANGED <<entry, cancelled>>
  BY DEF TurnStep, SyncModel, SyncModelFails, SetResumePrompt, AddPrompt, Enter,
         StopCancelled, Drain, Iterate, IterationLimit, StreamStep, StreamFails,
         StreamAgain, StreamAnswers, StreamTools, FinalDrain, FinalSync, TakePromoted,
         ClearResumePrompt, Release, KeepHandlers
<1>5. \E l \in Working \cup {"done"} : Goto(t, l)
  BY DEF TurnStep, SyncModel, SyncModelFails, SetResumePrompt, AddPrompt, Enter,
         StopCancelled, Drain, Iterate, IterationLimit, StreamStep, StreamFails,
         StreamAgain, StreamAnswers, StreamTools, FinalDrain, FinalSync, TakePromoted,
         ClearResumePrompt, Release, Working
<1>6. pc'[t] \in Working \cup {"done"} /\ \A q \in Proc : q # t => pc'[q] = pc[q]
  BY <1>0, <1>5, GotoValue
<1>7. /\ fresh'[Boot] = fresh[Boot] /\ steer'[Boot] = steer[Boot]
      /\ mirrored'[Boot] = mirrored[Boot]
  BY <1>0 DEF TurnStep, SyncModel, SyncModelFails, SetResumePrompt, AddPrompt, Enter,
         StopCancelled, Drain, DrainInto, Iterate, IterationLimit, StreamStep, StreamFails,
         StreamAgain, StreamAnswers, StreamTools, FinalDrain, FinalSync, Mirror,
         TakePromoted, ClearResumePrompt, Release, turnVars
<1>8. /\ outcome'[t] # "cancel" /\ \A s \in Turn : s # t => outcome'[s] = outcome[s]
  <2>1. outcome[t] # "cancel"
    BY DEF QuietInv, Serving
  <2> QED BY <1>0, <1>2, <2>1
     DEF TurnStep, SyncModel, SyncModelFails, SetResumePrompt, AddPrompt, Enter,
         StopCancelled, Drain, Iterate, IterationLimit, StreamStep, StreamFails,
         StreamAgain, StreamAnswers, StreamTools, FinalDrain, FinalSync,
         TakePromoted, ClearResumePrompt, Release, turnVars
<1>9. pc'[t] \in Resumable => resume' # NoTurn
  <2>1. CASE SetResumePrompt(t) \/ ClearResumePrompt(t)
    BY <1>0, <2>1, GotoValue DEF SetResumePrompt, ClearResumePrompt, Resumable
  <2>2. CASE SyncModel(t) \/ SyncModelFails(t) \/ Release(t)
    BY <1>0, <2>2, GotoValue DEF SyncModel, SyncModelFails, Release, Resumable, Working
  <2>3. CASE pc[t] \in Resumable /\ UNCHANGED resume
    BY <2>3 DEF QuietInv, Serving
  <2> QED BY <2>1, <2>2, <2>3
     DEF TurnStep, AddPrompt, Enter, StopCancelled, Drain, Iterate, IterationLimit,
         StreamStep, StreamFails, StreamAgain, StreamAnswers, StreamTools, FinalDrain,
         FinalSync, TakePromoted, sessionVars, Resumable, Working
<1>10. BootIdles'
  <2>1. pc'[Boot] = pc[Boot] /\ outcome'[Boot] = outcome[Boot]
    BY <1>6, <1>8, ProcTypes
  <2> QED BY <1>2, <1>4, <1>7, <2>1 DEF QuietInv, BootIdles
<1>11. \A s \in Handlers : Serving(s)'
  BY <1>2, <1>3, <1>4, <1>6, <1>8, <1>9 DEF QuietInv, Serving, Resumable
<1> QED BY <1>10, <1>11 DEF QuietInv

\* The resuming turn: once it runs it has been cancelled, and runs to its end unheard.
LEMMA QuietBoot ==
  ASSUME TypeOK, QuietInv, BootStep \/ TurnStep(Boot)
  PROVE  QuietInv'
<1> USE HandlersAre
<1>0. /\ pc \in [Proc -> PC] /\ outcome \in [Turn -> {"none", "ok", "error", "cancel"}]
      /\ fresh \in [Turn -> SUBSET Text] /\ steer \in [Turn -> SUBSET Input]
      /\ mirrored \in [Turn -> SUBSET Text] /\ Boot \in Proc /\ Boot \in Turn
      /\ Handlers \subseteq Proc
  BY ProcTypes DEF TypeOK
<1>b. BootIdles
  BY DEF QuietInv
\* A step of the resuming turn that does not touch what handlers rely on.
<1>1. ASSUME NEW l, Goto(Boot, l), UNCHANGED cancelled,
             entry' \in Turn \cup {NoTurn}, \A t \in Handlers : entry' = t => entry = t,
             \A t \in Handlers : outcome'[t] = outcome[t],
             resume' # NoTurn \/ UNCHANGED resume
      PROVE  \A t \in Handlers : Serving(t)'
  BY <1>0, <1>1, GotoValue DEF QuietInv, Serving
<1>2. CASE ScheduleResume
  <2>1. /\ pc[Boot] = "boot" /\ Goto(Boot, "look") /\ entry' = Boot
        /\ UNCHANGED <<cancelled, outcome, resume, fresh, steer, mirrored>>
    BY <1>2 DEF ScheduleResume, turnVars, sessionVars
  <2>2. pc'[Boot] = "look" /\ \A q \in Proc : q # Boot => pc'[q] = pc[q]
    BY <1>0, <2>1, GotoValue
  <2>3. /\ resume = NoTurn /\ Boot \notin cancelled
        /\ \A t \in Handlers : pc[t] \notin Working
    BY <1>0, <1>b, <2>1 DEF BootIdles, Working
  <2>4. BootIdles'
    BY <1>0, <1>b, <2>1, <2>2, <2>3 DEF BootIdles
  <2> QED BY <1>0, <1>1, <2>1, <2>4 DEF QuietInv
<1>3. CASE ResumeInterruptedTask
  <2>1. /\ pc[Boot] = "look"
        /\ UNCHANGED <<entry, cancelled, outcome, resume, fresh, steer, mirrored>>
        /\ Goto(Boot, IF resume = NoTurn THEN "release" ELSE "start")
    BY <1>3 DEF ResumeInterruptedTask, turnVars, sessionVars
  <2>2. /\ pc'[Boot] = IF resume = NoTurn THEN "release" ELSE "start"
        /\ \A q \in Proc : q # Boot => pc'[q] = pc[q]
    BY <1>0, <2>1, GotoValue
  <2>3. resume # NoTurn => Boot \in cancelled
    BY <1>b, <2>1 DEF BootIdles
  <2>4. BootIdles'
    BY <1>0, <1>b, <2>1, <2>2, <2>3 DEF BootIdles
  <2>5. \A t \in Handlers : Serving(t)'
    BY <1>0, <2>1, <2>2 DEF QuietInv, Serving
  <2> QED BY <2>4, <2>5 DEF QuietInv
<1>4. CASE TurnStep(Boot)
  <2>1. pc[Boot] \in Working \ {"look"}
    BY <1>4 DEF TurnStep, SyncModel, SyncModelFails, SetResumePrompt, AddPrompt, Enter,
         StopCancelled, Drain, Iterate, IterationLimit, StreamStep, StreamFails,
         StreamAgain, StreamAnswers, StreamTools, FinalDrain, FinalSync, TakePromoted,
         ClearResumePrompt, Release, Working
  <2>2. CASE pc[Boot] = "release"
    <3>1. /\ Release(Boot)
      BY <1>4, <2>2 DEF TurnStep, SyncModel, SyncModelFails, SetResumePrompt, AddPrompt, Enter,
         StopCancelled, Drain, Iterate, IterationLimit, StreamStep, StreamFails,
         StreamAgain, StreamAnswers, StreamTools, FinalDrain, FinalSync, TakePromoted,
         ClearResumePrompt
    <3>2. /\ Goto(Boot, "done") /\ UNCHANGED <<cancelled, outcome, resume>>
          /\ entry' = IF entry = Boot THEN NoTurn ELSE entry
          /\ fresh'[Boot] = {} /\ steer'[Boot] = {} /\ mirrored'[Boot] = {}
      BY <1>0, <3>1 DEF Release, sessionVars
    <3>3. pc'[Boot] = "done" /\ \A q \in Proc : q # Boot => pc'[q] = pc[q]
      BY <1>0, <3>2, GotoValue
    <3>4. BootIdles'
      BY <3>2, <3>3 DEF BootIdles, Working
    <3>5. \A t \in Handlers : Serving(t)'
      BY <1>0, <3>2, <3>3 DEF QuietInv, Serving
    <3> QED BY <3>4, <3>5 DEF QuietInv
  <2>3. CASE pc[Boot] # "release"
    <3>1. /\ Boot \in cancelled /\ entry # Boot
          /\ \/ pc[Boot] \in {"start", "prompt", "record", "enter"}
             \/ pc[Boot] = "sync" /\ outcome[Boot] = "cancel"
      BY <1>b, <2>1, <2>3 DEF BootIdles
    <3>2. \/ SyncModel(Boot) \/ SyncModelFails(Boot) \/ SetResumePrompt(Boot)
          \/ AddPrompt(Boot) \/ StopCancelled(Boot) \/ FinalSync(Boot)
      BY <1>4, <3>1 DEF TurnStep, Enter, Drain, Iterate, IterationLimit, StreamStep,
         StreamFails, StreamAgain, StreamAnswers, StreamTools, FinalDrain, TakePromoted,
         ClearResumePrompt, Release
    <3>3. UNCHANGED <<entry, cancelled>>
      BY <3>2 DEF SyncModel, SyncModelFails, SetResumePrompt, AddPrompt, StopCancelled,
         FinalSync, KeepHandlers
    <3>4. \/ pc'[Boot] \in {"prompt", "record", "enter", "release"}
          \/ pc'[Boot] = "sync" /\ outcome'[Boot] = "cancel"
      BY <1>0, <3>1, <3>2, GotoValue DEF SyncModel, SyncModelFails, SetResumePrompt,
         AddPrompt, StopCancelled, FinalSync
    <3>5. \A q \in Proc : q # Boot => pc'[q] = pc[q]
      BY <1>0, <3>2, GotoValue DEF SyncModel, SyncModelFails, SetResumePrompt,
         AddPrompt, StopCancelled, FinalSync
    <3>6. /\ fresh'[Boot] = {} /\ steer'[Boot] = {} /\ mirrored'[Boot] = {}
          /\ \A t \in Turn : t # Boot => outcome'[t] = outcome[t]
      BY <1>0, <1>b, <3>2 DEF BootIdles, SyncModel, SyncModelFails, SetResumePrompt,
         AddPrompt, StopCancelled, FinalSync, Mirror, turnVars
    <3>7. resume' = resume \/ resume' = Boot
      BY <3>2 DEF SyncModel, SyncModelFails, SetResumePrompt, AddPrompt, StopCancelled,
         FinalSync, sessionVars
    <3>8. BootIdles'
      BY <3>1, <3>3, <3>4, <3>6 DEF BootIdles
    <3>9. \A t \in Handlers : Serving(t)'
      BY <1>0, <3>3, <3>5, <3>6, <3>7 DEF QuietInv, Serving
    <3> QED BY <3>8, <3>9 DEF QuietInv
  <2> QED BY <2>2, <2>3
<1> QED BY <1>2, <1>3, <1>4 DEF BootStep

LEMMA QuietNext ==
  ASSUME Resets = {}, MaxCrashes = 0
  PROVE  TypeOK /\ MutexOwner /\ QuietInv /\ [Next]_vars => QuietInv'
<1> SUFFICES ASSUME TypeOK, MutexOwner, QuietInv, [Next]_vars PROVE QuietInv'
  OBVIOUS
<1>1. CASE Arrive
  <2>1. ASSUME NEW p \in Proc \ {Boot}, pc[p] = "idle", Accepting,
               UNCHANGED <<entry, cancelled, outcome, resume, fresh, steer, mirrored>>,
               NEW l \in {"admitted", "cancelActive", "inbox", "refused"}, Goto(p, l)
        PROVE  QuietInv'
    <3>1. pc[p] \notin Working /\ pc[p] # "done" /\ l \notin Working
      BY <2>1 DEF Working
    <3> QED BY <2>1, <3>1, QuietFrame DEF Accepting
  <2> USE ProcTypes DEF turnVars, sessionVars
  <2>2. \A m \in Texts : LaunchText(m) \/ SaturatedText(m) => QuietInv'
    BY <2>1 DEF LaunchText, SaturatedText
  <2>3. \A c \in Commands : LaunchCommand(c) \/ SaturatedCommand(c) => QuietInv'
    BY <2>1, Boot \notin Commands DEF LaunchCommand, SaturatedCommand, Commands
  <2>4. \A n \in Notes : Notify(n) => QuietInv'
    BY <2>1 DEF Notify
  <2> QED BY <1>1, <2>2, <2>3, <2>4 DEF Arrive
<1>2. ASSUME NEW t \in Texts \cup Pins, HandlerStep(t) PROVE QuietInv'
  BY <1>2, QuietHandler DEF Handlers
<1>3. ASSUME NEW t \in Turn, TurnStep(t) PROVE QuietInv'
  BY <1>3, HandlersAre, QuietTurn, QuietBoot
<1>4. CASE BootStep
  BY <1>4, QuietBoot
<1>5. ~Crash
  BY DEF Crash, TypeOK
<1>6. CASE UNCHANGED vars
  BY <1>6 DEF vars, handlerVars, turnVars, sessionVars, QuietInv, BootIdles, Serving
<1> QED BY <1>1, <1>2, <1>3, <1>4, <1>5, <1>6 DEF Next

\* Of a peer whose turns nobody cancels: a live turn that has set its resume prompt still
\* has one to be resumed by, until it clears it itself.
THEOREM LiveTurnIsCovered ==
  ASSUME Resets = {}, MaxCrashes = 0, InitialResume = {NoTurn}
  PROVE  Spec => []ResumeCoversTurn
<1>1. Init => MutexOwner /\ QuietInv
  BY MutexOwnerInit, QuietInit
<1>2. TypeOK /\ MutexOwner /\ QuietInv /\ [Next]_vars => (MutexOwner /\ QuietInv)'
  BY MutexOwnerNext, QuietNext
<1>3. QuietInv => ResumeCoversTurn
  <2> SUFFICES ASSUME QuietInv, NEW t \in Turn, Live(t),
                      pc[t] \notin {"look", "start", "prompt", "release"}
               PROVE  resume # NoTurn
    BY DEF ResumeCoversTurn
  <2>1. t # Boot
    BY DEF QuietInv, BootIdles, Live
  <2> QED BY <2>1, HandlersAre DEF QuietInv, Serving, Live, Resumable
<1> QED BY <1>1, <1>2, <1>3, TypeCorrect, PTL DEF Spec

-----------------------------------------------------------------------------
(* Of the same peer: a text that other turns were given is recorded once.   *)

\* Where a turn may have drained texts that are not in the history yet.
Drains == {"drain", "check", "stream", "final", "hold", "sync", "take"}

\* Text i is run by its own handler, or was.
Own(i) == pc[i] \in {"register", "done"} \cup Working

Unheard(i) ==
  recorded[i] = 0 /\ i \notin promoted /\ \A t \in Turn : i \notin fresh[t] \cup mirrored[t]

\* What turn t does with a text that another handler, or none, waits for.
Carried(i, t) ==
  /\ i \in steer[t] /\ pc[t] \in {"check", "stream"} =>
       i \in promoted /\ i \notin fresh[t] \cup mirrored[t]
  /\ i \in fresh[t] => i \in promoted /\ i \notin mirrored[t]
  /\ t \in Handlers /\ pc[t] \in Drains /\ i \in promoted \ mirrored[t] => recorded[i] = 0

OnceFor(i) ==
  /\ recorded[i] <= 1
  /\ pc[i] = "idle" => i \notin pending
  /\ pc[i] = "idle" \/ i \in pending => Unheard(i)
  /\ \A t \in Turn : Carried(i, t)

\* A promoted text has a turn that will record it.
OnceInv ==
  /\ \A i \in Input : Own(i) \/ OnceFor(i)
  /\ promoted # {} => \E t \in Handlers : pc[t] \in Drains
  /\ \A t \in Turn : fresh[t] # {} => pc[t] \in Drains \ {"take"}

LEMMA OnceInit == Init => OnceInv
BY ProcTypes DEF Init, OnceInv, OnceFor, Unheard, Carried, Drains

\* A step of a process that neither drains, mirrors nor records.
LEMMA OnceFrame ==
  ASSUME TypeOK, OnceInv, NEW p \in Proc, NEW l, Goto(p, l),
         UNCHANGED <<promoted, steer, fresh, mirrored, recorded>>,
         pending' \subseteq pending, l # "idle",
         Own(p) => Own(p)',
         pc[p] \in Drains <=> l \in Drains, l = "take" => pc[p] = "take",
         l \in {"check", "stream"} => pc[p] \in {"check", "stream"}
  PROVE  OnceInv'
<1> USE ProcTypes
<1>1. pc'[p] = l /\ \A q \in Proc : q # p => pc'[q] = pc[q]
  BY GotoValue DEF TypeOK
<1>2. ASSUME NEW i \in Input, ~Own(i)' PROVE OnceFor(i)'
  <2>1. ~Own(i) /\ OnceFor(i)
    BY <1>1, <1>2 DEF OnceInv, Own
  <2>2. \A t \in Turn : Carried(i, t)'
    BY <1>1, <2>1 DEF OnceFor, Carried
  <2>3. pc'[i] = "idle" => pc[i] = "idle"
    BY <1>1
  <2> QED BY <2>1, <2>2, <2>3 DEF OnceFor, Unheard
<1>3. promoted' # {} => \E t \in Handlers : pc'[t] \in Drains
  BY <1>1, HandlersAre DEF OnceInv
<1>4. \A t \in Turn : fresh'[t] # {} => pc'[t] \in Drains \ {"take"}
  BY <1>1 DEF OnceInv
<1> QED BY <1>2, <1>3, <1>4 DEF OnceInv

\* A text is admitted: whoever had an idle handler was in nobody's hands.
LEMMA OnceAdmit ==
  ASSUME TypeOK, OnceInv, NEW i \in Input, pc[i] = "idle",
         NEW l \in {"admitted", "inbox"}, Goto(i, l), Admit(i),
         UNCHANGED <<promoted, steer, fresh, mirrored, recorded>>
  PROVE  OnceInv'
<1> USE ProcTypes
<1>1. pc'[i] = l /\ \A q \in Proc : q # i => pc'[q] = pc[q]
  BY GotoValue DEF TypeOK
<1>2. pending' = pending \cup {i}
  BY DEF Admit
<1>3. ~Own(i) /\ pc[i] \notin Drains
  BY DEF Own, Working, Drains
<1>4. OnceFor(i)
  BY <1>3 DEF OnceInv
<1>5. ASSUME NEW j \in Input, ~Own(j)' PROVE OnceFor(j)'
  <2>1. ~Own(j) /\ OnceFor(j)
    BY <1>1, <1>3, <1>5 DEF OnceInv, Own
  <2>2. \A t \in Turn : Carried(j, t)'
    BY <1>1, <2>1 DEF OnceFor, Carried, Drains
  <2>3. Unheard(j)' = Unheard(j)
    BY DEF Unheard
  <2> QED BY <1>1, <1>2, <1>4, <2>1, <2>2, <2>3 DEF OnceFor
<1>6. promoted' # {} => \E t \in Handlers : pc'[t] \in Drains
  BY <1>1, <1>3, HandlersAre DEF OnceInv
<1>7. \A t \in Turn : fresh'[t] # {} => pc'[t] \in Drains \ {"take"}
  BY <1>1, <1>3 DEF OnceInv
<1> QED BY <1>5, <1>6, <1>7 DEF OnceInv

\* While a handler's turn works, no other turn has anything in hand.
LEMMA OthersRest ==
  ASSUME TypeOK, MutexOwner, QuietInv, OnceInv, NEW t \in Handlers, pc[t] \in Working
  PROVE  /\ \A s \in Turn : s # t => fresh[s] = {} /\ pc[s] \notin {"check", "stream"}
         /\ \A s \in Handlers : s # t => pc[s] \notin Drains
         /\ pc[t] \notin Drains => promoted = {}
<1>1. \A s \in Handlers : s # t => pc[s] \notin Working
  BY OneHandlerWorks
<1>2. Drains \subseteq Working /\ {"check", "stream"} \subseteq Working
  BY DEF Drains, Working
<1>3. fresh[Boot] = {} /\ pc[Boot] \notin {"check", "stream"}
  BY DEF QuietInv, BootIdles, Working
<1>4. \A s \in Handlers : s # t => fresh[s] = {}
  BY <1>1, <1>2, HandlersAre DEF OnceInv
<1>5. pc[t] \notin Drains => promoted = {}
  BY <1>1, <1>2 DEF OnceInv
<1> QED BY <1>1, <1>2, <1>3, <1>4, <1>5, HandlersAre

\* What the turn t, the only one that works, has to keep of a text i.
With(i, t) ==
  /\ recorded[i] <= 1
  /\ pc[i] = "idle" => i \notin pending
  /\ pc[i] = "idle" \/ i \in pending =>
       recorded[i] = 0 /\ i \notin promoted /\ i \notin fresh[t] \cup mirrored[t]
  /\ Carried(i, t)

LEMMA OnceStep ==
  ASSUME TypeOK, MutexOwner, QuietInv, OnceInv, NEW t \in Handlers, pc[t] \in Working,
         NEW l \in Working \cup {"done"}, Goto(t, l), pending' \subseteq pending,
         \A s \in Turn : s # t => fresh'[s] = fresh[s] /\ mirrored'[s] = mirrored[s],
         \A i \in Input : ~Own(i) /\ With(i, t) => With(i, t)',
         promoted' # {} => l \in Drains,
         fresh'[t] # {} => l \in Drains \ {"take"}
  PROVE  OnceInv'
<1> USE ProcTypes, HandlersAre
<1>1. pc'[t] = l /\ \A q \in Proc : q # t => pc'[q] = pc[q]
  BY GotoValue DEF TypeOK
<1>2. Own(t) /\ Own(t)'
  BY <1>1 DEF Own
<1>3. ASSUME NEW i \in Input, ~Own(i)' PROVE OnceFor(i)'
  <2>1. ~Own(i) /\ i # t
    BY <1>1, <1>2, <1>3 DEF Own
  <2>2. OnceFor(i)
    BY <2>1 DEF OnceInv
  <2>3. With(i, t)'
    BY <2>1, <2>2 DEF OnceFor, Unheard, With
  <2>4. ASSUME NEW s \in Turn, s # t PROVE Carried(i, s)'
    <3>1. fresh'[s] = {} /\ pc'[s] \notin {"check", "stream"} /\ (s \in Handlers => pc'[s] \notin Drains)
      BY <1>1, <2>4, OthersRest
    <3> QED BY <3>1 DEF Carried
  <2>5. pc'[i] = "idle" \/ i \in pending' => Unheard(i)'
    <3>1. pc'[i] = pc[i]
      BY <1>1, <2>1
    <3>2. pc[i] = "idle" \/ i \in pending' => Unheard(i)
      BY <2>2 DEF OnceFor
    <3> QED BY <2>3, <3>1, <3>2 DEF With, Unheard
  <2> QED BY <2>3, <2>4, <2>5 DEF With, OnceFor
<1>4. promoted' # {} => \E s \in Handlers : pc'[s] \in Drains
  BY <1>1
<1>5. \A s \in Turn : fresh'[s] # {} => pc'[s] \in Drains \ {"take"}
  BY <1>1, OthersRest
<1> QED BY <1>3, <1>4, <1>5 DEF OnceInv

LEMMA AppendAdds ==
  ASSUME NEW S, Record(S)
  PROVE  \A i \in Text : recorded'[i] = recorded[i] + IF i \in S THEN 1 ELSE 0
BY DEF Record

\* The turn of a handler, step by step: what it drains it has yet to record, and what it
\* mirrors it will not record again.
LEMMA OnceTurn ==
  ASSUME TypeOK, MutexOwner, QuietInv, OnceInv, NEW t \in Handlers, TurnStep(t)
  PROVE  OnceInv'
<1> USE ProcTypes, HandlersAre
<1>0. /\ pc \in [Proc -> PC] /\ fresh \in [Turn -> SUBSET Text]
      /\ steer \in [Turn -> SUBSET Input] /\ mirrored \in [Turn -> SUBSET Text]
      /\ recorded \in [Text -> Nat] /\ t \in Proc /\ t \in Turn
  BY DEF TypeOK
<1>1. pc[t] \in Working
  BY DEF TurnStep, SyncModel, SyncModelFails, SetResumePrompt, AddPrompt, Enter,
         StopCancelled, Drain, Iterate, IterationLimit, StreamStep, StreamFails,
         StreamAgain, StreamAnswers, StreamTools, FinalDrain, FinalSync, TakePromoted,
         ClearResumePrompt, Release, Working
<1>2. t \notin cancelled /\ outcome[t] # "cancel"
  BY <1>1 DEF QuietInv, Serving, Working
<1>3. pc[t] \notin Drains => promoted = {}
  BY <1>1, OthersRest
<1>4. \A i \in Input : ~Own(i) => i # t
  BY <1>1 DEF Own
<1>5. fresh[t] # {} => pc[t] \in Drains \ {"take"}
  BY DEF OnceInv
<1>6. CASE SyncModel(t) \/ SyncModelFails(t) \/ SetResumePrompt(t) \/ IterationLimit(t)
             \/ StreamFails(t) \/ StreamAgain(t) \/ StreamAnswers(t) \/ ClearResumePrompt(t)
  <2>1. UNCHANGED <<pending, promoted, steer, fresh, mirrored, recorded>>
    BY <1>6 DEF SyncModel, SyncModelFails, SetResumePrompt, IterationLimit, StreamFails,
         StreamAgain, StreamAnswers, ClearResumePrompt, inboxVars, turnVars, sessionVars
  <2>2. \E l \in Working : /\ Goto(t, l) /\ (pc[t] \in Drains <=> l \in Drains)
                           /\ l # "take"
                           /\ l \in {"check", "stream"} => pc[t] \in {"check", "stream"}
    BY <1>6 DEF SyncModel, SyncModelFails, SetResumePrompt, IterationLimit, StreamFails,
         StreamAgain, StreamAnswers, ClearResumePrompt, Drains, Working
  <2>3. PICK l \in Working : /\ Goto(t, l) /\ (pc[t] \in Drains <=> l \in Drains)
                             /\ l # "take"
                             /\ l \in {"check", "stream"} => pc[t] \in {"check", "stream"}
    BY <2>2
  <2>4. l # "idle" /\ Own(t)'
    BY <1>0, <2>3, GotoValue DEF Own, Working
  <2> QED BY <2>1, <2>3, <2>4, OnceFrame
<1>7. CASE AddPrompt(t)
  <2>1. /\ pc[t] = "record" /\ Goto(t, "enter") /\ pc'[t] = "enter"
        /\ \A i \in Text : i # t => recorded'[i] = recorded[i]
        /\ \A q \in Proc : q # t => pc'[q] = pc[q]
        /\ UNCHANGED <<pending, promoted, steer, fresh, mirrored>>
    BY <1>0, <1>7, GotoValue DEF AddPrompt, inboxVars, turnVars
  <2>2. promoted = {} /\ fresh[t] = {}
    BY <1>3, <1>5, <2>1 DEF Drains
  <2>3. ASSUME NEW i \in Input, ~Own(i), With(i, t) PROVE With(i, t)'
    BY <1>4, <2>1, <2>2, <2>3 DEF With, Carried
  <2> QED BY <1>1, <2>1, <2>2, <2>3, OnceStep DEF Working
<1>8. CASE Enter(t)
  <2>1. /\ pc[t] = "enter" /\ Goto(t, "drain") /\ pc'[t] = "drain"
        /\ \A s \in Turn : s # t => fresh'[s] = fresh[s]
        /\ fresh'[t] \subseteq {t}
        /\ \A q \in Proc : q # t => pc'[q] = pc[q]
        /\ UNCHANGED <<pending, promoted, steer, mirrored, recorded>>
    BY <1>0, <1>8, GotoValue DEF Enter, inboxVars, sessionVars
  <2>2. promoted = {}
    BY <1>3, <2>1 DEF Drains
  <2>3. ASSUME NEW i \in Input, ~Own(i), With(i, t) PROVE With(i, t)'
    BY <1>4, <2>1, <2>2, <2>3 DEF With, Carried
  <2> QED BY <1>1, <2>1, <2>2, <2>3, OnceStep DEF Working, Drains
<1>9. CASE StopCancelled(t)
  BY <1>2, <1>9 DEF StopCancelled
<1>10. CASE Drain(t) \/ FinalDrain(t)
  <2>1. /\ pc[t] \in {"drain", "final", "hold"}
        /\ \E l \in {"check", "final", "hold", "sync"} : Goto(t, l)
        /\ steer' = [steer EXCEPT ![t] = pending]
        /\ promoted' = promoted \cup pending /\ pending' = {}
        /\ UNCHANGED <<fresh, mirrored, recorded>>
    BY <1>10 DEF Drain, FinalDrain, DrainInto, sessionVars
  <2>2. PICK l \in {"check", "final", "hold", "sync"} : Goto(t, l)
    BY <2>1
  <2>3. pc'[t] = l /\ \A q \in Proc : q # t => pc'[q] = pc[q]
    BY <1>0, <2>2, GotoValue
  <2>4. ASSUME NEW i \in Input, ~Own(i), With(i, t) PROVE With(i, t)'
    <3>1. steer'[t] = pending
      BY <1>0, <2>1
    <3>2. Carried(i, t)'
      BY <2>1, <2>4, <3>1 DEF With, Carried, Drains
    <3>3. pc'[i] = pc[i]
      BY <1>4, <2>3, <2>4
    <3> QED BY <2>1, <2>4, <3>2, <3>3 DEF With
  <2>5. l \in Working /\ l \in Drains \ {"take"}
    BY DEF Working, Drains
  <2> QED BY <1>1, <2>1, <2>2, <2>4, <2>5, OnceStep
<1>11. CASE Iterate(t)
  <2>1. /\ pc[t] = "check" /\ Goto(t, "stream") /\ pc'[t] = "stream"
        /\ \A q \in Proc : q # t => pc'[q] = pc[q]
        /\ fresh' = [fresh EXCEPT ![t] = @ \cup steer[t]]
        /\ steer' = [steer EXCEPT ![t] = {}]
        /\ UNCHANGED <<pending, promoted, mirrored, recorded>>
    BY <1>0, <1>11, GotoValue DEF Iterate, inboxVars, sessionVars
  <2>2. /\ fresh'[t] = fresh[t] \cup steer[t] /\ steer'[t] = {}
        /\ \A s \in Turn : s # t => fresh'[s] = fresh[s]
    BY <1>0, <2>1
  <2>3. ASSUME NEW i \in Input, ~Own(i), With(i, t) PROVE With(i, t)'
    BY <1>4, <2>1, <2>2, <2>3 DEF With, Carried, Drains
  <2> QED BY <1>1, <2>1, <2>2, <2>3, OnceStep DEF Working, Drains
<1>12. CASE StreamTools(t) \/ FinalSync(t)
  <2>1. /\ pc[t] \in {"stream", "sync"} /\ \E l \in {"drain", "take"} : Goto(t, l)
        /\ Record(fresh[t])
        /\ mirrored' = [mirrored EXCEPT ![t] = @ \cup fresh[t]]
        /\ fresh' = [fresh EXCEPT ![t] = {}]
        /\ UNCHANGED <<pending, promoted, steer>>
    BY <1>2, <1>12 DEF StreamTools, FinalSync, Mirror, inboxVars
  <2>2. PICK l \in {"drain", "take"} : Goto(t, l)
    BY <2>1
  <2>3. pc'[t] = l /\ \A q \in Proc : q # t => pc'[q] = pc[q]
    BY <1>0, <2>2, GotoValue
  <2>4. /\ mirrored'[t] = mirrored[t] \cup fresh[t] /\ fresh'[t] = {}
        /\ \A s \in Turn : s # t => fresh'[s] = fresh[s] /\ mirrored'[s] = mirrored[s]
    BY <1>0, <2>1
  <2>5. ASSUME NEW i \in Input, ~Own(i), With(i, t) PROVE With(i, t)'
    <3>1. recorded'[i] = recorded[i] + IF i \in fresh[t] THEN 1 ELSE 0
      BY <2>1, AppendAdds
    <3>2. recorded[i] \in Nat /\ pc[t] \in Drains /\ pc'[i] = pc[i]
      BY <1>0, <1>4, <2>1, <2>3, <2>5 DEF Drains
    <3>3. i \in fresh[t] => i \in promoted /\ i \notin mirrored[t] /\ recorded[i] = 0
      BY <2>5, <3>2 DEF With, Carried
    <3>4. Carried(i, t)'
      BY <2>1, <2>3, <2>4, <2>5, <3>1, <3>2, <3>3 DEF With, Carried
    <3>5. i \in fresh[t] => i \notin pending /\ pc[i] # "idle"
      BY <2>5 DEF With
    <3> QED BY <2>1, <2>4, <2>5, <3>1, <3>2, <3>3, <3>4, <3>5 DEF With
  <2>6. l \in Working /\ l \in Drains
    BY DEF Working, Drains
  <2> QED BY <1>1, <2>1, <2>2, <2>4, <2>5, <2>6, OnceStep
<1>13. CASE TakePromoted(t)
  <2> DEFINE late == promoted \ mirrored[t]
  <2>1. /\ pc[t] = "take" /\ \E l \in {"clear", "release"} : Goto(t, l)
        /\ Record(late) /\ promoted' = {}
        /\ UNCHANGED <<pending, steer, fresh, mirrored>>
    BY <1>13 DEF TakePromoted, turnVars
  <2>2. PICK l \in {"clear", "release"} : Goto(t, l)
    BY <2>1
  <2>3. pc'[t] = l /\ \A q \in Proc : q # t => pc'[q] = pc[q]
    BY <1>0, <2>2, GotoValue
  <2>4. fresh[t] = {}
    BY <1>5, <2>1
  <2>5. ASSUME NEW i \in Input, ~Own(i), With(i, t) PROVE With(i, t)'
    <3>1. recorded'[i] = recorded[i] + IF i \in late THEN 1 ELSE 0
      BY <2>1, AppendAdds
    <3>2. recorded[i] \in Nat /\ pc[t] \in Drains /\ pc'[i] = pc[i]
      BY <1>0, <1>4, <2>1, <2>3, <2>5 DEF Drains
    <3>3. i \in late => recorded[i] = 0 /\ i \notin pending /\ pc[i] # "idle"
      BY <2>5, <3>2 DEF With, Carried
    <3>4. Carried(i, t)'
      BY <2>1, <2>3, <2>4 DEF Carried
    <3> QED BY <2>1, <2>5, <3>1, <3>2, <3>3, <3>4 DEF With
  <2>6. l \in Working
    BY DEF Working
  <2> QED BY <1>1, <2>1, <2>2, <2>4, <2>5, <2>6, OnceStep
<1>14. CASE Release(t)
  <2>1. /\ pc[t] = "release" /\ Goto(t, "done") /\ pc'[t] = "done"
        /\ \A q \in Proc : q # t => pc'[q] = pc[q]
        /\ fresh'[t] = {} /\ mirrored'[t] = {} /\ steer'[t] = {}
        /\ \A s \in Turn : s # t => fresh'[s] = fresh[s] /\ mirrored'[s] = mirrored[s]
        /\ UNCHANGED <<pending, promoted, recorded>>
    BY <1>0, <1>14, GotoValue DEF Release, inboxVars, sessionVars
  <2>2. promoted = {}
    BY <1>3, <2>1 DEF Drains
  <2>3. ASSUME NEW i \in Input, ~Own(i), With(i, t) PROVE With(i, t)'
    BY <1>4, <2>1, <2>2, <2>3 DEF With, Carried
  <2> QED BY <1>1, <2>1, <2>2, <2>3, OnceStep
<1> QED BY <1>6, <1>7, <1>8, <1>9, <1>10, <1>11, <1>12, <1>13, <1>14 DEF TurnStep, StreamStep

\* The resuming turn has nothing in hand, whatever it does.
LEMMA OnceBoot ==
  ASSUME TypeOK, QuietInv, OnceInv, BootStep \/ TurnStep(Boot)
  PROVE  OnceInv'
<1> USE ProcTypes, HandlersAre
<1>0. /\ pc \in [Proc -> PC] /\ recorded \in [Text -> Nat] /\ Boot \in Proc /\ Boot \in Turn
      /\ fresh \in [Turn -> SUBSET Text] /\ steer \in [Turn -> SUBSET Input]
      /\ mirrored \in [Turn -> SUBSET Text]
  BY DEF TypeOK
<1>1. fresh[Boot] = {} /\ steer[Boot] = {} /\ mirrored[Boot] = {} /\ Boot \notin Input
  BY KindsAreDisjoint DEF QuietInv, BootIdles, Input
<1>2. /\ \A i \in Input : recorded'[i] = recorded[i]
      /\ UNCHANGED <<pending, promoted>> /\ fresh' = fresh /\ mirrored' = mirrored /\ steer' = steer
      /\ \E l \in PC \ {"check", "stream"} : Goto(Boot, l)
  <2>1. CASE BootStep
    BY <2>1 DEF BootStep, ScheduleResume, ResumeInterruptedTask, inboxVars, turnVars,
         sessionVars, PC, Working, Ended
  <2>2. CASE TurnStep(Boot)
    <3>1. \/ pc[Boot] \in {"release", "start", "prompt", "record"}
          \/ pc[Boot] = "enter" /\ Boot \in cancelled
          \/ pc[Boot] = "sync"
      <4>1. pc[Boot] \in Working \ {"look"}
        BY <2>2 DEF TurnStep, SyncModel, SyncModelFails, SetResumePrompt, AddPrompt, Enter,
           StopCancelled, Drain, Iterate, IterationLimit, StreamStep, StreamFails,
           StreamAgain, StreamAnswers, StreamTools, FinalDrain, FinalSync, TakePromoted,
           ClearResumePrompt, Release, Working
      <4> QED BY <4>1 DEF QuietInv, BootIdles
    <3>2. \/ SyncModel(Boot) \/ SyncModelFails(Boot) \/ SetResumePrompt(Boot)
          \/ AddPrompt(Boot) \/ StopCancelled(Boot) \/ FinalSync(Boot) \/ Release(Boot)
      BY <2>2, <3>1 DEF TurnStep, Enter, Drain, Iterate, IterationLimit, StreamStep,
         StreamFails, StreamAgain, StreamAnswers, StreamTools, FinalDrain, TakePromoted,
         ClearResumePrompt
    <3>3. CASE FinalSync(Boot)
      <4>1. /\ Record({}) /\ mirrored' = mirrored /\ fresh' = fresh
            /\ UNCHANGED <<pending, promoted, steer>>
            /\ \E l \in PC \ {"check", "stream"} : Goto(Boot, l)
        BY <1>0, <1>1, <3>3 DEF FinalSync, Mirror, inboxVars, PC, Working
      <4>2. \A i \in Input : recorded'[i] = recorded[i]
        BY <1>0, <4>1, AppendAdds
      <4> QED BY <4>1, <4>2
    <3>4. CASE Release(Boot)
      BY <1>0, <1>1, <3>4 DEF Release, inboxVars, sessionVars, PC, Ended
    <3>5. CASE AddPrompt(Boot)
      BY <1>0, <1>1, <3>5 DEF AddPrompt, inboxVars, turnVars, PC, Working
    <3>6. CASE SyncModel(Boot) \/ SyncModelFails(Boot) \/ SetResumePrompt(Boot)
                 \/ StopCancelled(Boot)
      BY <3>6 DEF SyncModel, SyncModelFails, SetResumePrompt, StopCancelled, inboxVars,
         turnVars, sessionVars, PC, Working
    <3> QED BY <3>2, <3>3, <3>4, <3>5, <3>6
  <2> QED BY <2>1, <2>2
<1>3. /\ pc'[Boot] \notin {"check", "stream"}
      /\ \A q \in Proc : q # Boot => pc'[q] = pc[q]
  BY <1>0, <1>2, GotoValue
<1>4. ASSUME NEW i \in Input, ~Own(i)' PROVE OnceFor(i)'
  <2>1. ~Own(i) /\ OnceFor(i) /\ pc'[i] = pc[i]
    BY <1>1, <1>3, <1>4 DEF OnceInv, Own
  <2>2. ASSUME NEW s \in Turn PROVE Carried(i, s)'
    <3>1. Carried(i, s)
      BY <2>1 DEF OnceFor
    <3> QED BY <1>1, <1>2, <1>3, <3>1 DEF Carried
  <2> QED BY <1>2, <2>1, <2>2 DEF OnceFor, Unheard
<1>5. promoted' # {} => \E s \in Handlers : pc'[s] \in Drains
  BY <1>2, <1>3 DEF OnceInv
<1>6. \A s \in Turn : fresh'[s] # {} => pc'[s] \in Drains \ {"take"}
  BY <1>1, <1>2, <1>3 DEF OnceInv
<1> QED BY <1>4, <1>5, <1>6 DEF OnceInv

LEMMA OnceNext ==
  ASSUME Resets = {}, MaxCrashes = 0
  PROVE  TypeOK /\ MutexOwner /\ QuietInv /\ OnceInv /\ [Next]_vars => OnceInv'
<1> SUFFICES ASSUME TypeOK, MutexOwner, QuietInv, OnceInv, [Next]_vars PROVE OnceInv'
  OBVIOUS
<1> USE ProcTypes
<1>1. CASE Arrive
  <2>1. \A m \in Texts : LaunchText(m) \/ SaturatedText(m) => OnceInv'
    BY OnceAdmit DEF LaunchText, SaturatedText, turnVars, sessionVars
  <2>2. ASSUME NEW c \in Commands, LaunchCommand(c) \/ SaturatedCommand(c) PROVE OnceInv'
    <3>1. /\ UNCHANGED <<pending, promoted, steer, fresh, mirrored, recorded>>
          /\ pc[c] = "idle" /\ \E l \in {"admitted", "cancelActive", "refused"} : Goto(c, l)
      BY <2>2 DEF LaunchCommand, SaturatedCommand, inboxVars, turnVars, sessionVars
    <3>2. ~Own(c) /\ c \in Proc
      BY <3>1 DEF Own, Working
    <3> QED BY <3>1, <3>2, OnceFrame DEF Drains
  <2>3. \A n \in Notes : Notify(n) => OnceInv'
    BY OnceAdmit DEF Notify, turnVars, sessionVars
  <2> QED BY <1>1, <2>1, <2>2, <2>3 DEF Arrive
<1>2. ASSUME NEW t \in Texts \cup Pins, HandlerStep(t) PROVE OnceInv'
  <2>1. /\ UNCHANGED <<promoted, steer, fresh, mirrored, recorded>>
        /\ pending' \subseteq pending
        /\ pc[t] \notin Drains
        /\ \E l \in PC \ (Drains \cup {"idle"}) :
             Goto(t, l) /\ (pc[t] = "register" => l \in Working)
    BY <1>2 DEF HandlerStep, BeginWait, Acquire, SameGeneration, DropStale, Claim,
         DropPromoted, Register, inboxVars, turnVars, sessionVars, Drains, Working, Holding,
         Ended, PC
  <2>2. PICK l \in PC \ (Drains \cup {"idle"}) :
          Goto(t, l) /\ (pc[t] = "register" => l \in Working)
    BY <2>1
  <2>3. Own(t) => pc[t] = "register"
    BY <1>2 DEF Own, HandlerStep, BeginWait, Acquire, SameGeneration, DropStale, Claim,
         DropPromoted, Register, Working
  <2>4. Own(t) => Own(t)'
    BY <2>2, <2>3, GotoValue DEF Own, TypeOK
  <2>5. l \notin {"take", "check", "stream"}
    BY <2>2 DEF Drains
  <2> QED BY <2>1, <2>2, <2>4, <2>5, OnceFrame
<1>3. ASSUME NEW t \in Turn, TurnStep(t) PROVE OnceInv'
  BY <1>3, HandlersAre, OnceTurn, OnceBoot
<1>4. CASE BootStep
  BY <1>4, OnceBoot
<1>5. ~Crash
  BY DEF Crash, TypeOK
<1>6. CASE UNCHANGED vars
  BY <1>6 DEF vars, handlerVars, inboxVars, turnVars, sessionVars, OnceInv, OnceFor, Own,
       Unheard, Carried
<1> QED BY <1>1, <1>2, <1>3, <1>4, <1>5, <1>6 DEF Next

\* Of a peer whose turns nobody cancels: a text that was steered into a turn, whatever the
\* number of turns, rounds, notes and messages beside it, is in the history at most once.
THEOREM SteeredTextOnce ==
  ASSUME Resets = {}, MaxCrashes = 0, InitialResume = {NoTurn}
  PROVE  Spec => []SteeredOnce
<1>1. Init => MutexOwner /\ QuietInv /\ OnceInv
  BY MutexOwnerInit, QuietInit, OnceInit
<1>2. TypeOK /\ MutexOwner /\ QuietInv /\ OnceInv /\ [Next]_vars
        => (MutexOwner /\ QuietInv /\ OnceInv)'
  BY MutexOwnerNext, QuietNext, OnceNext
<1>3. OnceInv => SteeredOnce
  BY DEF OnceInv, OnceFor, Own, SteeredOnce, Working
<1> QED BY <1>1, <1>2, <1>3, TypeCorrect, PTL DEF Spec


-----------------------------------------------------------------------------
(* Slots: each session has one at most.                                     *)


\* What the proof needs to know of the shape of the state.
Shape == DOMAIN at = Procs /\ DOMAIN got = Procs /\ DOMAIN owner = SlotIds

LivingInv == Shape /\ OneSlotEach /\ FinishedHoldNothing

LEMMA Kinds == /\ Sessions \subseteq Procs /\ ResetCalls \subseteq Procs
               /\ \A s \in Sessions : s \notin ResetCalls /\ SessionOf(s) = s
               /\ \A q \in Procs : SessionOf(q) \in Sessions
               /\ None \notin Sessions
BY SlotAssumption DEF Sessions, Procs, SessionOf

\* A step of one process moves that process and no other.
LEMMA MoveShape ==
  ASSUME Shape, NEW q \in Procs, NEW to, NEW what, Move(q, to, what)
  PROVE  /\ DOMAIN at' = Procs /\ DOMAIN got' = Procs
         /\ \A r \in Procs : at'[r] = IF r = q THEN to ELSE at[r]
         /\ \A r \in Procs : got'[r] = IF r = q THEN what ELSE got[r]
BY DEF Shape, Move

\* A slot that is given is a slot, the session's own if it has one.
LEMMA GivenIsSlot ==
  ASSUME NEW s, NEW n \in Given(s)
  PROVE  n \in SlotIds /\ (SlotOf(s) # {} => n \in SlotOf(s))
BY DEF Given, SlotOf, First, Oldest

\* The owners stay as they are in every step but the one that gives a slot and
\* the one that takes it back; a sub-agent ends in the step that finds it
\* without a slot or takes the slot back.
LEMMA QuietSlotStep ==
  ASSUME LivingInv, owner' = owner, NEW q \in Procs, NEW to, NEW what, Move(q, to, what),
         to # "ended" \/ SlotOf(SessionOf(q)) = {}
  PROVE  LivingInv'
<1>1. Shape'
  BY MoveShape DEF LivingInv, Shape
<1>2. \A s \in Sessions : SlotOf(s)' = SlotOf(s)
  BY DEF SlotOf
<1>3. \A r \in Procs : at'[r] = IF r = q THEN to ELSE at[r]
  BY MoveShape DEF LivingInv
<1>4. FinishedHoldNothing'
  <2> SUFFICES ASSUME NEW s \in Subs, at'[s] = "ended" PROVE SlotOf(s)' = {}
    BY DEF FinishedHoldNothing
  <2>1. s \in Sessions /\ s \in Procs /\ SessionOf(s) = s
    BY Kinds DEF Sessions
  <2> QED BY <1>2, <1>3, <2>1 DEF LivingInv, FinishedHoldNothing
<1>5. OneSlotEach'
  BY <1>2 DEF LivingInv, OneSlotEach
<1> QED BY <1>1, <1>4, <1>5 DEF LivingInv

\* A step that moves nobody.
LEMMA IdleStep == ASSUME LivingInv, UNCHANGED <<at, got, owner>> PROVE LivingInv'
BY DEF LivingInv, Shape, OneSlotEach, FinishedHoldNothing, SlotOf

LEMMA AssignStep == ASSUME LivingInv, NEW s \in Sessions, Assign(s) PROVE LivingInv'
<1>1. s \in Procs /\ SessionOf(s) = s /\ s # None
  BY Kinds
<1>2. CASE Given(s) = {} /\ GoToWork(s) /\ UNCHANGED <<owner, recent, calm>>
  BY <1>1, <1>2, QuietSlotStep DEF GoToWork
<1>3. ASSUME NEW n \in Given(s), NEW to \in {"work", "saveOut", "restore"}, NEW what,
             owner' = [owner EXCEPT ![n] = s], Move(s, to, what)
      PROVE  LivingInv'
  <2>1. Shape /\ n \in SlotIds /\ (SlotOf(s) # {} => n \in SlotOf(s))
    BY GivenIsSlot DEF LivingInv
  <2>2. \A m \in SlotIds : owner'[m] = IF m = n THEN s ELSE owner[m]
    BY <1>3, <2>1 DEF Shape
  <2>3. \A r \in Sessions \ {s} : SlotOf(r)' \subseteq SlotOf(r)
    BY <2>2 DEF SlotOf
  <2>4. SlotOf(s)' = {n}
    <3>1. \A m \in SlotOf(s) : m = n
      BY <2>1 DEF LivingInv, OneSlotEach
    <3> QED BY <2>1, <2>2, <3>1 DEF SlotOf
  <2>5. OneSlotEach'
    BY <2>3, <2>4 DEF LivingInv, OneSlotEach
  <2>6. Shape'
    BY <1>1, <1>3, <2>1, MoveShape DEF Shape
  <2>7. \A r \in Procs : at'[r] = IF r = s THEN to ELSE at[r]
    BY <1>1, <1>3, <2>1, MoveShape
  <2>8. Subs \subseteq Sessions /\ Subs \subseteq Procs
    BY DEF Sessions, Procs
  <2>9. FinishedHoldNothing'
    BY <1>3, <2>3, <2>7, <2>8 DEF LivingInv, FinishedHoldNothing
  <2> QED BY <2>5, <2>6, <2>9 DEF LivingInv
<1> QED BY <1>2, <1>3 DEF Assign

LEMMA ForgetStep == ASSUME LivingInv, NEW q \in Procs, Forget(q) PROVE LivingInv'
<1> DEFINE mine == SlotOf(SessionOf(q))
<1>1. /\ owner' = [n \in SlotIds |-> IF n \in mine THEN None ELSE owner[n]]
      /\ Move(q, AfterDrop(q), Nothing)
  BY DEF Forget
<1>2. SessionOf(q) \in Sessions /\ None \notin Sessions
  BY Kinds
<1>3. \A s \in Sessions : SlotOf(s)' \subseteq SlotOf(s)
  BY <1>1, <1>2 DEF SlotOf
<1>4. SlotOf(SessionOf(q))' = {}
  <2>1. ASSUME NEW n \in SlotIds, owner'[n] = SessionOf(q) PROVE FALSE
    BY <1>1, <1>2, <2>1 DEF SlotOf
  <2>2. SessionOf(q)' = SessionOf(q)
    BY DEF SessionOf
  <2> QED BY <2>1, <2>2 DEF SlotOf
<1>5. OneSlotEach'
  BY <1>3 DEF LivingInv, OneSlotEach
<1>6. Shape'
  BY <1>1, MoveShape DEF LivingInv, Shape
<1>7. \A r \in Procs \ {q} : at'[r] = at[r]
  BY <1>1, MoveShape DEF LivingInv
<1>8. FinishedHoldNothing'
  <2> SUFFICES ASSUME NEW s \in Subs, at'[s] = "ended" PROVE SlotOf(s)' = {}
    BY DEF FinishedHoldNothing
  <2>1. s \in Sessions /\ s \in Procs /\ SessionOf(s) = s
    BY Kinds DEF Sessions
  <2>2. CASE s = q
    BY <1>4, <2>1, <2>2 DEF SessionOf
  <2>3. CASE s # q
    BY <1>3, <1>7, <2>1, <2>3 DEF LivingInv, FinishedHoldNothing
  <2> QED BY <2>2, <2>3
<1> QED BY <1>5, <1>6, <1>8 DEF LivingInv

LEMMA LivingInit == SlotInit => LivingInv
<1> SUFFICES ASSUME SlotInit PROVE LivingInv
  OBVIOUS
<1>1. \A s \in Sessions : SlotOf(s) = {}
  BY Kinds DEF SlotInit, SlotOf
<1>2. Subs \subseteq Sessions
  BY DEF Sessions
<1> QED BY <1>1, <1>2 DEF SlotInit, LivingInv, Shape, OneSlotEach, FinishedHoldNothing

LEMMA LivingNext == LivingInv /\ [SlotNext]_slotVars => LivingInv'
<1> SUFFICES ASSUME LivingInv, [SlotNext]_slotVars PROVE LivingInv'
  OBVIOUS
<1>1. ASSUME NEW a \in Aliases, SwitchModel(a) PROVE LivingInv'
  BY <1>1, IdleStep DEF SwitchModel
<1>2. ASSUME NEW found \in BOOLEAN, ClearAllSlots(found) PROVE LivingInv'
  BY <1>2, IdleStep DEF ClearAllSlots
<1>3. ASSUME NEW s \in Sessions, Work(s) PROVE LivingInv'
  <2>0. s \in Procs
    BY Kinds
  <2>1. CASE StartTurn(s)
    BY <2>0, <2>1, QuietSlotStep DEF StartTurn
  <2>2. CASE Spawn(s)
    BY <2>0, <2>2, QuietSlotStep DEF Spawn
  <2>3. CASE Check(s)
    <3>1. PICK to \in {"probe", "look"} : Move(s, to, [got[s] EXCEPT !.alias = current])
      BY <2>3 DEF Check
    <3> QED BY <2>0, <2>3, <3>1, QuietSlotStep DEF Check
  <2>4. CASE Look(s)
    BY <2>0, <2>4, QuietSlotStep DEF Look, GoToWork
  <2>5. CASE Assign(s)
    BY <2>5, AssignStep
  <2>6. CASE Round(s)
    <3>1. PICK to \in {"save", "work"} : (\E what : Move(s, to, what)) /\ owner' = owner
      BY <2>6 DEF Round
    <3> QED BY <2>0, <3>1, QuietSlotStep
  <2>7. CASE Save(s)
    <3>1. PICK to \in {"write", "work"} : (\E what : Move(s, to, what)) /\ owner' = owner
      BY <2>7 DEF Save, Go
    <3> QED BY <2>0, <3>1, QuietSlotStep
  <2>8. CASE EndWork(s)
    <3>1. PICK to \in {"idle", "drop"} : (\E what : Move(s, to, what)) /\ owner' = owner
      BY <2>8 DEF EndWork
    <3> QED BY <2>0, <3>1, QuietSlotStep
  <2>9. ASSUME NEW found \in BOOLEAN, Probe(s, found) \/ EraseOut(s, found) PROVE LivingInv'
    BY <2>0, <2>9, QuietSlotStep DEF Probe, EraseOut, Go, GoToWork
  <2>10. ASSUME NEW answer \in Answers, Restore(s, answer) \/ SaveOut(s, answer) \/ Write(s, answer)
         PROVE LivingInv'
    BY <2>0, <2>10, QuietSlotStep DEF Restore, SaveOut, Write, Go, GoToWork
  <2> QED BY <1>3, <2>1, <2>2, <2>3, <2>4, <2>5, <2>6, <2>7, <2>8, <2>9, <2>10 DEF Work
<1>4. ASSUME NEW r \in ResetCalls, StartReset(r) PROVE LivingInv'
  BY <1>4, Kinds, QuietSlotStep DEF StartReset
<1>5. ASSUME NEW q \in Procs, Drop(q) PROVE LivingInv'
  <2> DEFINE mine == SlotOf(SessionOf(q))
             read(n) == [got[q] EXCEPT !.alias = current, !.slot = n]
  <2>1. owner' = owner
    BY <1>5 DEF Drop
  <2>2. \/ mine = {} /\ Move(q, AfterDrop(q), Nothing)
        \/ \E n \in mine : Move(q, "erase", read(n))
    BY <1>5 DEF Drop
  <2> HIDE DEF read
  <2> QED BY <2>1, <2>2, QuietSlotStep
<1>6. ASSUME NEW q \in Procs, Forget(q) PROVE LivingInv'
  BY <1>6, ForgetStep
<1>7. ASSUME NEW q \in Procs, NEW done \in BOOLEAN, Erase(q, done) PROVE LivingInv'
  BY <1>7, QuietSlotStep DEF Erase, Go
<1>8. CASE UNCHANGED slotVars
  BY <1>8, IdleStep DEF slotVars
<1> QED BY <1>1, <1>2, <1>3, <1>4, <1>5, <1>6, <1>7, <1>8 DEF SlotNext

\* Whatever the servers answer, however turns, compactions, resets, evictions
\* and changes of the model interleave, a session has one slot at most and a
\* sub-agent that is done has none.
THEOREM LivingHoldSlots == SlotSpec => []SlotsOfTheLiving
<1>1. LivingInv => SlotsOfTheLiving
  BY DEF LivingInv, SlotsOfTheLiving
<1> QED BY <1>1, LivingInit, LivingNext, PTL DEF SlotSpec

-----------------------------------------------------------------------------
(* CacheIsKept.  As long as nothing was taken from a session at work, at     *)
(* most one process is at work for a session, and it touches no slot but the *)
(* session's own and the free ones; so what a process has found out about    *)
(* its slot stays true until it uses it.                                     *)

Early   == {"check", "probe", "look", "assign"}
OnSlot == Early \cup {"restore", "saveOut", "eraseOut", "work", "save", "write"}

CacheShape == DOMAIN cache = Hosts /\ \A h \in Hosts : DOMAIN cache[h] = SlotIds

\* What a process knows at a step, whatever the others do ...
Known(q, step, g) ==
  /\ DOMAIN g = {"alias", "model", "total", "slot"}
  /\ step \in Early => g.slot = -1
  /\ q \in Subs /\ step \in OnSlot => g.model \in Aliases

\* ... and what holds of its slot as long as everything is calm.
Fit(q, step, g, own, kept) ==
  /\ step \notin {"saveOut", "eraseOut"}
  /\ step \in {"restore", "work", "save", "write"} /\ g.slot # -1
       => g.slot \in SlotIds /\ own[g.slot] = SessionOf(q)
  /\ step = "erase" => g.slot \in SlotIds /\ own[g.slot] = SessionOf(q)
  /\ step \in {"save", "write"}
       => g.slot # -1 /\ g.model \in Aliases /\ kept[HostOf[g.model]][g.slot] = SessionOf(q)
  /\ step = "write" => g.total = g.slot

Alone(q) == \A r \in Procs \ {q} : AtWork(r) => SessionOf(r) # SessionOf(q)

CalmInv == /\ \A q \in Procs : AtWork(q) => Alone(q)
           /\ \A q \in Procs : Fit(q, at[q], got[q], owner, cache)

CacheInv == /\ LivingInv /\ CacheShape /\ current \in Aliases
            /\ \A q \in Procs : Known(q, at[q], got[q])
            /\ calm => CalmInv

\* A step leaves alone the slots of every session but the mover's.
Spares(q) == \A m \in SlotIds : owner[m] \notin {SessionOf(q), None}
               => owner'[m] = owner[m] /\ \A h \in Hosts : cache'[h][m] = cache[h][m]

LEMMA StepKeeps ==
  ASSUME CacheInv, LivingInv', CacheShape', current' \in Aliases,
         NEW q \in Procs, NEW to, NEW what, Move(q, to, what), Known(q, to, what),
         calm' => calm /\ Fit(q, to, what, owner', cache') /\ Spares(q) /\ (AtWork(q) \/ Alone(q))
  PROVE  CacheInv'
<1>1. /\ \A r \in Procs : at'[r] = IF r = q THEN to ELSE at[r]
      /\ \A r \in Procs : got'[r] = IF r = q THEN what ELSE got[r]
  BY MoveShape DEF CacheInv, LivingInv
<1>2. \A r \in Procs : Known(r, at'[r], got'[r])
  BY <1>1 DEF CacheInv
<1>3. ASSUME calm' PROVE CalmInv'
  <2>1. Alone(q) /\ CalmInv
    BY <1>3 DEF CacheInv, CalmInv
  <2>2. \A r \in Procs : AtWork(r)' => Alone(r)'
    <3> SUFFICES ASSUME NEW r \in Procs, AtWork(r)', NEW o \in Procs \ {r}, AtWork(o)'
                 PROVE  SessionOf(o) # SessionOf(r)
      BY DEF Alone, SessionOf
    <3>1. (r # q => AtWork(r)) /\ (o # q => AtWork(o))
      BY <1>1 DEF AtWork
    <3> QED BY <2>1, <3>1 DEF Alone, CalmInv
  <2>3. ASSUME NEW r \in Procs PROVE Fit(r, at'[r], got'[r], owner', cache')
    <3>1. CASE r = q
      BY <1>1, <1>3, <3>1
    <3>2. CASE r # q /\ ~AtWork(r)
      BY <1>1, <3>2 DEF AtWork, Fit
    <3>3. CASE r # q /\ AtWork(r)
      <4>1. SessionOf(r) \notin {SessionOf(q), None}
        BY <2>1, <3>3, Kinds DEF Alone
      <4>2. Fit(r, at[r], got[r], owner, cache)
        BY <2>1 DEF CalmInv
      <4>3. \A m \in SlotIds : owner[m] = SessionOf(r)
              => owner'[m] = SessionOf(r) /\ \A h \in Hosts : cache'[h][m] = cache[h][m]
        BY <1>3, <4>1 DEF Spares
      <4>4. \A a \in Aliases : HostOf[a] \in Hosts
        BY DEF Hosts
      <4> QED BY <1>1, <3>3, <4>2, <4>3, <4>4 DEF Fit
    <3> QED BY <3>1, <3>2, <3>3
  <2> QED BY <2>2, <2>3 DEF CalmInv, Fit, SessionOf
<1> QED BY <1>2, <1>3 DEF CacheInv, Known

\* The step that changes neither owners nor caches.
LEMMA QuietKeeps ==
  ASSUME CacheInv, LivingInv', UNCHANGED <<owner, cache, current>>, calm' => calm,
         NEW q \in Procs, NEW to, NEW what, Move(q, to, what), Known(q, to, what),
         calm => Fit(q, to, what, owner, cache),
         AtWork(q) \/ (calm' => Alone(q))
  PROVE  CacheInv'
<1>1. Spares(q)
  BY DEF Spares
<1>2. CacheShape' /\ current' \in Aliases
  BY DEF CacheInv, CacheShape
<1> QED BY <1>1, <1>2, StepKeeps

LEMMA NothingKnown == \A q \in Procs, to \in {"idle", "drop", "ended"} :
                        Known(q, to, Nothing) /\ \A own, kept : Fit(q, to, Nothing, own, kept)
BY DEF Known, Fit, Nothing, Early, OnSlot

\* A process that goes to work keeps its slot and the model it has.
LEMMA GoToWorkKeeps ==
  ASSUME CacheInv, LivingInv', UNCHANGED <<owner, current>>, calm' => calm,
         NEW s \in Sessions, at[s] \in OnSlot, GoToWork(s),
         NEW h, cache' \in {cache, [cache EXCEPT ![h][got[s].slot] = None]},
         cache' = cache \/ at[s] \notin Early,
         calm => at[s] \notin {"saveOut", "eraseOut"}
  PROVE  CacheInv'
<1> DEFINE what == [got[s] EXCEPT !.alias = None, !.total = 0]
<1>0. s \in Procs /\ SessionOf(s) = s
  BY Kinds
<1>1. Known(s, at[s], got[s])
  BY <1>0 DEF CacheInv
<1>2. Known(s, "work", what) /\ what.slot = got[s].slot
  BY <1>1 DEF Known, Early, OnSlot
<1>3. calm' => (got[s].slot \in SlotIds => owner[got[s].slot] = SessionOf(s))
  BY <1>0, <1>1 DEF CacheInv, CalmInv, Fit, Known, OnSlot, Early, SlotIds
<1>4. calm => Fit(s, at[s], got[s], owner, cache)
  BY <1>0 DEF CacheInv, CalmInv
<1>5. calm' => Fit(s, "work", what, owner, cache')
  BY <1>0, <1>1, <1>2, <1>4 DEF Fit, Known, OnSlot, Early
<1>6. AtWork(s)
  BY DEF AtWork, OnSlot, Early
<1>7. Move(s, "work", what)
  BY DEF GoToWork
<1>8. CacheShape' /\ current' \in Aliases
  BY DEF CacheInv, CacheShape
<1>9. ASSUME calm' PROVE Spares(s)
  BY <1>3, <1>9 DEF Spares, CacheInv, CacheShape
<1> HIDE DEF what
<1>10. Known(s, "work", what)
  BY <1>2
<1>11. calm' => calm /\ Fit(s, "work", what, owner', cache') /\ Spares(s) /\ (AtWork(s) \/ Alone(s))
  BY <1>5, <1>6, <1>9
<1> QED BY <1>0, <1>7, <1>8, <1>10, <1>11, StepKeeps

\* The steps before a session has its slot, and those that evict.
LEMMA EarlyKeep ==
  ASSUME CacheInv, LivingInv', NEW s \in Sessions,
         \/ StartTurn(s) \/ Spawn(s) \/ Check(s) \/ Look(s)
         \/ \E found \in BOOLEAN : Probe(s, found)
  PROVE  CacheInv'
<1>0. s \in Procs /\ SessionOf(s) = s /\ s \notin ResetCalls
  BY Kinds
<1>1. Known(s, at[s], got[s]) /\ current \in Aliases
  BY <1>0 DEF CacheInv
<1>2. CASE StartTurn(s)
  <2>1. PICK to \in {"check", "drop"} : Move(s, to, Nothing)
    BY <1>2 DEF StartTurn
  <2>2. Known(s, to, Nothing) /\ Fit(s, to, Nothing, owner, cache)
    BY <1>2, SlotAssumption DEF StartTurn, Known, Fit, Nothing, Early, OnSlot
  <2>3. ASSUME calm' PROVE Alone(s)
    <3>1. s \in Peers /\ \A r \in ResetCalls : ResetOf[r] = s => ~AtWork(r)
      BY <1>2, <2>3 DEF StartTurn
    <3> QED BY <1>0, <3>1 DEF Alone, SessionOf, Procs
  <2> QED BY <1>0, <1>2, <2>1, <2>2, <2>3, QuietKeeps DEF StartTurn
<1>3. CASE Spawn(s)
  <2> DEFINE what == [Nothing EXCEPT !.model = current]
  <2>1. Known(s, "check", what) /\ Fit(s, "check", what, owner, cache)
    BY <1>1 DEF Known, Fit, Nothing, Early, OnSlot
  <2>2. Alone(s)
    BY <1>0, <1>3, SlotAssumption DEF Spawn, Alone, SessionOf, Procs
  <2>3. Move(s, "check", what) /\ UNCHANGED <<owner, cache, current, calm>>
    BY <1>3 DEF Spawn
  <2> HIDE DEF what
  <2> QED BY <1>0, <2>1, <2>2, <2>3, QuietKeeps
<1>4. CASE Check(s)
  <2> DEFINE what == [got[s] EXCEPT !.alias = current]
  <2>1. PICK to \in {"probe", "look"} : Move(s, to, what)
    BY <1>4 DEF Check
  <2>2. Known(s, to, what) /\ Fit(s, to, what, owner, cache) /\ AtWork(s)
    BY <1>1, <1>4 DEF Check, Known, Fit, Early, OnSlot, AtWork
  <2>3. UNCHANGED <<owner, cache, current, calm>>
    BY <1>4 DEF Check
  <2> HIDE DEF what
  <2> QED BY <1>0, <2>1, <2>2, <2>3, QuietKeeps
<1>5. CASE Look(s)
  <2>0. UNCHANGED <<owner, cache, current, calm>> /\ at[s] = "look"
    BY <1>5 DEF Look
  <2>1. CASE GoToWork(s)
    BY <2>0, <2>1, GoToWorkKeeps DEF OnSlot, Early
  <2> DEFINE what == [got[s] EXCEPT !.total = total]
  <2>2. CASE Move(s, "assign", what)
    <3>1. Known(s, "assign", what) /\ Fit(s, "assign", what, owner, cache) /\ AtWork(s)
      BY <1>1, <2>0 DEF Known, Fit, Early, OnSlot, AtWork
    <3> HIDE DEF what
    <3> QED BY <1>0, <2>0, <2>2, <3>1, QuietKeeps
  <2> QED BY <1>5, <2>1, <2>2 DEF Look
<1>6. ASSUME NEW found \in BOOLEAN, Probe(s, found) PROVE CacheInv'
  <2>1. UNCHANGED <<owner, cache, current, calm>> /\ at[s] = "probe" /\ Move(s, "look", got[s])
    BY <1>6 DEF Probe, Go
  <2>2. Known(s, "look", got[s]) /\ Fit(s, "look", got[s], owner, cache) /\ AtWork(s)
    BY <1>1, <2>1 DEF Known, Fit, Early, OnSlot, AtWork
  <2> QED BY <1>0, <2>1, <2>2, QuietKeeps
<1> QED BY <1>2, <1>3, <1>4, <1>5, <1>6

LEMMA AssignKeeps == ASSUME CacheInv, LivingInv', NEW s \in Sessions, Assign(s) PROVE CacheInv'
<1>0. s \in Procs /\ SessionOf(s) = s /\ s # None
  BY Kinds
<1>1. Known(s, "assign", got[s]) /\ at[s] = "assign" /\ AtWork(s)
  BY <1>0 DEF Assign, CacheInv, AtWork
<1>2. CASE Given(s) = {} /\ GoToWork(s) /\ UNCHANGED <<owner, recent, calm>>
  BY <1>1, <1>2, GoToWorkKeeps DEF Assign, OnSlot, Early
<1>3. ASSUME NEW n \in Given(s)
      PROVE  LET evicted == owner[n] \notin {None, s}
                 usable  == s \in Subs \/ avail[HostOf[got[s].alias]] = "up"
             IN /\ owner' = [owner EXCEPT ![n] = s]
                /\ Move(s, IF ~usable THEN "work" ELSE IF evicted THEN "saveOut" ELSE "restore",
                        [got[s] EXCEPT !.total = 0, !.slot = IF usable THEN n ELSE -1])
                /\ calm' = (calm /\ ~evicted)
                => CacheInv'
  <2> DEFINE what(m) == [got[s] EXCEPT !.total = 0, !.slot = m]
  <2> SUFFICES ASSUME NEW to \in {"work", "saveOut", "restore"}, NEW m \in {n, -1},
                      owner' = [owner EXCEPT ![n] = s], Move(s, to, what(m)),
                      calm' => calm /\ owner[n] \in {None, s} /\ to # "saveOut"
               PROVE  CacheInv'
    OBVIOUS
  <2>1. n \in SlotIds /\ owner'[n] = s /\ \A k \in SlotIds \ {n} : owner'[k] = owner[k]
    BY GivenIsSlot DEF CacheInv, LivingInv, Shape
  <2>2. CacheShape' /\ current' \in Aliases /\ cache' = cache
    BY DEF Assign, CacheInv, CacheShape
  <2>3. Known(s, to, what(m)) /\ what(m).slot = m
    BY <1>1 DEF Known, Early, OnSlot
  <2>4. calm' => Fit(s, to, what(m), owner', cache')
    BY <1>0, <2>1, <2>3 DEF Fit
  <2>5. calm' => Spares(s)
    BY <1>0, <2>1, <2>2 DEF Spares
  <2> HIDE DEF what
  <2> QED BY <1>0, <1>1, <2>2, <2>3, <2>4, <2>5, StepKeeps
<1> QED BY <1>2, <1>3 DEF Assign

LEMMA ServerKeeps ==
  ASSUME CacheInv, LivingInv', NEW s \in Sessions,
         \/ \E answer \in Answers : Restore(s, answer) \/ SaveOut(s, answer) \/ Write(s, answer)
         \/ \E done \in BOOLEAN : EraseOut(s, done)
  PROVE  CacheInv'
<1>0. s \in Procs /\ SessionOf(s) = s
  BY Kinds
<1>1. Known(s, at[s], got[s]) /\ (calm => at[s] \notin {"saveOut", "eraseOut"})
  BY <1>0 DEF CacheInv, CalmInv, Fit
<1>2. ASSUME NEW answer \in Answers, Restore(s, answer) PROVE CacheInv'
  BY <1>2, GoToWorkKeeps DEF Restore, OnSlot, Early
<1>3. ASSUME NEW answer \in Answers, Write(s, answer) PROVE CacheInv'
  BY <1>3, GoToWorkKeeps DEF Write, OnSlot, Early
<1>4. ASSUME NEW done \in BOOLEAN, EraseOut(s, done) PROVE CacheInv'
  BY <1>1, <1>4, GoToWorkKeeps DEF EraseOut, OnSlot, Early
<1>5. ASSUME NEW answer \in Answers, SaveOut(s, answer) PROVE CacheInv'
  <2>1. /\ UNCHANGED <<owner, cache, current, calm>> /\ at[s] = "saveOut"
        /\ Move(s, "eraseOut", got[s])
    BY <1>5 DEF SaveOut, Go
  <2>2. Known(s, "eraseOut", got[s]) /\ AtWork(s)
    BY <1>1, <2>1 DEF Known, Early, OnSlot, AtWork
  <2> QED BY <1>0, <1>1, <2>1, <2>2, QuietKeeps
<1> QED BY <1>2, <1>3, <1>4, <1>5

LEMMA RoundKeeps == ASSUME CacheInv, LivingInv', NEW s \in Sessions, Round(s) PROVE CacheInv'
<1> DEFINE model == IF s \in Subs THEN got[s].model ELSE current
           slot  == got[s].slot
           what  == [got[s] EXCEPT !.model = model]
           named == slot \in 0 .. SlotsOf[HostOf[model]] - 1
<1>0. s \in Procs /\ SessionOf(s) = s
  BY Kinds
<1>1. Known(s, "work", got[s]) /\ at[s] = "work" /\ AtWork(s)
  BY <1>0 DEF Round, CacheInv, AtWork
<1>2. model \in Aliases /\ HostOf[model] \in Hosts
  BY <1>1 DEF Known, OnSlot, CacheInv, Hosts
<1>3. /\ \E n \in (IF named THEN {slot} ELSE 0 .. SlotsOf[HostOf[model]] - 1) :
           cache' = [cache EXCEPT ![HostOf[model]][n] = s]
      /\ Move(s, IF slot >= 0 THEN "save" ELSE "work", what)
      /\ calm' = (calm /\ named) /\ UNCHANGED <<owner, current>>
  BY DEF Round
<1>4. PICK to \in {"save", "work"} : to = IF slot >= 0 THEN "save" ELSE "work"
  OBVIOUS
<1>5. Known(s, to, what) /\ what.slot = slot /\ what.model = model
  BY <1>1, <1>2 DEF Known, Early
<1>6. CacheShape' /\ current' \in Aliases
  BY <1>3 DEF CacheInv, CacheShape
<1>7. ASSUME calm' PROVE /\ slot \in SlotIds /\ slot # -1 /\ owner[slot] = s
                         /\ cache' = [cache EXCEPT ![HostOf[model]][slot] = s]
  <2>1. calm /\ named
    <3> HIDE DEF named, what, model
    <3> QED BY <1>3, <1>7
  <2>2. SlotsOf[HostOf[model]] \in Nat
    BY <1>2, SlotAssumption
  <2>3. slot \in Int /\ 0 <= slot
    <3> HIDE DEF slot, model
    <3> QED BY <2>1, <2>2
  <2>4. slot # -1
    <3> HIDE DEF slot
    <3> QED BY <2>3
  <2> QED BY <1>0, <1>1, <1>3, <2>1, <2>4 DEF CacheInv, CalmInv, Fit
<1>8. ASSUME calm' PROVE Spares(s) /\ cache'[HostOf[model]][slot] = s
  BY <1>0, <1>2, <1>3, <1>7, <1>8 DEF Spares, CacheInv, CacheShape
<1>9. calm' => Fit(s, to, what, owner', cache')
  BY <1>0, <1>2, <1>3, <1>5, <1>7, <1>8 DEF Fit
<1>10. Move(s, to, what)
  BY <1>3, <1>4
<1>11. calm' => calm /\ Fit(s, to, what, owner', cache') /\ Spares(s) /\ (AtWork(s) \/ Alone(s))
  BY <1>1, <1>3, <1>8, <1>9
<1> HIDE DEF what
<1> QED BY <1>0, <1>5, <1>6, <1>10, <1>11, StepKeeps

LEMMA SaveKeeps == ASSUME CacheInv, LivingInv', NEW s \in Sessions, Save(s) PROVE CacheInv'
<1>0. s \in Procs /\ SessionOf(s) = s
  BY Kinds
<1>1. /\ Known(s, "save", got[s]) /\ at[s] = "save" /\ AtWork(s)
      /\ UNCHANGED <<owner, cache, current, calm>>
  BY <1>0 DEF Save, CacheInv, AtWork
<1>2. calm => Fit(s, "save", got[s], owner, cache)
  BY <1>0, <1>1 DEF CacheInv, CalmInv
<1>3. CASE SlotOf(s) = {} /\ Go(s, "work")
  <2>1. Known(s, "work", got[s])
    BY <1>1 DEF Known, Early, OnSlot
  <2>2. calm => Fit(s, "work", got[s], owner, cache)
    BY <1>2 DEF Fit
  <2>3. Move(s, "work", got[s])
    BY <1>3 DEF Go
  <2> QED BY <1>0, <1>1, <2>1, <2>2, <2>3, QuietKeeps
<1>4. ASSUME NEW n \in SlotOf(s), Move(s, "write", [got[s] EXCEPT !.alias = current, !.total = n])
      PROVE  CacheInv'
  <2> DEFINE what == [got[s] EXCEPT !.alias = current, !.total = n]
  <2>1. /\ Known(s, "write", what) /\ what.slot = got[s].slot /\ what.model = got[s].model
        /\ what.total = n
    BY <1>1 DEF Known, Early, OnSlot
  <2>2. ASSUME calm PROVE got[s].slot = n
    BY <1>0, <1>2, <1>4, <2>2 DEF Fit, CacheInv, LivingInv, OneSlotEach, SlotOf
  <2>3. calm => Fit(s, "write", what, owner, cache)
    BY <1>2, <2>1, <2>2 DEF Fit
  <2>4. Move(s, "write", what)
    BY <1>4
  <2> HIDE DEF what
  <2> QED BY <1>0, <1>1, <2>1, <2>3, <2>4, QuietKeeps
<1> QED BY <1>3, <1>4 DEF Save

LEMMA EndKeeps == ASSUME CacheInv, LivingInv', NEW s \in Sessions, EndWork(s) PROVE CacheInv'
<1>1. s \in Procs /\ at[s] = "work" /\ AtWork(s) /\ UNCHANGED <<owner, cache, current, calm>>
  BY Kinds DEF EndWork, AtWork
<1>2. PICK to \in {"idle", "drop"} : Move(s, to, Nothing)
  BY DEF EndWork
<1> QED BY <1>1, <1>2, NothingKnown, QuietKeeps

LEMMA DropKeeps == ASSUME CacheInv, LivingInv', NEW q \in Procs, Drop(q) PROVE CacheInv'
<1> DEFINE what(n) == [got[q] EXCEPT !.alias = current, !.slot = n]
<1>1. /\ Known(q, "drop", got[q]) /\ at[q] = "drop" /\ AtWork(q)
      /\ UNCHANGED <<owner, cache, current, calm>>
  BY DEF Drop, CacheInv, AtWork
<1>2. \/ Move(q, AfterDrop(q), Nothing)
      \/ \E n \in SlotOf(SessionOf(q)) : Move(q, "erase", what(n))
  BY DEF Drop
<1>3. Known(q, AfterDrop(q), Nothing) /\ Fit(q, AfterDrop(q), Nothing, owner, cache)
  BY SlotAssumption DEF AfterDrop, Known, Fit, Nothing, Early, OnSlot
<1>4. ASSUME NEW n \in SlotOf(SessionOf(q))
      PROVE  Known(q, "erase", what(n)) /\ Fit(q, "erase", what(n), owner, cache)
  BY <1>1 DEF Known, Fit, Early, OnSlot, SlotOf
<1> HIDE DEF what
<1> QED BY <1>1, <1>2, <1>3, <1>4, QuietKeeps

LEMMA EraseKeeps ==
  ASSUME CacheInv, LivingInv', NEW q \in Procs, NEW done \in BOOLEAN, Erase(q, done) PROVE CacheInv'
<1>1. /\ Known(q, "erase", got[q]) /\ at[q] = "erase" /\ AtWork(q)
      /\ UNCHANGED <<owner, current, calm>> /\ Move(q, "forget", got[q])
  BY DEF Erase, Go, CacheInv, AtWork
<1>2. CacheShape' /\ current' \in Aliases
  BY <1>1 DEF Erase, CacheInv, CacheShape
<1>3. ASSUME calm PROVE got[q].slot \in SlotIds /\ owner[got[q].slot] = SessionOf(q)
  BY <1>1, <1>3 DEF CacheInv, CalmInv, Fit
<1>4. ASSUME calm PROVE Spares(q)
  BY <1>1, <1>3, <1>4 DEF Erase, Spares, CacheInv, CacheShape
<1>5. Known(q, "forget", got[q]) /\ Fit(q, "forget", got[q], owner', cache')
  BY <1>1 DEF Known, Fit, Early, OnSlot
<1> QED BY <1>1, <1>2, <1>4, <1>5, StepKeeps

LEMMA ForgetKeeps == ASSUME CacheInv, LivingInv', NEW q \in Procs, Forget(q) PROVE CacheInv'
<1>1. /\ at[q] = "forget" /\ AtWork(q) /\ UNCHANGED <<cache, current, calm>>
      /\ Move(q, AfterDrop(q), Nothing)
  BY DEF Forget, AtWork
<1>2. CacheShape' /\ current' \in Aliases
  BY <1>1 DEF CacheInv, CacheShape
<1>3. Known(q, AfterDrop(q), Nothing) /\ Fit(q, AfterDrop(q), Nothing, owner', cache')
  BY SlotAssumption DEF AfterDrop, Known, Fit, Nothing, Early, OnSlot
<1>4. Spares(q)
  BY <1>1 DEF Forget, Spares, SlotOf
<1> QED BY <1>1, <1>2, <1>3, <1>4, StepKeeps

LEMMA ResetKeeps == ASSUME CacheInv, LivingInv', NEW r \in ResetCalls, StartReset(r) PROVE CacheInv'
<1>1. r \in Procs /\ Move(r, "drop", Nothing) /\ UNCHANGED <<owner, cache, current>>
  BY Kinds DEF StartReset
<1>2. ASSUME calm' PROVE calm /\ Alone(r)
  <2>1. /\ calm /\ ~AtWork(ResetOf[r])
        /\ \A o \in ResetCalls : ResetOf[o] = ResetOf[r] => ~AtWork(o)
    BY <1>2 DEF StartReset
  <2> QED BY <2>1, Kinds DEF Alone, SessionOf, Procs
<1> QED BY <1>1, <1>2, NothingKnown, QuietKeeps

\* A step that moves nobody: the user's switch, the start with -reset, a stutter.
LEMMA NobodyKeeps ==
  ASSUME CacheInv, LivingInv', UNCHANGED <<at, got, owner, calm>>, current' \in Aliases, CacheShape',
         cache' = cache \/ \A q \in Procs : at[q] = "idle"
  PROVE  CacheInv'
<1>1. CalmInv => CalmInv'
  <2> SUFFICES ASSUME CalmInv PROVE CalmInv'
    OBVIOUS
  <2>1. \A q \in Procs : Fit(q, at[q], got[q], owner, cache')
    BY DEF CalmInv, Fit
  <2> QED BY <2>1 DEF CalmInv, Alone, AtWork, Fit, SessionOf
<1> QED BY <1>1 DEF CacheInv, Known

LEMMA CacheInit == SlotInit => CacheInv
<1> SUFFICES ASSUME SlotInit PROVE CacheInv
  OBVIOUS
<1>1. LivingInv /\ CacheShape /\ current \in Aliases
  BY LivingInit DEF SlotInit, CacheShape
<1>2. \A q \in Procs : at[q] = "idle" /\ got[q] = Nothing
  BY DEF SlotInit
<1>3. CalmInv /\ \A q \in Procs : Known(q, at[q], got[q])
  BY <1>2, NothingKnown DEF CalmInv, AtWork
<1> QED BY <1>1, <1>3 DEF CacheInv

LEMMA CacheNext == CacheInv /\ [SlotNext]_slotVars => CacheInv'
<1> SUFFICES ASSUME CacheInv, [SlotNext]_slotVars PROVE CacheInv'
  OBVIOUS
<1>0. LivingInv'
  BY LivingNext DEF CacheInv
<1>1. ASSUME NEW a \in Aliases, SwitchModel(a) PROVE CacheInv'
  BY <1>0, <1>1, NobodyKeeps DEF SwitchModel, CacheInv, CacheShape
<1>2. ASSUME NEW found \in BOOLEAN, ClearAllSlots(found) PROVE CacheInv'
  <2>1. CacheShape'
    BY <1>2 DEF ClearAllSlots, CacheInv, CacheShape
  <2> QED BY <1>0, <1>2, <2>1, NobodyKeeps DEF ClearAllSlots, CacheInv
<1>3. ASSUME NEW s \in Sessions, Work(s) PROVE CacheInv'
  BY <1>0, <1>3, EarlyKeep, AssignKeeps, ServerKeeps, RoundKeeps, SaveKeeps, EndKeeps DEF Work
<1>4. ASSUME NEW r \in ResetCalls, StartReset(r) PROVE CacheInv'
  BY <1>0, <1>4, ResetKeeps
<1>5. ASSUME NEW q \in Procs, Drop(q) \/ Forget(q) \/ \E done \in BOOLEAN : Erase(q, done)
      PROVE  CacheInv'
  BY <1>0, <1>5, DropKeeps, ForgetKeeps, EraseKeeps
<1>6. CASE UNCHANGED slotVars
  BY <1>0, <1>6, NobodyKeeps DEF slotVars, CacheInv, CacheShape
<1> QED BY <1>1, <1>2, <1>3, <1>4, <1>5, <1>6 DEF SlotNext

\* As long as nothing has taken a slot from a session at work, what a session
\* saves after an answer is its own conversation, on the server that answered.
THEOREM SavedIsAnswered == SlotSpec => []CacheIsKept
<1>1. CacheInv => CacheIsKept
  <2> SUFFICES ASSUME CacheInv, NEW s \in Sessions, calm, at[s] = "write", got[s].alias = got[s].model
               PROVE  cache[HostOf[got[s].alias]][got[s].total] = s
    BY DEF CacheIsKept
  <2>1. s \in Procs /\ SessionOf(s) = s
    BY Kinds
  <2>2. Fit(s, "write", got[s], owner, cache)
    BY <2>1 DEF CacheInv, CalmInv
  <2> QED BY <2>1, <2>2 DEF Fit
<1> QED BY <1>1, CacheInit, CacheNext, PTL DEF SlotSpec

-----------------------------------------------------------------------------
AvailShape == DOMAIN avail = Hosts

\* Each step that writes the map of the feature writes what it read there, or
\* that the feature is missing.
LEMMA DownStep ==
  ASSUME AvailShape, [SlotNext]_slotVars
  PROVE  AvailShape' /\ \A h \in Hosts : avail[h] = "down" => avail'[h] = "down"
<1> DEFINE Goal == AvailShape' /\ \A h \in Hosts : avail[h] = "down" => avail'[h] = "down"
<1>1. ASSUME NEW g, NEW v, avail' = [avail EXCEPT ![g] = v], avail[g] = "down" => v = "down"
      PROVE  Goal
  BY <1>1 DEF AvailShape
<1>2. ASSUME avail' = avail PROVE Goal
  BY <1>2 DEF AvailShape
<1>3. ASSUME NEW found \in BOOLEAN, ClearAllSlots(found) PROVE Goal
  BY <1>3 DEF ClearAllSlots, AvailShape
<1>4. ASSUME NEW s \in Sessions, NEW found \in BOOLEAN, Probe(s, found) PROVE Goal
  <2>1. avail' = [avail EXCEPT ![HostOf[got[s].alias]] = Learned(HostOf[got[s].alias], found)]
    BY <1>4 DEF Probe
  <2> QED BY <2>1, <1>1 DEF Learned
<1>5. ASSUME NEW h, NEW answer, avail' = Refused(h, answer) PROVE Goal
  BY <1>1, <1>2, <1>5 DEF Refused
<1>6. ASSUME NEW s \in Sessions, NEW answer \in Answers, SaveOut(s, answer) PROVE Goal
  BY <1>2, <1>5, <1>6 DEF SaveOut
<1>7. ASSUME NEW s \in Sessions, NEW answer \in Answers, Restore(s, answer) \/ Write(s, answer)
      PROVE  Goal
  BY <1>5, <1>7 DEF Restore, Write
<1>8. ASSUME NEW s \in Sessions, Work(s) PROVE Goal
  <2>1. CASE \/ StartTurn(s) \/ Spawn(s) \/ Check(s) \/ Look(s) \/ Assign(s) \/ Round(s) \/ Save(s)
             \/ EndWork(s) \/ \E done \in BOOLEAN : EraseOut(s, done)
    BY <1>2, <2>1 DEF StartTurn, Spawn, Check, Look, Assign, Round, Save, EndWork, EraseOut
  <2> QED BY <1>4, <1>6, <1>7, <1>8, <2>1 DEF Work
<1>9. ASSUME \/ \E a \in Aliases : SwitchModel(a)
             \/ \E r \in ResetCalls : StartReset(r)
             \/ \E q \in Procs : Drop(q) \/ Forget(q) \/ \E done \in BOOLEAN : Erase(q, done)
             \/ UNCHANGED slotVars
      PROVE  Goal
  BY <1>2, <1>9 DEF SwitchModel, StartReset, Drop, Forget, Erase, slotVars
<1> QED BY <1>3, <1>8, <1>9 DEF SlotNext

\* A server whose slots were found missing is not asked for them again, though
\* a probe that was under way when it refused ends later.
THEOREM DownIsFinal == SlotSpec => DownStaysDown
<1>1. SlotInit => AvailShape
  BY DEF SlotInit, AvailShape
<1> QED BY <1>1, DownStep, PTL DEF SlotSpec, DownStaysDown

=============================================================================
