--------------------------- MODULE SubJobs_proofs ---------------------------
(***************************************************************************)
(* Theorems about SubJobs, for any number of owners and jobs: a job dies    *)
(* with the turn that started it, its result is kept, a turn that ends of   *)
(* itself leaves no job running; one owner alone respects the cap and loses *)
(* no wake-up.                                                              *)
(***************************************************************************)
EXTENDS SubJobs, FiniteSetTheorems, TLAPS

\* A job that has been started has an owner.
OwnerKnown == \A j \in Jobs : job[j] # "new" => owner[j] \in Owners

\* The sink of a peer stays.
MainSinks == Mains \subseteq sinks

\* What the end of a turn says of its jobs, from the moment it is known: a hold
\* that neither the clock nor a cancellation cut short is over because nothing
\* is pending, and only the turn itself could start another job.
HowFits ==
  \A o \in Owners :
    /\ turn[o] \notin {"idle", "ended", "leaving", "last"} => how[o] = "none"
    /\ turn[o] = "last" => how[o] # "final" /\ (how[o] = "none" => Pending(o) = {})
    /\ turn[o] = "ended" /\ how[o] = "final" => Pending(o) = {}

\* A step keeps the types and the ownership of jobs.
LEMMA TypeStep ==
  TypeOK /\ OwnerKnown /\ [Next]_vars => TypeOK' /\ OwnerKnown'
<1> SUFFICES ASSUME TypeOK /\ OwnerKnown, [Next]_vars
             PROVE  TypeOK' /\ OwnerKnown'
  OBVIOUS
<1> USE OwnersAssumption, BoundsAssumption
      DEF TypeOK, TurnPC, Holding, OwnerKnown, OwnedBy, Advanced, At,
          Move, KeepTurn, End, vars, storeVars, jobVars, turnVars,
          mailVars
<1>1. ASSUME NEW o \in Owners, StartTurn(o) PROVE TypeOK' /\ OwnerKnown'
  BY <1>1 DEF StartTurn, DrainOr
<1>2. ASSUME NEW o \in Owners, Iterate(o) PROVE TypeOK' /\ OwnerKnown'
  BY <1>2 DEF Iterate, DrainOr
<1>3. ASSUME NEW o \in Owners, FinalDrain(o) PROVE TypeOK' /\ OwnerKnown'
  BY <1>3 DEF FinalDrain, DrainOr
<1>4. ASSUME NEW o \in Owners, AskPending(o) PROVE TypeOK' /\ OwnerKnown'
  BY <1>4 DEF AskPending
<1>5. ASSUME NEW o \in Owners, HoldHead(o) PROVE TypeOK' /\ OwnerKnown'
  BY <1>5 DEF HoldHead
<1>6. ASSUME NEW o \in Owners, EnterWait(o) PROVE TypeOK' /\ OwnerKnown'
  BY <1>6 DEF EnterWait
<1>7. ASSUME NEW o \in Owners, Poll(o) PROVE TypeOK' /\ OwnerKnown'
  BY <1>7 DEF Poll
<1>8. ASSUME NEW o \in Owners, Wake(o) PROVE TypeOK' /\ OwnerKnown'
  BY <1>8 DEF Wake
<1>9. ASSUME NEW o \in Owners, WaitTimeout(o) PROVE TypeOK' /\ OwnerKnown'
  BY <1>9 DEF WaitTimeout
<1>10. ASSUME NEW o \in Owners, WaitCancelled(o) PROVE TypeOK' /\ OwnerKnown'
  BY <1>10 DEF WaitCancelled
<1>11. ASSUME NEW o \in Owners, HoldDrain(o) PROVE TypeOK' /\ OwnerKnown'
  BY <1>11 DEF HoldDrain, DrainOr
<1>12. ASSUME NEW o \in Owners, LastDrain(o) PROVE TypeOK' /\ OwnerKnown'
  BY <1>12 DEF LastDrain, DrainOr
<1>13. ASSUME NEW o \in Owners, Break(o) PROVE TypeOK' /\ OwnerKnown'
  BY <1>13 DEF Break
<1>14. ASSUME NEW o \in Owners, Unregister(o) PROVE TypeOK' /\ OwnerKnown'
  BY <1>14 DEF Unregister
<1>15. ASSUME NEW o \in Owners, Leave(o) PROVE TypeOK' /\ OwnerKnown'
  BY <1>15 DEF Leave
<1>16. ASSUME NEW o \in Owners, CancelTurn(o) PROVE TypeOK' /\ OwnerKnown'
  BY <1>16 DEF CancelTurn
<1>17. ASSUME NEW o \in Owners, NEW j \in Jobs, CountRunning(o, j)
       PROVE  TypeOK' /\ OwnerKnown'
  BY <1>17 DEF CountRunning
<1>18. ASSUME NEW o \in Owners, NEW j \in Jobs, InsertRow(o, j)
       PROVE  TypeOK' /\ OwnerKnown'
  BY <1>18 DEF InsertRow
<1>19. ASSUME NEW o \in Owners, NEW j \in Jobs, CancelJob(o, j)
       PROVE  TypeOK' /\ OwnerKnown'
  BY <1>19 DEF CancelJob
<1>20. ASSUME NEW j \in Jobs, Complete(j) PROVE TypeOK' /\ OwnerKnown'
  BY <1>20 DEF Complete
<1>21. ASSUME NEW j \in Jobs, SignalSettle(j) PROVE TypeOK' /\ OwnerKnown'
  BY <1>21 DEF SignalSettle
<1>22. ASSUME NEW j \in Jobs, Deliver(j) PROVE TypeOK' /\ OwnerKnown'
  BY <1>22 DEF Deliver
<1>23. ASSUME NEW j \in Jobs, Evict(j) PROVE TypeOK' /\ OwnerKnown'
  BY <1>23 DEF Evict
<1>24. CASE UNCHANGED vars
  BY <1>24
<1>25. QED
  BY <1>1, <1>2, <1>3, <1>4, <1>5, <1>6, <1>7, <1>8, <1>9, <1>10, <1>11,
     <1>12, <1>13, <1>14, <1>15, <1>16, <1>17, <1>18, <1>19, <1>20, <1>21,
     <1>22, <1>23, <1>24
     DEF Next, TurnStep, HoldStep, JobStep

\* A step keeps the sinks of the peers.
LEMMA SinkStep ==
  TypeOK /\ OwnerKnown /\ MainSinks /\ [Next]_vars => MainSinks'
<1> SUFFICES ASSUME TypeOK /\ OwnerKnown /\ MainSinks, [Next]_vars
             PROVE  MainSinks'
  OBVIOUS
<1> USE OwnersAssumption, BoundsAssumption
      DEF TypeOK, TurnPC, Holding, OwnerKnown, OwnedBy, Pending,
          Running, At, Move, KeepTurn, End, vars, storeVars, jobVars,
          turnVars, mailVars, MainSinks
<1>1. ASSUME NEW o \in Owners, StartTurn(o) PROVE MainSinks'
  BY <1>1 DEF StartTurn, DrainOr
<1>2. ASSUME NEW o \in Owners, Iterate(o) PROVE MainSinks'
  BY <1>2 DEF Iterate, DrainOr
<1>3. ASSUME NEW o \in Owners, FinalDrain(o) PROVE MainSinks'
  BY <1>3 DEF FinalDrain, DrainOr
<1>4. ASSUME NEW o \in Owners, AskPending(o) PROVE MainSinks'
  BY <1>4 DEF AskPending
<1>5. ASSUME NEW o \in Owners, HoldHead(o) PROVE MainSinks'
  BY <1>5 DEF HoldHead
<1>6. ASSUME NEW o \in Owners, EnterWait(o) PROVE MainSinks'
  BY <1>6 DEF EnterWait
<1>7. ASSUME NEW o \in Owners, Poll(o) PROVE MainSinks'
  BY <1>7 DEF Poll
<1>8. ASSUME NEW o \in Owners, Wake(o) PROVE MainSinks'
  BY <1>8 DEF Wake
<1>9. ASSUME NEW o \in Owners, WaitTimeout(o) PROVE MainSinks'
  BY <1>9 DEF WaitTimeout
<1>10. ASSUME NEW o \in Owners, WaitCancelled(o) PROVE MainSinks'
  BY <1>10 DEF WaitCancelled
<1>11. ASSUME NEW o \in Owners, HoldDrain(o) PROVE MainSinks'
  BY <1>11 DEF HoldDrain, DrainOr
<1>12. ASSUME NEW o \in Owners, LastDrain(o) PROVE MainSinks'
  BY <1>12 DEF LastDrain, DrainOr
<1>13. ASSUME NEW o \in Owners, Break(o) PROVE MainSinks'
  BY <1>13 DEF Break
<1>14. ASSUME NEW o \in Owners, Unregister(o) PROVE MainSinks'
  BY <1>14 DEF Unregister
<1>15. ASSUME NEW o \in Owners, Leave(o) PROVE MainSinks'
  BY <1>15 DEF Leave
<1>16. ASSUME NEW o \in Owners, CancelTurn(o) PROVE MainSinks'
  BY <1>16 DEF CancelTurn
<1>17. ASSUME NEW o \in Owners, NEW j \in Jobs, CountRunning(o, j)
       PROVE  MainSinks'
  BY <1>17 DEF CountRunning
<1>18. ASSUME NEW o \in Owners, NEW j \in Jobs, InsertRow(o, j) PROVE MainSinks'
  BY <1>18 DEF InsertRow
<1>19. ASSUME NEW o \in Owners, NEW j \in Jobs, CancelJob(o, j) PROVE MainSinks'
  BY <1>19 DEF CancelJob
<1>20. ASSUME NEW j \in Jobs, Complete(j) PROVE MainSinks'
  BY <1>20 DEF Complete
<1>21. ASSUME NEW j \in Jobs, SignalSettle(j) PROVE MainSinks'
  BY <1>21 DEF SignalSettle
<1>22. ASSUME NEW j \in Jobs, Deliver(j) PROVE MainSinks'
  BY <1>22 DEF Deliver
<1>23. ASSUME NEW j \in Jobs, Evict(j) PROVE MainSinks'
  BY <1>23 DEF Evict
<1>24. CASE UNCHANGED vars
  BY <1>24
<1>25. QED
  BY <1>1, <1>2, <1>3, <1>4, <1>5, <1>6, <1>7, <1>8, <1>9, <1>10, <1>11,
     <1>12, <1>13, <1>14, <1>15, <1>16, <1>17, <1>18, <1>19, <1>20, <1>21,
     <1>22, <1>23, <1>24
     DEF Next, TurnStep, HoldStep, JobStep

\* A step keeps every unkilled job within a turn.
LEMMA DieStep ==
  TypeOK /\ OwnerKnown /\ JobsDieWithTurn /\ [Next]_vars => JobsDieWithTurn'
<1> SUFFICES ASSUME TypeOK /\ OwnerKnown /\ JobsDieWithTurn, [Next]_vars
             PROVE  JobsDieWithTurn'
  OBVIOUS
<1> USE OwnersAssumption, BoundsAssumption
      DEF TypeOK, TurnPC, Holding, OwnerKnown, OwnedBy, Pending,
          Running, At, Move, KeepTurn, End, vars, storeVars, jobVars,
          turnVars, mailVars, JobsDieWithTurn
<1>1. ASSUME NEW o \in Owners, StartTurn(o) PROVE JobsDieWithTurn'
  BY <1>1 DEF StartTurn, DrainOr
<1>2. ASSUME NEW o \in Owners, Iterate(o) PROVE JobsDieWithTurn'
  BY <1>2 DEF Iterate, DrainOr
<1>3. ASSUME NEW o \in Owners, FinalDrain(o) PROVE JobsDieWithTurn'
  BY <1>3 DEF FinalDrain, DrainOr
<1>4. ASSUME NEW o \in Owners, AskPending(o) PROVE JobsDieWithTurn'
  BY <1>4 DEF AskPending
<1>5. ASSUME NEW o \in Owners, HoldHead(o) PROVE JobsDieWithTurn'
  BY <1>5 DEF HoldHead
<1>6. ASSUME NEW o \in Owners, EnterWait(o) PROVE JobsDieWithTurn'
  BY <1>6 DEF EnterWait
<1>7. ASSUME NEW o \in Owners, Poll(o) PROVE JobsDieWithTurn'
  BY <1>7 DEF Poll
<1>8. ASSUME NEW o \in Owners, Wake(o) PROVE JobsDieWithTurn'
  BY <1>8 DEF Wake
<1>9. ASSUME NEW o \in Owners, WaitTimeout(o) PROVE JobsDieWithTurn'
  BY <1>9 DEF WaitTimeout
<1>10. ASSUME NEW o \in Owners, WaitCancelled(o) PROVE JobsDieWithTurn'
  BY <1>10 DEF WaitCancelled
<1>11. ASSUME NEW o \in Owners, HoldDrain(o) PROVE JobsDieWithTurn'
  BY <1>11 DEF HoldDrain, DrainOr
<1>12. ASSUME NEW o \in Owners, LastDrain(o) PROVE JobsDieWithTurn'
  BY <1>12 DEF LastDrain, DrainOr
<1>13. ASSUME NEW o \in Owners, Break(o) PROVE JobsDieWithTurn'
  BY <1>13 DEF Break
<1>14. ASSUME NEW o \in Owners, Unregister(o) PROVE JobsDieWithTurn'
  BY <1>14 DEF Unregister
<1>15. ASSUME NEW o \in Owners, Leave(o) PROVE JobsDieWithTurn'
  BY <1>15 DEF Leave
<1>16. ASSUME NEW o \in Owners, CancelTurn(o) PROVE JobsDieWithTurn'
  BY <1>16 DEF CancelTurn
<1>17. ASSUME NEW o \in Owners, NEW j \in Jobs, CountRunning(o, j)
       PROVE  JobsDieWithTurn'
  BY <1>17 DEF CountRunning
<1>18. ASSUME NEW o \in Owners, NEW j \in Jobs, InsertRow(o, j)
       PROVE  JobsDieWithTurn'
  BY <1>18 DEF InsertRow
<1>19. ASSUME NEW o \in Owners, NEW j \in Jobs, CancelJob(o, j)
       PROVE  JobsDieWithTurn'
  BY <1>19 DEF CancelJob
<1>20. ASSUME NEW j \in Jobs, Complete(j) PROVE JobsDieWithTurn'
  BY <1>20 DEF Complete
<1>21. ASSUME NEW j \in Jobs, SignalSettle(j) PROVE JobsDieWithTurn'
  BY <1>21 DEF SignalSettle
<1>22. ASSUME NEW j \in Jobs, Deliver(j) PROVE JobsDieWithTurn'
  BY <1>22 DEF Deliver
<1>23. ASSUME NEW j \in Jobs, Evict(j) PROVE JobsDieWithTurn'
  BY <1>23 DEF Evict
<1>24. CASE UNCHANGED vars
  BY <1>24
<1>25. QED
  BY <1>1, <1>2, <1>3, <1>4, <1>5, <1>6, <1>7, <1>8, <1>9, <1>10, <1>11,
     <1>12, <1>13, <1>14, <1>15, <1>16, <1>17, <1>18, <1>19, <1>20, <1>21,
     <1>22, <1>23, <1>24
     DEF Next, TurnStep, HoldStep, JobStep

\* A step keeps every result.
LEMMA ResultStep ==
  TypeOK /\ OwnerKnown /\ MainSinks /\ ResultKept /\ [Next]_vars => ResultKept'
<1> SUFFICES ASSUME TypeOK /\ OwnerKnown /\ MainSinks /\ ResultKept, [Next]_vars
             PROVE  ResultKept'
  OBVIOUS
<1> USE OwnersAssumption, BoundsAssumption
      DEF TypeOK, TurnPC, Holding, OwnerKnown, OwnedBy, Pending,
          Running, At, Move, KeepTurn, End, vars, storeVars, jobVars,
          turnVars, mailVars, MainSinks, ResultKept
<1>1. ASSUME NEW o \in Owners, StartTurn(o) PROVE ResultKept'
  BY <1>1 DEF StartTurn, DrainOr
<1>2. ASSUME NEW o \in Owners, Iterate(o) PROVE ResultKept'
  BY <1>2 DEF Iterate, DrainOr
<1>3. ASSUME NEW o \in Owners, FinalDrain(o) PROVE ResultKept'
  BY <1>3 DEF FinalDrain, DrainOr
<1>4. ASSUME NEW o \in Owners, AskPending(o) PROVE ResultKept'
  BY <1>4 DEF AskPending
<1>5. ASSUME NEW o \in Owners, HoldHead(o) PROVE ResultKept'
  BY <1>5 DEF HoldHead
<1>6. ASSUME NEW o \in Owners, EnterWait(o) PROVE ResultKept'
  BY <1>6 DEF EnterWait
<1>7. ASSUME NEW o \in Owners, Poll(o) PROVE ResultKept'
  BY <1>7 DEF Poll
<1>8. ASSUME NEW o \in Owners, Wake(o) PROVE ResultKept'
  BY <1>8 DEF Wake
<1>9. ASSUME NEW o \in Owners, WaitTimeout(o) PROVE ResultKept'
  BY <1>9 DEF WaitTimeout
<1>10. ASSUME NEW o \in Owners, WaitCancelled(o) PROVE ResultKept'
  BY <1>10 DEF WaitCancelled
<1>11. ASSUME NEW o \in Owners, HoldDrain(o) PROVE ResultKept'
  BY <1>11 DEF HoldDrain, DrainOr
<1>12. ASSUME NEW o \in Owners, LastDrain(o) PROVE ResultKept'
  BY <1>12 DEF LastDrain, DrainOr
<1>13. ASSUME NEW o \in Owners, Break(o) PROVE ResultKept'
  BY <1>13 DEF Break
<1>14. ASSUME NEW o \in Owners, Unregister(o) PROVE ResultKept'
  BY <1>14 DEF Unregister
<1>15. ASSUME NEW o \in Owners, Leave(o) PROVE ResultKept'
  BY <1>15 DEF Leave
<1>16. ASSUME NEW o \in Owners, CancelTurn(o) PROVE ResultKept'
  BY <1>16 DEF CancelTurn
<1>17. ASSUME NEW o \in Owners, NEW j \in Jobs, CountRunning(o, j)
       PROVE  ResultKept'
  BY <1>17 DEF CountRunning
<1>18. ASSUME NEW o \in Owners, NEW j \in Jobs, InsertRow(o, j) PROVE ResultKept'
  BY <1>18 DEF InsertRow
<1>19. ASSUME NEW o \in Owners, NEW j \in Jobs, CancelJob(o, j) PROVE ResultKept'
  BY <1>19 DEF CancelJob
<1>20. ASSUME NEW j \in Jobs, Complete(j) PROVE ResultKept'
  BY <1>20 DEF Complete
<1>21. ASSUME NEW j \in Jobs, SignalSettle(j) PROVE ResultKept'
  BY <1>21 DEF SignalSettle
<1>22. ASSUME NEW j \in Jobs, Deliver(j) PROVE ResultKept'
  BY <1>22 DEF Deliver
<1>23. ASSUME NEW j \in Jobs, Evict(j) PROVE ResultKept'
  BY <1>23 DEF Evict
<1>24. CASE UNCHANGED vars
  BY <1>24
<1>25. QED
  BY <1>1, <1>2, <1>3, <1>4, <1>5, <1>6, <1>7, <1>8, <1>9, <1>10, <1>11,
     <1>12, <1>13, <1>14, <1>15, <1>16, <1>17, <1>18, <1>19, <1>20, <1>21,
     <1>22, <1>23, <1>24
     DEF Next, TurnStep, HoldStep, JobStep

\* A step keeps what a turn knows of its end.
LEMMA HowStep ==
  TypeOK /\ OwnerKnown /\ HowFits /\ [Next]_vars => HowFits'
<1> SUFFICES ASSUME TypeOK /\ OwnerKnown /\ HowFits, [Next]_vars
             PROVE  HowFits'
  OBVIOUS
<1> USE OwnersAssumption, BoundsAssumption
      DEF TypeOK, TurnPC, Holding, OwnerKnown, OwnedBy, Pending,
          Running, At, Move, KeepTurn, End, vars, storeVars, jobVars,
          turnVars, mailVars, HowFits
<1>1. ASSUME NEW o \in Owners, StartTurn(o) PROVE HowFits'
  BY <1>1 DEF StartTurn, DrainOr
<1>2. ASSUME NEW o \in Owners, Iterate(o) PROVE HowFits'
  BY <1>2 DEF Iterate, DrainOr
<1>3. ASSUME NEW o \in Owners, FinalDrain(o) PROVE HowFits'
  BY <1>3 DEF FinalDrain, DrainOr
<1>4. ASSUME NEW o \in Owners, AskPending(o) PROVE HowFits'
  BY <1>4 DEF AskPending
<1>5. ASSUME NEW o \in Owners, HoldHead(o) PROVE HowFits'
  BY <1>5 DEF HoldHead
<1>6. ASSUME NEW o \in Owners, EnterWait(o) PROVE HowFits'
  BY <1>6 DEF EnterWait
<1>7. ASSUME NEW o \in Owners, Poll(o) PROVE HowFits'
  BY <1>7 DEF Poll
<1>8. ASSUME NEW o \in Owners, Wake(o) PROVE HowFits'
  BY <1>8 DEF Wake
<1>9. ASSUME NEW o \in Owners, WaitTimeout(o) PROVE HowFits'
  BY <1>9 DEF WaitTimeout
<1>10. ASSUME NEW o \in Owners, WaitCancelled(o) PROVE HowFits'
  BY <1>10 DEF WaitCancelled
<1>11. ASSUME NEW o \in Owners, HoldDrain(o) PROVE HowFits'
  BY <1>11 DEF HoldDrain, DrainOr
<1>12. ASSUME NEW o \in Owners, LastDrain(o) PROVE HowFits'
  BY <1>12 DEF LastDrain, DrainOr
<1>13. ASSUME NEW o \in Owners, Break(o) PROVE HowFits'
  BY <1>13 DEF Break
<1>14. ASSUME NEW o \in Owners, Unregister(o) PROVE HowFits'
  BY <1>14 DEF Unregister
<1>15. ASSUME NEW o \in Owners, Leave(o) PROVE HowFits'
  BY <1>15 DEF Leave
<1>16. ASSUME NEW o \in Owners, CancelTurn(o) PROVE HowFits'
  BY <1>16 DEF CancelTurn
<1>17. ASSUME NEW o \in Owners, NEW j \in Jobs, CountRunning(o, j) PROVE HowFits'
  BY <1>17 DEF CountRunning
<1>18. ASSUME NEW o \in Owners, NEW j \in Jobs, InsertRow(o, j) PROVE HowFits'
  BY <1>18 DEF InsertRow
<1>19. ASSUME NEW o \in Owners, NEW j \in Jobs, CancelJob(o, j) PROVE HowFits'
  BY <1>19 DEF CancelJob
<1>20. ASSUME NEW j \in Jobs, Complete(j) PROVE HowFits'
  BY <1>20 DEF Complete
<1>21. ASSUME NEW j \in Jobs, SignalSettle(j) PROVE HowFits'
  BY <1>21 DEF SignalSettle
<1>22. ASSUME NEW j \in Jobs, Deliver(j) PROVE HowFits'
  BY <1>22 DEF Deliver
<1>23. ASSUME NEW j \in Jobs, Evict(j) PROVE HowFits'
  BY <1>23 DEF Evict
<1>24. CASE UNCHANGED vars
  BY <1>24
<1>25. QED
  BY <1>1, <1>2, <1>3, <1>4, <1>5, <1>6, <1>7, <1>8, <1>9, <1>10, <1>11,
     <1>12, <1>13, <1>14, <1>15, <1>16, <1>17, <1>18, <1>19, <1>20, <1>21,
     <1>22, <1>23, <1>24
     DEF Next, TurnStep, HoldStep, JobStep

\* What a step does to the running jobs and to the two halves of a create, of
\* one owner or of many.
Shrinks ==
  /\ Running' \subseteq Running
  /\ \A o \in Owners : turn'[o] = "create" => turn[o] = "create"
Counts  == Running' = Running /\ Cardinality(Running) < MaxRunning
Inserts(o, j) ==
  /\ Running' \subseteq Running \cup {j} /\ At(o, "create")
  /\ turn' = [turn EXCEPT ![o] = "run"]

LEMMA RunStep ==
  TypeOK /\ OwnerKnown /\ [Next]_vars =>
    Shrinks \/ Counts \/ \E o \in Owners, j \in Jobs : Inserts(o, j)
<1> SUFFICES ASSUME TypeOK /\ OwnerKnown, [Next]_vars
            
       PROVE   Shrinks \/ Counts \/ \E o \in Owners, j \in Jobs : Inserts(o, j)
  OBVIOUS
<1> USE
      DEF TypeOK, OwnerKnown, Running, At, Move, KeepTurn, End, vars,
          storeVars, jobVars, turnVars, mailVars
<1>1. ASSUME NEW o \in Owners, StartTurn(o) PROVE Shrinks
  BY <1>1 DEF StartTurn, DrainOr, Shrinks
<1>2. ASSUME NEW o \in Owners, Iterate(o) PROVE Shrinks
  BY <1>2 DEF Iterate, DrainOr, Shrinks
<1>3. ASSUME NEW o \in Owners, FinalDrain(o) PROVE Shrinks
  BY <1>3 DEF FinalDrain, DrainOr, Shrinks
<1>4. ASSUME NEW o \in Owners, AskPending(o) PROVE Shrinks
  BY <1>4 DEF AskPending, Shrinks
<1>5. ASSUME NEW o \in Owners, HoldHead(o) PROVE Shrinks
  BY <1>5 DEF HoldHead, Shrinks
<1>6. ASSUME NEW o \in Owners, EnterWait(o) PROVE Shrinks
  BY <1>6 DEF EnterWait, Shrinks
<1>7. ASSUME NEW o \in Owners, Poll(o) PROVE Shrinks
  BY <1>7 DEF Poll, Shrinks
<1>8. ASSUME NEW o \in Owners, Wake(o) PROVE Shrinks
  BY <1>8 DEF Wake, Shrinks
<1>9. ASSUME NEW o \in Owners, WaitTimeout(o) PROVE Shrinks
  BY <1>9 DEF WaitTimeout, Shrinks
<1>10. ASSUME NEW o \in Owners, WaitCancelled(o) PROVE Shrinks
  BY <1>10 DEF WaitCancelled, Shrinks
<1>11. ASSUME NEW o \in Owners, HoldDrain(o) PROVE Shrinks
  BY <1>11 DEF HoldDrain, DrainOr, Shrinks
<1>12. ASSUME NEW o \in Owners, LastDrain(o) PROVE Shrinks
  BY <1>12 DEF LastDrain, DrainOr, Shrinks
<1>13. ASSUME NEW o \in Owners, Break(o) PROVE Shrinks
  BY <1>13 DEF Break, Shrinks
<1>14. ASSUME NEW o \in Owners, Unregister(o) PROVE Shrinks
  BY <1>14 DEF Unregister, Shrinks
<1>15. ASSUME NEW o \in Owners, Leave(o) PROVE Shrinks
  BY <1>15 DEF Leave, Shrinks
<1>16. ASSUME NEW o \in Owners, CancelTurn(o) PROVE Shrinks
  BY <1>16 DEF CancelTurn, Shrinks
<1>17. ASSUME NEW o \in Owners, NEW j \in Jobs, CountRunning(o, j) PROVE Counts
  BY <1>17 DEF CountRunning, Counts
<1>18. ASSUME NEW o \in Owners, NEW j \in Jobs, InsertRow(o, j)
       PROVE  Inserts(o, j)
  BY <1>18 DEF InsertRow, Inserts
<1>19. ASSUME NEW o \in Owners, NEW j \in Jobs, CancelJob(o, j) PROVE Shrinks
  BY <1>19 DEF CancelJob, Shrinks
<1>20. ASSUME NEW j \in Jobs, Complete(j) PROVE Shrinks
  BY <1>20 DEF Complete, Shrinks
<1>21. ASSUME NEW j \in Jobs, SignalSettle(j) PROVE Shrinks
  BY <1>21 DEF SignalSettle, Shrinks
<1>22. ASSUME NEW j \in Jobs, Deliver(j) PROVE Shrinks
  BY <1>22 DEF Deliver, Shrinks
<1>23. ASSUME NEW j \in Jobs, Evict(j) PROVE Shrinks
  BY <1>23 DEF Evict, Shrinks
<1>24. UNCHANGED vars => Shrinks
  BY DEF Shrinks
<1>25. QED
  BY <1>1, <1>2, <1>3, <1>4, <1>5, <1>6, <1>7, <1>8, <1>9, <1>10, <1>11,
     <1>12, <1>13, <1>14, <1>15, <1>16, <1>17, <1>18, <1>19, <1>20, <1>21,
     <1>22, <1>23, <1>24
     DEF Next, TurnStep, HoldStep, JobStep

-----------------------------------------------------------------------------
(* The inductive invariant and the theorems.                                *)

IInv == /\ TypeOK /\ OwnerKnown /\ MainSinks /\ HowFits
        /\ JobsDieWithTurn /\ ResultKept

LEMMA InitIInv == Init => IInv
<1> SUFFICES ASSUME Init PROVE IInv
  OBVIOUS
<1> USE OwnersAssumption, BoundsAssumption DEF Init
<1>1. TypeOK /\ OwnerKnown
  <2>1. waits \in [Owners -> 0..MaxWaits] /\ turn \in [Owners -> TurnPC]
    BY DEF TurnPC
  <2>2. OwnerKnown
    BY DEF OwnerKnown
  <2>3. QED
    BY <2>1, <2>2 DEF TypeOK
<1>2. MainSinks /\ HowFits
  BY DEF MainSinks, HowFits
<1>3. JobsDieWithTurn /\ ResultKept
  BY DEF JobsDieWithTurn, ResultKept
<1>4. QED
  BY <1>1, <1>2, <1>3 DEF IInv

LEMMA StepIInv == IInv /\ [Next]_vars => IInv'
  BY TypeStep, SinkStep, HowStep, DieStep, ResultStep DEF IInv

LEMMA Invariance == Spec => []IInv
  BY InitIInv, StepIInv, PTL DEF Spec

\* Every variable of the store, of the turns and of the delivery keeps its type,
\* whatever the number of owners and jobs.
THEOREM TypeCorrect == Spec => []TypeOK
<1>1. IInv => TypeOK
  BY DEF IInv
<1>2. QED
  BY <1>1, Invariance, PTL

\* No job outlives its turn unnoticed: the deferred cancel of a turn reaches every
\* job the turn has started (pkg/agent/loop.go, pkg/agentloop/subagent_jobs.go).
THEOREM JobsDie == Spec => []JobsDieWithTurn
<1>1. IInv => JobsDieWithTurn
  BY DEF IInv
<1>2. QED
  BY <1>1, Invariance, PTL

\* A result that autoDeliverJobResult has dealt with is in the inbox of its owner,
\* or was drained from it, or its owner was a subagent that had gone.
THEOREM ResultsAreKept == Spec => []ResultKept
<1>1. IInv => ResultKept
  BY DEF IInv
<1>2. QED
  BY <1>1, Invariance, PTL

\* A turn that awaitSubagentResult lets end of itself has no running job.
THEOREM FinalIsFinal == Spec => []FinalLeavesNoneRunning
<1>1. IInv => FinalLeavesNoneRunning
  BY DEF IInv, HowFits, FinalLeavesNoneRunning
<1>2. QED
  BY <1>1, Invariance, PTL

-----------------------------------------------------------------------------
(* The cap, for one owner: between the two critical sections of its create   *)
(* nobody else can insert a row.                                             *)

CapRoom ==
  \A o \in Owners : turn[o] = "create" => Cardinality(Running) < MaxRunning

LEMMA CapStep ==
  ASSUME IsFiniteSet(Jobs), NEW p, Owners = {p},
         TypeOK, OwnerKnown, CapRoom, RunningCap, [Next]_vars
  PROVE  CapRoom' /\ RunningCap'
<1>1. IsFiniteSet(Running) /\ IsFiniteSet(Running') /\ Cardinality(Running) \in Nat
  BY FS_Subset, FS_CardinalityType DEF Running
<1>2. CASE Shrinks
  <2>1. Cardinality(Running') <= Cardinality(Running) /\ Cardinality(Running') \in Nat
    BY <1>1, <1>2, FS_Subset, FS_CardinalityType DEF Shrinks
  <2>2. QED
    BY <1>1, <1>2, <2>1, BoundsAssumption DEF Shrinks, CapRoom, RunningCap
<1>3. CASE Counts
  BY <1>1, <1>3, BoundsAssumption DEF Counts, CapRoom, RunningCap
<1>4. ASSUME NEW o \in Owners, NEW j \in Jobs, Inserts(o, j)
      PROVE  CapRoom' /\ RunningCap'
  <2>1. Cardinality(Running) < MaxRunning
    BY <1>4 DEF Inserts, At, CapRoom
  <2>2. /\ IsFiniteSet(Running \cup {j})
        /\ Cardinality(Running \cup {j}) <= Cardinality(Running) + 1
    <3>1. Cardinality(Running \cup {j}) \in {Cardinality(Running), Cardinality(Running) + 1}
      <4>1. CASE j \in Running
        <5>1. Running \cup {j} = Running
          BY <4>1
        <5>2. QED
          BY <5>1
      <4>2. CASE j \notin Running
        BY <1>1, <4>2, FS_AddElement
      <4>3. QED
        BY <4>1, <4>2
    <3>2. IsFiniteSet(Running \cup {j})
      BY <1>1, FS_AddElement
    <3>3. QED
      BY <1>1, <3>1, <3>2
  <2>3. /\ Cardinality(Running') <= Cardinality(Running \cup {j})
        /\ Cardinality(Running') \in Nat /\ Cardinality(Running \cup {j}) \in Nat
    BY <1>1, <1>4, <2>2, FS_Subset, FS_CardinalityType DEF Inserts
  <2>4. RunningCap'
    BY <1>1, <2>1, <2>2, <2>3, BoundsAssumption DEF RunningCap
  <2>5. CapRoom'
    BY <1>4 DEF Inserts, CapRoom, TypeOK
  <2>6. QED
    BY <2>4, <2>5
<1>5. QED
  BY <1>2, <1>3, <1>4, RunStep

\* With one owner no more than maxRunningJobs jobs run: the cap that
\* subJobStore.create checks before it unlocks still holds when it inserts.
THEOREM CapOfOneOwner ==
  ASSUME IsFiniteSet(Jobs), NEW p, Owners = {p}
  PROVE  Spec => []RunningCap
<1> DEFINE CInv == IInv /\ CapRoom /\ RunningCap
<1>1. Init => CInv
  <2> SUFFICES ASSUME Init PROVE CInv
    OBVIOUS
  <2>1. Running = {} /\ Cardinality({}) = 0
    BY FS_EmptySet DEF Init, Running
  <2>2. RunningCap /\ CapRoom
    BY <2>1, BoundsAssumption DEF RunningCap, CapRoom, Init
  <2>3. QED
    BY <2>2, InitIInv
<1>2. CInv /\ [Next]_vars => CInv'
  <2> SUFFICES ASSUME CInv, [Next]_vars PROVE CInv'
    OBVIOUS
  <2>1. CapRoom' /\ RunningCap'
    BY CapStep DEF IInv
  <2>2. QED
    BY <2>1, StepIInv
<1>3. CInv => RunningCap
  OBVIOUS
<1>4. QED
  BY <1>1, <1>2, <1>3, PTL DEF Spec

\* A step of the only owner keeps the wake-up: nobody else can take it.
LEMMA WakeStep ==
  ASSUME NEW p, Owners = {p}, TypeOK, OwnerKnown, NoLostWakeup, [Next]_vars
  PROVE  NoLostWakeup'
<1> USE OwnersAssumption, BoundsAssumption
      DEF TypeOK, TurnPC, Holding, OwnerKnown, OwnedBy, Advanced,
          NoLostWakeup, At, Move, KeepTurn, End, vars, storeVars,
          jobVars, turnVars, mailVars
<1>1. ASSUME NEW o \in Owners, StartTurn(o) PROVE NoLostWakeup'
  BY <1>1 DEF StartTurn, DrainOr
<1>2. ASSUME NEW o \in Owners, Iterate(o) PROVE NoLostWakeup'
  BY <1>2 DEF Iterate, DrainOr
<1>3. ASSUME NEW o \in Owners, FinalDrain(o) PROVE NoLostWakeup'
  BY <1>3 DEF FinalDrain, DrainOr
<1>4. ASSUME NEW o \in Owners, AskPending(o) PROVE NoLostWakeup'
  BY <1>4 DEF AskPending
<1>5. ASSUME NEW o \in Owners, HoldHead(o) PROVE NoLostWakeup'
  BY <1>5 DEF HoldHead
<1>6. ASSUME NEW o \in Owners, EnterWait(o) PROVE NoLostWakeup'
  BY <1>6 DEF EnterWait
<1>7. ASSUME NEW o \in Owners, Poll(o) PROVE NoLostWakeup'
  BY <1>7 DEF Poll
<1>8. ASSUME NEW o \in Owners, Wake(o) PROVE NoLostWakeup'
  BY <1>8 DEF Wake
<1>9. ASSUME NEW o \in Owners, WaitTimeout(o) PROVE NoLostWakeup'
  BY <1>9 DEF WaitTimeout
<1>10. ASSUME NEW o \in Owners, WaitCancelled(o) PROVE NoLostWakeup'
  BY <1>10 DEF WaitCancelled
<1>11. ASSUME NEW o \in Owners, HoldDrain(o) PROVE NoLostWakeup'
  BY <1>11 DEF HoldDrain, DrainOr
<1>12. ASSUME NEW o \in Owners, LastDrain(o) PROVE NoLostWakeup'
  BY <1>12 DEF LastDrain, DrainOr
<1>13. ASSUME NEW o \in Owners, Break(o) PROVE NoLostWakeup'
  BY <1>13 DEF Break
<1>14. ASSUME NEW o \in Owners, Unregister(o) PROVE NoLostWakeup'
  BY <1>14 DEF Unregister
<1>15. ASSUME NEW o \in Owners, Leave(o) PROVE NoLostWakeup'
  BY <1>15 DEF Leave
<1>16. ASSUME NEW o \in Owners, CancelTurn(o) PROVE NoLostWakeup'
  BY <1>16 DEF CancelTurn
<1>17. ASSUME NEW o \in Owners, NEW j \in Jobs, CountRunning(o, j)
       PROVE  NoLostWakeup'
  BY <1>17 DEF CountRunning
<1>18. ASSUME NEW o \in Owners, NEW j \in Jobs, InsertRow(o, j)
       PROVE  NoLostWakeup'
  BY <1>18 DEF InsertRow
<1>19. ASSUME NEW o \in Owners, NEW j \in Jobs, CancelJob(o, j)
       PROVE  NoLostWakeup'
  BY <1>19 DEF CancelJob
<1>20. ASSUME NEW j \in Jobs, Complete(j) PROVE NoLostWakeup'
  BY <1>20 DEF Complete
<1>21. ASSUME NEW j \in Jobs, SignalSettle(j) PROVE NoLostWakeup'
  BY <1>21 DEF SignalSettle
<1>22. ASSUME NEW j \in Jobs, Deliver(j) PROVE NoLostWakeup'
  BY <1>22 DEF Deliver
<1>23. ASSUME NEW j \in Jobs, Evict(j) PROVE NoLostWakeup'
  BY <1>23 DEF Evict
<1>24. CASE UNCHANGED vars
  BY <1>24
<1>25. QED
  BY <1>1, <1>2, <1>3, <1>4, <1>5, <1>6, <1>7, <1>8, <1>9, <1>10, <1>11,
     <1>12, <1>13, <1>14, <1>15, <1>16, <1>17, <1>18, <1>19, <1>20, <1>21,
     <1>22, <1>23, <1>24
     DEF Next, TurnStep, HoldStep, JobStep

\* With one owner no wake-up is lost: a turn that sleeps in waitForNextSettle
\* after a job of its own has settled finds the token in settleCh, or a
\* completion is about to put it there.
THEOREM WakeUpOfOneOwner ==
  ASSUME NEW p, Owners = {p}
  PROVE  Spec => []NoLostWakeup
<1> DEFINE WInv == IInv /\ NoLostWakeup
<1>1. Init => WInv
  <2>1. Init => NoLostWakeup
    BY DEF Init, NoLostWakeup
  <2>2. QED
    BY <2>1, InitIInv
<1>2. WInv /\ [Next]_vars => WInv'
  <2> SUFFICES ASSUME WInv, [Next]_vars PROVE WInv'
    OBVIOUS
  <2>1. NoLostWakeup'
    BY WakeStep DEF IInv
  <2>2. QED
    BY <2>1, StepIInv
<1>3. WInv => NoLostWakeup
  OBVIOUS
<1>4. QED
  BY <1>1, <1>2, <1>3, PTL DEF Spec
=============================================================================
