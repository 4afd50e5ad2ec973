-------------------------------- MODULE Slots --------------------------------
(***************************************************************************)
(* The slots of the inference servers.  A server keeps the KV cache of a   *)
(* conversation in one of its slots and can save it to a file and restore  *)
(* it.  The SlotManager hands slots out to sessions; a turn of a peer and  *)
(* a sub-agent take one, restore its file, save it after every answer and  *)
(* erase it when the session ends, is compacted or is reset.  Between the  *)
(* critical sections of the manager lie requests to the server, and the    *)
(* user may switch the model, hence the server, between any two of them.   *)
(***************************************************************************)
EXTENDS Integers, Sequences, SequencesExt, FiniteSets, FiniteSetsExt

CONSTANTS Peers,      \* sessions of peers: they take turn after turn
          Subs,       \* sessions of sub-agents: each lives once
          ResetCalls, \* calls of ResetSession
          ResetOf,    \* the peer that each of them is for
          Aliases,    \* the models of models.json
          HostOf,     \* the server of each
          SlotsOf,    \* how many slots each server has
          MaxEvents,  \* bound: switches of the model and resets
          None        \* no session, or none that is at work now

ASSUME SlotAssumption ==
  /\ None \notin Peers \cup Subs \cup Aliases
  /\ ResetOf \in [ResetCalls -> Peers] /\ Peers \cap Subs = {} /\ (Peers \cup Subs) \cap ResetCalls = {}
  /\ DOMAIN HostOf = Aliases /\ \A a \in Aliases : SlotsOf[HostOf[a]] \in Nat

Hosts    == {HostOf[a] : a \in Aliases}
Sessions == Peers \cup Subs
Procs    == Sessions \cup ResetCalls
SlotIds  == 0 .. Max({SlotsOf[h] : h \in Hosts}) - 1

SessionOf(q) == IF q \in ResetCalls THEN ResetOf[q] ELSE q

VARIABLES current,  \* ModelHolder: the alias in use
          events,   \* how often it was switched, or a peer reset
          avail,    \* SlotManager.availability, per server
          total,    \* SlotManager.totalSlots
          owner,    \* SlotManager.slots: the session of each slot
          recent,   \* its slots by LastUsed, the oldest first
          cache,    \* the servers: whose conversation each slot holds
          at,       \* where each process is
          got,      \* what it has read on its way
          calm      \* history: nothing has taken a slot from a session at work

slotVars == <<current, events, avail, total, owner, recent, cache, at, got, calm>>

Nothing == [alias |-> None, model |-> None, total |-> 0, slot |-> -1]

-----------------------------------------------------------------------------
SlotInit ==
  /\ current \in Aliases /\ events = 0
  /\ avail = [h \in Hosts |-> "unknown"] /\ total = 0
  /\ owner = [n \in SlotIds |-> None] /\ recent = <<>>
  /\ cache = [h \in Hosts |-> [n \in SlotIds |-> None]]
  /\ at = [q \in Procs |-> "idle"] /\ got = [q \in Procs |-> Nothing]
  /\ calm = TRUE

Touched(n) == Append(SelectSeq(recent, LAMBDA m : m # n), n)

\* The slot of a session in the map; the code's loop over the map finds any.
SlotOf(s) == {n \in SlotIds : owner[n] = s}

AtWork(s) == at[s] \notin {"idle", "ended"}

Move(q, to, what) == at' = [at EXCEPT ![q] = to] /\ got' = [got EXCEPT ![q] = what]

Go(q, to) == Move(q, to, got[q])

\* At work a session knows its slot and, once it has asked, the model it asked.
GoToWork(q) == Move(q, "work", [got[q] EXCEPT !.alias = None, !.total = 0])

-----------------------------------------------------------------------------
(* The model of the user.                                                   *)

SwitchModel(a) == /\ a # current /\ events < MaxEvents
                  /\ current' = a /\ events' = events + 1
                  /\ UNCHANGED <<avail, total, owner, recent, cache, at, got, calm>>

\* The start of the program with -reset, before anything else runs.
ClearAllSlots(found) ==
  LET h == HostOf[current] IN
  /\ \A q \in Procs : at[q] = "idle"
  /\ \A g \in Hosts : avail[g] = "unknown"
  /\ avail' = [avail EXCEPT ![h] = IF found THEN "up" ELSE "down"]
  /\ total' = IF found THEN SlotsOf[h] ELSE total
  /\ cache' = IF found THEN [cache EXCEPT ![h] = [n \in SlotIds |-> None]] ELSE cache
  /\ UNCHANGED <<current, events, owner, recent, at, got, calm>>

-----------------------------------------------------------------------------
(* Taking a slot.  A sub-agent has fixed its server before it asks for one;  *)
(* a turn of a peer fixes it when it sends its request.                      *)

StartTurn(p) == /\ p \in Peers /\ at[p] = "idle"
                /\ \E to \in {"check", "drop"} : Move(p, to, Nothing)
                /\ calm' = (calm /\ \A r \in ResetCalls : ResetOf[r] = p => ~AtWork(r))
                /\ UNCHANGED <<current, events, avail, total, owner, recent, cache>>

Spawn(s) == /\ s \in Subs /\ at[s] = "idle"
            /\ Move(s, "check", [Nothing EXCEPT !.model = current])
            /\ UNCHANGED <<current, events, avail, total, owner, recent, cache, calm>>

\* CheckAvailability: the answer is known, or the server has to be asked.
Check(s) == /\ at[s] = "check"
            /\ Move(s, IF avail[HostOf[current]] = "unknown" THEN "probe" ELSE "look",
                    [got[s] EXCEPT !.alias = current])
            /\ UNCHANGED <<current, events, avail, total, owner, recent, cache, calm>>

\* A failed probe writes the map whatever it holds by now; one that succeeds
\* looks again first.
Learned(h, found) == IF ~found THEN "down" ELSE IF avail[h] = "unknown" THEN "up" ELSE avail[h]

Probe(s, found) ==
  LET h == HostOf[got[s].alias] IN
  /\ at[s] = "probe"
  /\ avail' = [avail EXCEPT ![h] = Learned(h, found)]
  /\ total' = IF found /\ avail[h] = "unknown" THEN SlotsOf[h] ELSE total
  /\ Go(s, "look")
  /\ UNCHANGED <<current, events, owner, recent, cache, calm>>

\* A sub-agent gives up here when its server has no slots; a turn of a peer
\* asks for that after it has been given one.
Look(s) ==
  /\ at[s] = "look"
  /\ IF s \in Subs /\ (avail[HostOf[got[s].alias]] # "up" \/ total <= 0)
       THEN GoToWork(s) ELSE Move(s, "assign", [got[s] EXCEPT !.total = total])
  /\ UNCHANGED <<current, events, avail, total, owner, recent, cache, calm>>

First(set) == {n \in set : \A m \in set : n <= m}

\* findLRUSlotLocked: the one whose last use is the oldest.
Oldest(set) ==
  {n \in set : \A m \in set \ {n} : \E i, j \in DOMAIN recent : i < j /\ recent[i] = n /\ recent[j] = m}

GivenAnew(s) ==  \* Mutant: a session that has a slot gets another.
  LET free == {n \in SlotIds : n < got[s].total /\ owner[n] = None}
  IN IF got[s].total <= 0 THEN {} ELSE IF free # {} THEN First(free) ELSE {Head(recent)}

\* GetOrAssign: the slot the session has, else the first free one, else the one
\* whose last use is the oldest.
Given(s) ==
  LET among == {n \in SlotIds : n < got[s].total}
      free  == {n \in among : owner[n] = None}
  IN IF got[s].total <= 0 THEN {}
     ELSE CASE SlotOf(s) # {}                -> SlotOf(s)
            [] SlotOf(s) = {} /\ free # {} -> First(free)
            [] OTHER                        -> Oldest(among)

Assign(s) ==
  /\ at[s] = "assign"
  /\ \/ /\ Given(s) = {} /\ GoToWork(s)
        /\ UNCHANGED <<owner, recent, calm>>
     \/ \E n \in Given(s) :
          LET evicted == owner[n] \notin {None, s}
              usable  == s \in Subs \/ avail[HostOf[got[s].alias]] = "up"
          IN /\ owner' = [owner EXCEPT ![n] = s] /\ recent' = Touched(n)
             /\ Move(s, IF ~usable THEN "work" ELSE IF evicted THEN "saveOut" ELSE "restore",
                     [got[s] EXCEPT !.total = 0, !.slot = IF usable THEN n ELSE -1])
             /\ calm' = (calm /\ ~evicted)
  /\ UNCHANGED <<current, events, avail, total, cache>>

\* How the server answers a request about a slot: it refuses with a status that
\* tells that it saves no slots at all, it fails, or it does what it is asked.
Answers == {"done", "failed", "refused"}

Refused(h, answer) == IF answer = "refused" THEN [avail EXCEPT ![h] = "down"] ELSE avail

\* The file of a slot holds what was last saved from it, by whichever session.
Restore(s, answer) ==
  LET h == HostOf[got[s].alias] IN
  /\ at[s] = "restore"
  /\ cache' = IF answer = "done" THEN [cache EXCEPT ![h][got[s].slot] = None] ELSE cache
  /\ avail' = Refused(h, answer)
  /\ GoToWork(s)
  /\ UNCHANGED <<current, events, total, owner, recent, calm>>

\* The evicted session's cache is saved and erased; only a turn of a peer takes a refusal for the end of the feature.
SaveOut(s, answer) ==
  /\ at[s] = "saveOut"
  /\ avail' = IF s \in Peers THEN Refused(HostOf[got[s].alias], answer) ELSE avail
  /\ Go(s, "eraseOut")
  /\ UNCHANGED <<current, events, total, owner, recent, cache, calm>>

EraseOut(s, done) ==
  /\ at[s] = "eraseOut"
  /\ cache' = IF done THEN [cache EXCEPT ![HostOf[got[s].alias]][got[s].slot] = None] ELSE cache
  /\ GoToWork(s)
  /\ UNCHANGED <<current, events, avail, total, owner, recent, calm>>

-----------------------------------------------------------------------------
(* Working with it.                                                         *)

\* A request leaves the conversation in the slot it names; without one, or with
\* one the server does not have, the server takes any.
Round(s) ==
  LET model == IF s \in Subs THEN got[s].model ELSE current
      h     == HostOf[model]
      named == got[s].slot \in 0 .. SlotsOf[h] - 1
  IN /\ at[s] = "work"
     /\ \E n \in (IF named THEN {got[s].slot} ELSE 0 .. SlotsOf[h] - 1) :
          cache' = [cache EXCEPT ![h][n] = s]
     /\ Move(s, IF got[s].slot >= 0 THEN "save" ELSE "work", [got[s] EXCEPT !.model = model])
     /\ calm' = (calm /\ named)
     /\ UNCHANGED <<current, events, avail, total, owner, recent>>

\* SaveSessionSlot, after every answer: the model and the slot of this moment.
Save(s) ==
  /\ at[s] = "save"
  /\ \/ SlotOf(s) = {} /\ Go(s, "work") /\ UNCHANGED recent
     \/ \E n \in SlotOf(s) : /\ recent' = Touched(n)
                             /\ Move(s, "write", [got[s] EXCEPT !.alias = current, !.total = n])
  /\ UNCHANGED <<current, events, avail, total, owner, cache, calm>>

Write(s, answer) ==
  /\ at[s] = "write"
  /\ avail' = Refused(HostOf[got[s].alias], answer)
  /\ GoToWork(s)
  /\ UNCHANGED <<current, events, total, owner, recent, cache, calm>>

\* The end of a turn touches the slot; the end of a sub-agent gives it back.
EndWork(s) ==
  /\ at[s] = "work"
  /\ IF s \in Peers
       THEN /\ Move(s, "idle", Nothing)
            /\ recent' = IF SlotOf(s) = {} THEN recent ELSE Touched(Min(SlotOf(s)))
       ELSE Move(s, "drop", Nothing) /\ UNCHANGED recent
  /\ UNCHANGED <<current, events, avail, total, owner, cache, calm>>

-----------------------------------------------------------------------------
(* Giving it back: invalidateSessionSlot of a compaction at the start of a   *)
(* turn and of a reset, and ReleaseSessionSlot of a sub-agent that ends.     *)

StartReset(r) ==
  /\ r \in ResetCalls /\ at[r] = "idle" /\ events < MaxEvents
  /\ events' = events + 1
  /\ Move(r, "drop", Nothing)
  /\ calm' = (calm /\ ~AtWork(ResetOf[r]) /\ \A o \in ResetCalls : ResetOf[o] = ResetOf[r] => ~AtWork(o))
  /\ UNCHANGED <<current, avail, total, owner, recent, cache>>

AfterDrop(q) == IF q \in Peers THEN "check" ELSE "ended"

DropAtOnce(q) ==  \* Mutant: the slot is free before it is erased.
  /\ at[q] = "drop"
  /\ \/ SlotOf(SessionOf(q)) = {} /\ Move(q, AfterDrop(q), Nothing) /\ UNCHANGED <<owner, recent>>
     \/ \E n \in SlotOf(SessionOf(q)) :
          /\ owner' = [owner EXCEPT ![n] = None] /\ recent' = SelectSeq(recent, LAMBDA m : m # n)
          /\ Move(q, "erase", [got[q] EXCEPT !.alias = current, !.slot = n])
  /\ UNCHANGED <<current, events, avail, total, cache, calm>>

Drop(q) ==
  /\ at[q] = "drop"
  /\ \/ SlotOf(SessionOf(q)) = {} /\ Move(q, AfterDrop(q), Nothing) /\ UNCHANGED recent
     \/ \E n \in SlotOf(SessionOf(q)) :
          /\ recent' = Touched(n)
          /\ Move(q, "erase", [got[q] EXCEPT !.alias = current, !.slot = n])
  /\ UNCHANGED <<current, events, avail, total, owner, cache, calm>>

Erase(q, done) ==
  /\ at[q] = "erase"
  /\ cache' = IF done THEN [cache EXCEPT ![HostOf[got[q].alias]][got[q].slot] = None] ELSE cache
  /\ Go(q, "forget")
  /\ UNCHANGED <<current, events, avail, total, owner, recent, calm>>

\* SlotManager.Release looks for the session, not for the slot that was erased.
Forget(q) ==
  LET mine == SlotOf(SessionOf(q)) IN
  /\ at[q] = "forget"
  /\ owner' = [n \in SlotIds |-> IF n \in mine THEN None ELSE owner[n]]
  /\ recent' = SelectSeq(recent, LAMBDA n : n \notin mine)
  /\ Move(q, AfterDrop(q), Nothing)
  /\ UNCHANGED <<current, events, avail, total, cache, calm>>

-----------------------------------------------------------------------------
Work(s) ==
  \/ StartTurn(s) \/ Spawn(s) \/ Check(s) \/ Look(s) \/ Assign(s) \/ Round(s) \/ Save(s) \/ EndWork(s)
  \/ \E found \in BOOLEAN : Probe(s, found) \/ EraseOut(s, found)
  \/ \E answer \in Answers : Restore(s, answer) \/ SaveOut(s, answer) \/ Write(s, answer)

SlotNext ==
  \/ \E a \in Aliases : SwitchModel(a)
  \/ \E found \in BOOLEAN : ClearAllSlots(found)
  \/ \E s \in Sessions : Work(s)
  \/ \E r \in ResetCalls : StartReset(r)
  \/ \E q \in Procs : Drop(q) \/ Forget(q) \/ \E done \in BOOLEAN : Erase(q, done)

SlotSpec == SlotInit /\ [][SlotNext]_slotVars

-----------------------------------------------------------------------------
(* Properties.                                                              *)

\* A session has one slot at most, however its turns, its compactions, its resets and the
\* evictions of others interleave.
OneSlotEach == \A s \in Sessions : \A m, n \in SlotOf(s) : m = n

\* A sub-agent that is done holds no slot.
FinishedHoldNothing == \A s \in Subs : at[s] = "ended" => SlotOf(s) = {}

\* The slots of the manager are those of the sessions that live, one each: whatever the
\* server answers and whatever model is current when a session ends, its slot is free again.
SlotsOfTheLiving == OneSlotEach /\ FinishedHoldNothing

\* The slot feature of a server that was found missing stays off: a probe that
\* was under way when another request was refused does not turn it on again.
DownStaysDown == [][\A h \in Hosts : avail[h] = "down" => avail'[h] = "down"]_slotVars

\* As long as no slot was taken from a session at work, what is saved after an
\* answer is the conversation that was answered: a slot that one session gave
\* back is no more erased when the next one uses it.
CacheIsKept ==
  \A s \in Sessions :
    calm /\ at[s] = "write" /\ got[s].alias = got[s].model
      => cache[HostOf[got[s].alias]][got[s].total] = s
=============================================================================
