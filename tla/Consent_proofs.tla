--------------------------- MODULE Consent_proofs ---------------------------
(***************************************************************************)
(* Proofs about the answers of users, for any callers and peers, any calls, *)
(* directories, resets and crashes: what an answer grants, to whom, for how *)
(* long, and how often a call asks for it.                                  *)
(***************************************************************************)
EXTENDS Consent, SequenceTheorems, WellFoundedInduction, TLAPS

\* The places of a caller while its question is open, and while it grants.
Asking   == {"ask", "send", "wait", "leave"}
Granting == {"grant", "save"}

Absolute(k) == \A x \in ToSet(k.paths) : ~x.rel

\* Who saves a grant has a path that it granted.
Types == TypeOK /\ \A c \in Callers : pc[c] = "save" => todo[c] # <<>>

\* x is a path of S, as it is resolved in one of the directories.
Resolves(x, S) == \E path \in S, dir \in Dirs : From(Cwd, x) = From(dir, path)

\* What the user of c has allowed covers what c takes as allowed.
Heard(c) ==
  /\ pc[c] \in {"send", "wait"} /\ box[c] \in Allowing(question[c]) =>
       ToSet(call[c].paths) \subseteq consented[owner[c]]
  /\ pc[c] = "leave" /\ reply[c] \in Allowing(question[c]) =>
       ToSet(call[c].paths) \subseteq consented[owner[c]]
  /\ pc[c] \in Asking /\ question[c] = "path" =>
       \A x \in ToSet(todo[c]) : Resolves(x, ToSet(call[c].paths))
  /\ pc[c] \in Granting => \A x \in ToSet(todo[c]) : Resolves(x, consented[owner[c]])

\* What a peer has in memory and in the store was allowed by its user.
Allowed(p) ==
  /\ registered[p] # None => owner[registered[p]] = p
  /\ \A x \in saved[p] : Resolves(x, consented[p])
  /\ \A g \in grants[p] : \E path \in consented[p], dir \in Dirs : g = Ancestor(From(dir, path))

HeardInv == (\A c \in Callers : Heard(c)) /\ (\A p \in Peers : Allowed(p))

\* A path that is granted already.
Covered(c, x) == Under(x.names, Mine(c))

\* Paths that have yet to become a grant: at "save" the first has become one.
Due(c) == IF pc[c] = "save" THEN Tail(todo[c]) ELSE todo[c]

\* The number of questions that a caller has put, at each of its places.
Counted(c) ==
  /\ pc[c] \in {"idle", "gate", "path"} => question[c] # "path"
  /\ pc[c] = "gate" => asked[c] = 0
  /\ pc[c] = "ask" => asked[c] = 0 \/ (question[c] = "path" /\ ~Absolute(call[c]))
  /\ pc[c] # "idle" => asked[c] <= 1 \/ ~Absolute(call[c])
  /\ pc[c] \in Asking /\ question[c] \in {"critical", "shell"} => call[c].tool = "bash"

\* A call that was allowed once, and nothing since /clear took away, has its paths
\* granted when it comes to the path gate.
Served(c) ==
  asked[c] # 0 /\ Absolute(call[c]) =>
    /\ pc[c] = "path" => \A x \in FilePaths(call[c]) : Covered(c, x)
    /\ pc[c] \in Granting /\ question[c] # "path" =>
         \A x \in FilePaths(call[c]) : x \in ToSet(Due(c)) \/ Covered(c, x)

AskedInv == \A c \in Callers : Counted(c) /\ Served(c)

RestartInv ==
  /\ RestartKeepsGrants
  /\ \A p \in Peers : reset[p] # "none" => p \in clears

-----------------------------------------------------------------------------
(* The end of the definitions: now what the operators on paths return.      *)

\* Of the directories above a path there is a deepest one: among the prefixes of one
\* sequence, the one that leaves out the least.
LEMMA AncestorIsAbove ==
  ASSUME NEW names \in Seq(STRING)
  PROVE  Ancestor(names) \in Dirs /\ IsPrefix(Ancestor(names), names)
<1> USE DirsAssumption
<1> DEFINE Above == {d \in Dirs : IsPrefix(d, names)}
           Gap(d) == Len(names) - Len(d)
           Gaps == {Gap(d) : d \in Above}
<1>1. <<>> \in Above
  <2>1. SubSeq(<<>>, 1, 0) = <<>> /\ SubSeq(names, 1, 0) = <<>>
    OBVIOUS
  <2> QED BY <2>1 DEF IsPrefix
<1>2. \A d \in Above : Len(d) \in Nat /\ Len(d) <= Len(names)
  BY DEF IsPrefix
<1>3. Gaps \subseteq Nat /\ Gaps # {}
  BY <1>1, <1>2
<1> DEFINE Less == OpToRel(<, Nat)
<1>4. PICK n \in Gaps : \A m \in Gaps : <<m, n>> \notin Less
  <2> HIDE DEF Less, Gaps
  <2>1. IsWellFoundedOn(Less, Nat)
    BY NatLessThanWellFounded DEF Less
  <2> QED BY <1>3, <2>1, WFMin
<1>5. \A m \in Gaps : ~(m < n)
  BY <1>3, <1>4 DEF OpToRel
<1>6. PICK d \in Above : n = Gap(d)
  OBVIOUS
<1>7. \A e \in Above : Len(e) <= Len(d)
  <2> TAKE e \in Above
  <2>1. Gap(e) \in Gaps
    OBVIOUS
  <2>2. ~(Gap(e) < Gap(d))
    BY <1>5, <1>6, <2>1
  <2> QED BY <1>2, <2>2
<1>8. \A e \in Above : IsPrefix(e, d)
  <2> SUFFICES ASSUME NEW e \in Above PROVE IsPrefix(e, d)
    OBVIOUS
  <2>1. /\ e \in Seq(STRING) /\ d \in Seq(STRING)
        /\ Len(e) <= Len(d) /\ Len(d) <= Len(names)
        /\ SubSeq(e, 1, Len(e)) = SubSeq(names, 1, Len(e))
        /\ SubSeq(d, 1, Len(d)) = SubSeq(names, 1, Len(d))
    BY <1>2, <1>7 DEF IsPrefix
  <2>2. \A i \in 1 .. Len(e) : e[i] = names[i]
    BY <2>1, SubSeqProperties
  <2>3. \A i \in 1 .. Len(d) : d[i] = names[i]
    BY <2>1, SubSeqProperties
  <2>4. SubSeq(e, 1, Len(e)) = SubSeq(d, 1, Len(e))
    BY <2>1, <2>2, <2>3
  <2> QED BY <2>1, <2>4 DEF IsPrefix
<1> QED BY <1>8 DEF Ancestor

LEMMA FromIsPath ==
  ASSUME NEW dir \in Dirs, NEW x \in Paths
  PROVE  From(dir, x) \in Seq(STRING)
<1>1. dir \in Seq(STRING) /\ x.names \in Seq(STRING)
  BY DirsAssumption DEF Paths
<1>2. dir \o x.names \in Seq(STRING)
  BY <1>1
<1> QED BY <1>1, <1>2 DEF From

LEMMA GrantIsDir ==
  ASSUME NEW x \in Paths
  PROVE  Grant(x) \in Dirs
BY FromIsPath, AncestorIsAbove, DirsAssumption DEF Grant

LEMMA ElementsOf ==
  ASSUME NEW S, NEW s \in Seq(S)
  PROVE  ToSet(s) \subseteq S
BY DEF ToSet

LEMMA PathsOfCalls ==
  /\ NoCall \in Calls
  /\ \A k \in Calls : /\ k.paths \in Seq(Paths) /\ ToSet(k.paths) \subseteq Paths
                      /\ FilePaths(k) \subseteq ToSet(k.paths)
BY CallsAssumption, ElementsOf DEF NoCall, FilePaths

LEMMA ResolvedIsPaths ==
  ASSUME NEW paths \in Seq(Paths), workingDir \in Dirs
  PROVE  Resolved(paths) \in Seq(Paths)
<1>1. \A i \in 1 .. Len(paths) :
        [rel |-> FALSE, names |-> From(workingDir, paths[i])] \in Paths
  <2> TAKE i \in 1 .. Len(paths)
  <2>1. From(workingDir, paths[i]) \in Seq(STRING)
    BY FromIsPath
  <2> QED BY <2>1 DEF Paths
<1> QED BY <1>1 DEF Resolved

LEMMA OwnersAre ==
  ASSUME TypeOK
  PROVE  owner \in [Callers -> Peers]
BY SettingsAssumption DEF TypeOK, owner

LEMMA ToGrantIsPaths ==
  ASSUME TypeOK, NEW c \in Callers
  PROVE  ToGrant(c) \in Seq(Paths)
<1>1. call[c].paths \in Seq(Paths) /\ todo[c] \in Seq(Paths) /\ <<>> \in Seq(Paths)
  BY PathsOfCalls DEF TypeOK
<1>2. Resolved(call[c].paths) \in Seq(Paths)
  BY <1>1, ResolvedIsPaths DEF TypeOK
<1>3. question[c] \in {"critical", "shell", "tool", "path"}
  BY DEF TypeOK
<1> QED BY <1>1, <1>2, <1>3 DEF ToGrant

-----------------------------------------------------------------------------
(* The variables hold values of their kinds.                                *)

LEMMA TypesInit == Init => Types
BY PathsOfCalls, DirsAssumption DEF Init, Types, TypeOK, Idle, Answers

LEMMA TypesCall ==
  ASSUME Types, NEW c \in Callers, CallStep(c)
  PROVE  Types'
<1> USE DEF Types, TypeOK, Goto, Return, callerVars, toolVars, accessVars, resetVars, pastVars
<1>1. NoCall \in Calls /\ ToGrant(c) \in Seq(Paths) /\ owner[c] \in Peers
  BY PathsOfCalls, ToGrantIsPaths, OwnersAre
<1>2. CASE PermissionGate(c)
  <2> DEFINE gate == Gate(c, call[c])
  <2>1. CASE Goto(c, "path") /\ UNCHANGED <<call, question>>
    BY <1>2, <2>1 DEF PermissionGate
  <2>2. CASE Return(c)
    BY <1>1, <1>2, <2>2 DEF PermissionGate
  <2>3. CASE /\ gate \in {"critical", "shell", "tool"} /\ UNCHANGED call
             /\ Goto(c, "ask") /\ question' = [question EXCEPT ![c] = gate]
    <3> HIDE DEF gate
    <3> QED BY <1>2, <2>3 DEF PermissionGate
  <2> QED BY <1>2, <2>1, <2>2, <2>3 DEF PermissionGate
<1>3. CASE PathGate(c)
  <2>1. Resolved(call[c].paths) \in Seq(Paths)
    <3>1. call[c].paths \in Seq(Paths) /\ workingDir \in Dirs
      BY PathsOfCalls
    <3> QED BY <3>1, ResolvedIsPaths
  <2>2. CASE Goto(c, "run") /\ UNCHANGED <<question, todo>>
    BY <1>3, <2>2 DEF PathGate
  <2>3. CASE /\ Goto(c, "ask") /\ question' = [question EXCEPT ![c] = "path"]
             /\ todo' = [todo EXCEPT ![c] = Resolved(call[c].paths)]
    BY <1>3, <2>1, <2>3 DEF PathGate
  <2> QED BY <1>3, <2>2, <2>3 DEF PathGate
<1>4. CASE Execute(c)
  BY <1>4 DEF Execute
<1>5. CASE EndCall(c)
  BY <1>1, <1>5 DEF EndCall
<1>6. CASE Ask(c)
  BY <1>1, <1>6 DEF Ask
<1>7. CASE Send(c)
  BY <1>7 DEF Send, Answers
<1>8. CASE Receive(c)
  BY <1>8 DEF Receive, Answers
<1>9. CASE Leave(c)
  <2> DEFINE more == [learned EXCEPT ![c] = @ \cup {call[c]}]
  <2>1. /\ reply' = [reply EXCEPT ![c] = "no"]
        /\ UNCHANGED <<setting, cancelled, workingDir, allowed, grants, saved, home, reset,
                       target, asked, consented, calls, events, clears>>
    BY <1>9 DEF Leave
  <2>2. registered' \in [Peers -> Callers \cup {None}]
        /\ box' \in [Callers -> {"empty", "closed"} \cup Answers]
    BY <1>1, <1>9 DEF Leave, Unregister
  <2>3. \/ /\ todo' = [todo EXCEPT ![c] = ToGrant(c)] /\ UNCHANGED <<call, question>>
           /\ pc' = [pc EXCEPT ![c] = "grant"] /\ learned' \in {learned, more}
        \/ /\ todo' = [todo EXCEPT ![c] = <<>>] /\ call' = [call EXCEPT ![c] = NoCall]
           /\ question' = [question EXCEPT ![c] = "tool"]
           /\ pc' = [pc EXCEPT ![c] = "idle"] /\ UNCHANGED learned
    BY <1>9 DEF Leave
  <2>4. learned \in [Callers -> SUBSET Calls] /\ more \in [Callers -> SUBSET Calls]
    OBVIOUS
  <2>5. reply' \in [Callers -> Answers] /\ learned' \in [Callers -> SUBSET Calls]
    BY <2>1, <2>3, <2>4 DEF Answers
  <2> HIDE DEF more
  <2>6. CASE /\ todo' = [todo EXCEPT ![c] = ToGrant(c)] /\ UNCHANGED <<call, question>>
             /\ pc' = [pc EXCEPT ![c] = "grant"]
    BY <1>1, <2>1, <2>2, <2>5, <2>6
  <2>7. CASE /\ todo' = [todo EXCEPT ![c] = <<>>] /\ call' = [call EXCEPT ![c] = NoCall]
             /\ question' = [question EXCEPT ![c] = "tool"]
             /\ pc' = [pc EXCEPT ![c] = "idle"]
    BY <1>1, <2>1, <2>2, <2>5, <2>7
  <2> QED BY <2>3, <2>6, <2>7
<1>10. CASE GrantInMemory(c)
  <2>1. Head(todo[c]) \in Paths
    BY <1>10 DEF GrantInMemory
  <2>2. Grant(Head(todo[c])) \in Dirs
    BY <2>1, GrantIsDir
  <2> QED BY <1>1, <2>2, <1>10 DEF GrantInMemory
<1>11. CASE SaveGrant(c)
  <2>1. Head(todo[c]) \in Paths /\ Tail(todo[c]) \in Seq(Paths)
    BY <1>11 DEF SaveGrant
  <2> QED BY <1>1, <2>1, <1>11 DEF SaveGrant
<1>12. CASE GrantsDone(c)
  BY <1>12 DEF GrantsDone
<1> QED BY <1>2, <1>3, <1>4, <1>5, <1>6, <1>7, <1>8, <1>9, <1>10, <1>11, <1>12 DEF CallStep

\* The other steps of callers, users and /clear, and a crash.
LEMMA TypesNext == Types /\ [Next]_vars => Types'
<1> SUFFICES ASSUME Types, [Next]_vars PROVE Types'
  OBVIOUS
<1> USE DEF Types, TypeOK, callerVars, toolVars, accessVars, resetVars, pastVars
<1>1. ASSUME NEW c \in Callers, CallStep(c) PROVE Types'
  BY <1>1, TypesCall
<1>2. ASSUME NEW c \in Callers, NextTurn(c) PROVE Types'
  BY <1>2 DEF NextTurn
<1>3. ASSUME NEW c \in Callers, Stop(c) PROVE Types'
  BY <1>3 DEF Stop
<1>4. ASSUME NEW c \in Callers, NEW k \in setting.made, Round(c, k) PROVE Types'
  <2>1. k \in Calls /\ owner[c] \in Peers
    BY OwnersAre, SettingsAssumption
  <2> QED BY <1>4, <2>1 DEF Round, Goto
<1>5. ASSUME NEW p \in Peers, NEW t \in Answers, Text(p, t) PROVE Types'
  <2> DEFINE c == registered[p]
             heard == IF t \in Allowing(question[c]) THEN ToSet(call[c].paths) ELSE {}
  <2>1. c \in Callers
    BY <1>5 DEF Text
  <2>2. heard \subseteq Paths
    BY <2>1, PathsOfCalls
  <2>3. /\ box' = [box EXCEPT ![c] = t]
        /\ consented' = [consented EXCEPT ![p] = @ \cup heard]
        /\ registered' = [registered EXCEPT ![p] = None]
        /\ UNCHANGED <<setting, callerVars, workingDir, accessVars, resetVars, asked, calls,
                       events, clears>>
    BY <1>5 DEF Text
  <2> HIDE DEF c, heard
  <2> QED BY <2>1, <2>2, <2>3
<1>6. ASSUME NEW p \in Peers, NEW dir \in NewDirs \cup {home[p]}, BeginReset(p, dir)
      PROVE  Types'
  <2>1. dir \in Dirs /\ cancelled' \subseteq Callers
    BY <1>6, DirsAssumption DEF BeginReset
  <2> QED BY <1>6, <2>1 DEF BeginReset, Resetting
<1>7. ASSUME NEW p \in Peers, ResetQuestion(p) PROVE Types'
  BY <1>7 DEF ResetQuestion, Resetting, Unregister
<1>8. ASSUME NEW p \in Peers, ResetMemory(p) PROVE Types'
  BY <1>8 DEF ResetMemory, Resetting
<1>9. ASSUME NEW p \in Peers, ResetStore(p) PROVE Types'
  BY <1>9 DEF ResetStore, Resetting
<1>10. ASSUME NEW p \in Peers, ResetDir(p) PROVE Types'
  BY <1>10 DEF ResetDir, Resetting
<1>11. CASE Crash
  <2>1. grants' \in [Peers -> SUBSET Dirs]
    BY <1>11, GrantIsDir DEF Crash
  <2>2. NoCall \in Calls /\ home[Configured] \in Dirs /\ Cwd \in Dirs
    BY PathsOfCalls, PeersAssumption, DirsAssumption
  <2> QED BY <1>11, <2>1, <2>2 DEF Crash, Idle, Answers
<1>12. CASE UNCHANGED vars
  BY <1>12 DEF vars
<1> QED
  BY <1>1, <1>2, <1>3, <1>4, <1>5, <1>6, <1>7, <1>8, <1>9, <1>10, <1>11, <1>12
  DEF Next, ResetStep, Rest

\* Callers, questions, grants and resets keep to their kinds: a grant is always a directory
\* that exists, a question always one that a gate puts.
THEOREM TypesOfConsent == Spec => []TypeOK
<1>1. Types => TypeOK
  BY DEF Types
<1> QED BY <1>1, TypesInit, TypesNext, PTL DEF Spec

-----------------------------------------------------------------------------
(* What a step of one caller leaves to the others.                          *)

LEMMA CallFrame ==
  ASSUME Types, NEW c \in Callers, CallStep(c)
  PROVE  /\ UNCHANGED <<setting, allowed, workingDir, consented, reset, clears>>
         /\ \A d \in Callers \ {c} :
              /\ pc'[d] = pc[d] /\ call'[d] = call[d] /\ question'[d] = question[d]
              /\ reply'[d] = reply[d] /\ todo'[d] = todo[d] /\ asked'[d] = asked[d]
              /\ box'[d] \in {box[d], "closed"}
         /\ GrantInMemory(c) \/ UNCHANGED grants
         /\ SaveGrant(c) \/ UNCHANGED saved
<1> USE DEF Types, TypeOK, Goto, Return, callerVars, toolVars, accessVars, resetVars, pastVars
<1>1. CASE PermissionGate(c)
  BY <1>1 DEF PermissionGate
<1>2. CASE PathGate(c)
  BY <1>2 DEF PathGate
<1>3. CASE Execute(c)
  BY <1>3 DEF Execute
<1>4. CASE EndCall(c)
  BY <1>4 DEF EndCall
<1>5. CASE Ask(c)
  BY <1>5 DEF Ask
<1>6. CASE Send(c)
  BY <1>6 DEF Send
<1>7. CASE Receive(c)
  BY <1>7 DEF Receive
<1>8. CASE Leave(c)
  BY <1>8 DEF Leave, Unregister
<1>9. CASE GrantInMemory(c)
  BY <1>9 DEF GrantInMemory
<1>10. CASE SaveGrant(c)
  BY <1>10 DEF SaveGrant
<1>11. CASE GrantsDone(c)
  BY <1>11 DEF GrantsDone
<1> QED BY <1>1, <1>2, <1>3, <1>4, <1>5, <1>6, <1>7, <1>8, <1>9, <1>10, <1>11 DEF CallStep

-----------------------------------------------------------------------------
(* Until its first reset, a peer's grants in memory are those of the store. *)

\* Callers that save a grant of p.
Savers(p) == {c \in Callers : owner[c] = p /\ pc[c] = "save"}

\* Nobody comes to save or goes from it, and nothing that is kept changes.
LEMMA RestartFrame ==
  ASSUME Types, RestartInv, UNCHANGED setting,
         \A p \in Peers \ clears : grants'[p] = grants[p] /\ saved'[p] = saved[p],
         \A c \in Callers : /\ pc'[c] = "save" <=> pc[c] = "save"
                            /\ pc[c] = "save" => todo'[c] = todo[c],
         clears \subseteq clears', \A p \in Peers : reset'[p] # "none" => p \in clears'
  PROVE  RestartInv'
BY DEF RestartInv, RestartKeepsGrants, owner

LEMMA RestartInit == Init => RestartInv
BY DEF Init, RestartInv, RestartKeepsGrants, Idle

LEMMA RestartGrant ==
  ASSUME Types, RestartInv, NEW c \in Callers, GrantInMemory(c)
  PROVE  RestartInv'
<1> USE DEF Types, TypeOK
<1>1. /\ pc[c] = "grant" /\ pc' = [pc EXCEPT ![c] = "save"]
      /\ grants' = [grants EXCEPT ![owner[c]] = @ \cup {Grant(Head(todo[c]))}]
      /\ UNCHANGED <<setting, saved, todo, reset, clears>>
  BY DEF GrantInMemory, Goto, resetVars, pastVars
<1>2. owner[c] \in Peers /\ owner' = owner
  BY <1>1, OwnersAre DEF owner
<1>3. ASSUME NEW p \in Peers \ clears
      PROVE  grants'[p] = {Grant(path) : path \in saved'[p]}
                          \cup {Grant(Head(todo'[d])) : d \in Savers(p)'}
  <2>1. grants[p] = {Grant(path) : path \in saved[p]}
                    \cup {Grant(Head(todo[d])) : d \in Savers(p)}
    BY DEF RestartInv, RestartKeepsGrants, Savers
  <2> SUFFICES grants'[p] = {Grant(path) : path \in saved[p]}
                           \cup {Grant(Head(todo[d])) : d \in Savers(p)'}
    BY <1>1
  <2>2. CASE owner[c] = p
    <3>1. Savers(p)' = Savers(p) \cup {c}
      BY <1>1, <1>2, <2>2 DEF Savers
    <3>2. grants'[p] = grants[p] \cup {Grant(Head(todo[c]))}
      BY <1>1, <1>2, <2>2
    <3>3. {Grant(Head(todo[d])) : d \in Savers(p)'}
            = {Grant(Head(todo[d])) : d \in Savers(p)} \cup {Grant(Head(todo[c]))}
      BY <3>1
    <3> QED BY <2>1, <3>2, <3>3
  <2>3. CASE owner[c] # p
    <3>1. Savers(p)' = Savers(p)
      BY <1>1, <1>2, <2>3 DEF Savers
    <3> QED BY <1>1, <1>2, <2>1, <2>3, <3>1
  <2> QED BY <2>2, <2>3
<1>4. clears' = clears /\ reset' = reset
  BY <1>1
<1> QED BY <1>3, <1>4 DEF RestartInv, RestartKeepsGrants, Savers

LEMMA RestartSave ==
  ASSUME Types, RestartInv, NEW c \in Callers, SaveGrant(c)
  PROVE  RestartInv'
<1> USE DEF Types, TypeOK
<1>1. /\ pc[c] = "save" /\ pc' = [pc EXCEPT ![c] = "grant"]
      /\ saved' = [saved EXCEPT ![owner[c]] = @ \cup {Head(todo[c])}]
      /\ todo' = [todo EXCEPT ![c] = Tail(@)]
      /\ UNCHANGED <<setting, grants, reset, clears>>
  BY DEF SaveGrant, Goto, resetVars, pastVars
<1>2. owner[c] \in Peers /\ owner' = owner
  BY <1>1, OwnersAre DEF owner
<1>3. ASSUME NEW p \in Peers \ clears
      PROVE  grants'[p] = {Grant(path) : path \in saved'[p]}
                          \cup {Grant(Head(todo'[d])) : d \in Savers(p)'}
  <2>1. grants[p] = {Grant(path) : path \in saved[p]}
                    \cup {Grant(Head(todo[d])) : d \in Savers(p)}
    BY DEF RestartInv, RestartKeepsGrants, Savers
  <2>2. Savers(p)' = Savers(p) \ {c} /\ \A d \in Savers(p)' : todo'[d] = todo[d]
    BY <1>1, <1>2 DEF Savers
  <2>3. CASE owner[c] = p
    <3>1. c \in Savers(p) /\ saved'[p] = saved[p] \cup {Head(todo[c])}
      BY <1>1, <1>2, <2>3 DEF Savers
    <3> QED BY <1>1, <2>1, <2>2, <3>1
  <2>4. CASE owner[c] # p
    <3>1. Savers(p)' = Savers(p) /\ saved'[p] = saved[p]
      BY <1>1, <1>2, <2>2, <2>4 DEF Savers
    <3> QED BY <1>1, <2>1, <2>2, <3>1
  <2> QED BY <2>3, <2>4
<1> QED BY <1>1, <1>3 DEF RestartInv, RestartKeepsGrants, Savers


\* Every other step of a caller leaves its grants and who saves one as they are.
LEMMA RestartCall ==
  ASSUME Types, RestartInv, NEW c \in Callers, CallStep(c)
  PROVE  RestartInv'
<1> USE DEF Types, TypeOK
<1>1. CASE GrantInMemory(c)
  BY <1>1, RestartGrant
<1>2. CASE SaveGrant(c)
  BY <1>2, RestartSave
<1>3. CASE ~GrantInMemory(c) /\ ~SaveGrant(c)
  <2>1. UNCHANGED <<setting, grants, saved, reset, clears>>
    BY <1>3, CallFrame
  <2>2. \A d \in Callers \ {c} : pc'[d] = pc[d] /\ todo'[d] = todo[d]
    BY CallFrame
  <2>3. pc[c] # "save" /\ pc'[c] # "save"
    BY <1>3 DEF CallStep, PermissionGate, PathGate, Execute, EndCall, Ask, Send, Receive,
                Leave, GrantsDone, Goto, Return
  <2>4. \A d \in Callers : /\ pc'[d] = "save" <=> pc[d] = "save"
                           /\ pc[d] = "save" => todo'[d] = todo[d]
    BY <2>2, <2>3
  <2>5. \A p \in Peers : reset'[p] # "none" => p \in clears'
    BY <2>1 DEF RestartInv
  <2> QED BY <2>1, <2>4, <2>5, RestartFrame
<1> QED BY <1>1, <1>2, <1>3

LEMMA RestartNext == Types /\ RestartInv /\ [Next]_vars => RestartInv'
<1> SUFFICES ASSUME Types, RestartInv, [Next]_vars PROVE RestartInv'
  OBVIOUS
<1> USE DEF Types, TypeOK, callerVars, toolVars, accessVars, resetVars, pastVars
<1>1. ASSUME NEW c \in Callers, CallStep(c) PROVE RestartInv'
  BY <1>1, RestartCall
<1>2. ASSUME NEW c \in Callers, NextTurn(c) PROVE RestartInv'
  BY <1>2, RestartFrame DEF NextTurn, RestartInv
<1>3. ASSUME NEW c \in Callers, Stop(c) PROVE RestartInv'
  BY <1>3, RestartFrame DEF Stop, RestartInv
<1>4. ASSUME NEW c \in Callers, NEW k \in setting.made, Round(c, k) PROVE RestartInv'
  BY <1>4, RestartFrame DEF Round, Goto, RestartInv
<1>5. ASSUME NEW p \in Peers, NEW t \in Answers, Text(p, t) PROVE RestartInv'
  BY <1>5, RestartFrame DEF Text, RestartInv
<1>6. ASSUME NEW p \in Peers, NEW dir \in NewDirs \cup {home[p]}, BeginReset(p, dir)
      PROVE  RestartInv'
  <2>1. /\ clears' = clears \cup {p} /\ reset' = [reset EXCEPT ![p] = "question"]
        /\ UNCHANGED <<setting, grants, saved, pc, todo>>
    BY <1>6 DEF BeginReset, Resetting
  <2> QED BY <2>1, RestartFrame DEF RestartInv
<1>7. ASSUME NEW p \in Peers, ResetQuestion(p) PROVE RestartInv'
  BY <1>7, RestartFrame DEF ResetQuestion, Resetting, RestartInv
<1>8. ASSUME NEW p \in Peers, ResetMemory(p) PROVE RestartInv'
  <2>1. /\ p \in clears /\ reset' = [reset EXCEPT ![p] = "store"]
        /\ grants' = [grants EXCEPT ![p] = {}]
        /\ UNCHANGED <<setting, saved, pc, todo, clears>>
    BY <1>8 DEF ResetMemory, Resetting, RestartInv
  <2>2. \A q \in Peers \ clears : grants'[q] = grants[q]
    BY <2>1
  <2>3. \A q \in Peers : reset'[q] # "none" => q \in clears'
    BY <2>1 DEF RestartInv
  <2> QED BY <2>1, <2>2, <2>3, RestartFrame
<1>9. ASSUME NEW p \in Peers, ResetStore(p) PROVE RestartInv'
  <2>1. /\ p \in clears /\ reset' = [reset EXCEPT ![p] = "dir"]
        /\ saved' = [saved EXCEPT ![p] = {}]
        /\ UNCHANGED <<setting, grants, pc, todo, clears>>
    BY <1>9 DEF ResetStore, Resetting, RestartInv
  <2>2. \A q \in Peers \ clears : saved'[q] = saved[q]
    BY <2>1
  <2>3. \A q \in Peers : reset'[q] # "none" => q \in clears'
    BY <2>1 DEF RestartInv
  <2> QED BY <2>1, <2>2, <2>3, RestartFrame
<1>10. ASSUME NEW p \in Peers, ResetDir(p) PROVE RestartInv'
  BY <1>10, RestartFrame DEF ResetDir, Resetting, RestartInv
<1>11. CASE Crash
  <2>1. /\ \A q \in Peers : grants'[q] = {Grant(path) : path \in saved[q]}
        /\ \A c \in Callers : pc'[c] = "idle"
        /\ \A q \in Peers : reset'[q] = "none"
        /\ UNCHANGED <<setting, saved, clears>>
    BY <1>11 DEF Crash, Idle
  <2> QED BY <2>1 DEF RestartInv, RestartKeepsGrants
<1>12. CASE UNCHANGED vars
  BY <1>12, RestartFrame DEF vars, RestartInv
<1> QED
  BY <1>1, <1>2, <1>3, <1>4, <1>5, <1>6, <1>7, <1>8, <1>9, <1>10, <1>11, <1>12
  DEF Next, ResetStep, Rest

-----------------------------------------------------------------------------
(* What is granted was allowed, and by whom.                                *)

LEMMA PlainResolves ==
  ASSUME NEW S, NEW x \in S
  PROVE  Resolves(x, S)
BY DirsAssumption DEF Resolves

LEMMA ResolvesInMore ==
  ASSUME NEW S, NEW T, S \subseteq T, NEW x, Resolves(x, S)
  PROVE  Resolves(x, T)
BY DEF Resolves

\* A path resolved in the working directory is the same path from anywhere.
LEMMA ResolvedResolves ==
  ASSUME NEW paths \in Seq(Paths), workingDir \in Dirs, NEW x \in ToSet(Resolved(paths))
  PROVE  Resolves(x, ToSet(paths))
<1>1. PICK i \in DOMAIN paths : x = [rel |-> FALSE, names |-> From(workingDir, paths[i])]
  BY DEF ToSet, Resolved
<1>2. paths[i] \in ToSet(paths)
  BY DEF ToSet
<1>3. From(Cwd, x) = From(workingDir, paths[i])
  BY <1>1 DEF From
<1> QED BY <1>2, <1>3 DEF Resolves

LEMMA ToGrantResolves ==
  ASSUME Types, NEW c \in Callers, NEW x \in ToSet(ToGrant(c)),
         question[c] = "path" => \A y \in ToSet(todo[c]) : Resolves(y, ToSet(call[c].paths))
  PROVE  Resolves(x, ToSet(call[c].paths))
<1>1. /\ call[c].paths \in Seq(Paths) /\ workingDir \in Dirs
      /\ question[c] \in {"critical", "shell", "tool", "path"}
  BY PathsOfCalls DEF Types, TypeOK
<1>2. CASE question[c] = "critical"
  BY <1>2 DEF ToGrant, ToSet
<1>3. CASE question[c] = "tool"
  BY <1>3, PlainResolves DEF ToGrant
<1>4. CASE question[c] = "shell"
  BY <1>1, <1>4, ResolvedResolves DEF ToGrant
<1>5. CASE question[c] = "path"
  BY <1>5 DEF ToGrant
<1> QED BY <1>1, <1>2, <1>3, <1>4, <1>5

\* A caller that stays where it is, while its user allows more or its channel is closed.
LEMMA HeardFrame ==
  ASSUME Types, NEW c \in Callers, Heard(c), UNCHANGED setting,
         consented[owner[c]] \subseteq consented'[owner[c]],
         pc'[c] = pc[c], call'[c] = call[c], question'[c] = question[c],
         reply'[c] = reply[c], todo'[c] = todo[c], box'[c] \in {box[c], "closed"}
  PROVE  Heard(c)'
<1>1. owner' = owner
  BY DEF owner
<1>2. box'[c] \in Allowing(question[c]) => box'[c] = box[c]
  BY DEF Allowing
<1>3. \A x : Resolves(x, consented[owner[c]]) => Resolves(x, consented'[owner[c]])
  BY ResolvesInMore
<1>4. ToSet(call[c].paths) \subseteq consented[owner[c]]
        => ToSet(call'[c].paths) \subseteq consented'[owner'[c]]
  BY <1>1
<1>5. pc[c] \in {"send", "wait"} /\ box'[c] \in Allowing(question[c])
        => ToSet(call'[c].paths) \subseteq consented'[owner'[c]]
  BY <1>2, <1>4 DEF Heard
<1>6. pc[c] \in Asking /\ question[c] = "path" =>
        \A x \in ToSet(todo'[c]) : Resolves(x, ToSet(call'[c].paths))
  BY DEF Heard
<1>7. pc[c] \in Granting => \A x \in ToSet(todo'[c]) : Resolves(x, consented'[owner'[c]])
  BY <1>1, <1>3 DEF Heard
<1>8. pc[c] = "leave" /\ reply[c] \in Allowing(question[c])
        => ToSet(call'[c].paths) \subseteq consented'[owner'[c]]
  BY <1>4 DEF Heard
<1> QED BY <1>5, <1>6, <1>7, <1>8 DEF Heard, Resolves

\* The step of a caller: it takes an answer for allowed only if its user allowed the call.
LEMMA HeardStep ==
  ASSUME Types, NEW c \in Callers, Heard(c), CallStep(c)
  PROVE  Heard(c)'
<1> USE DEF Types, TypeOK, Goto
<1> DEFINE S == consented[owner[c]]
           P == ToSet(call[c].paths)
<1>1. owner' = owner /\ consented' = consented /\ owner[c] \in Peers
  BY CallFrame, OwnersAre DEF owner
<1>2. CASE PermissionGate(c) \/ Execute(c) \/ EndCall(c) \/ GrantsDone(c)
  <2>1. \/ pc'[c] \in {"idle", "path", "run", "ran", "refused"}
        \/ pc'[c] = "ask" /\ question'[c] \in {"critical", "shell", "tool"}
    BY <1>2 DEF PermissionGate, Execute, EndCall, GrantsDone, Return
  <2> QED BY <2>1 DEF Heard, Asking, Granting
<1>3. CASE PathGate(c)
  <2>1. call[c].paths \in Seq(Paths) /\ workingDir \in Dirs
    BY PathsOfCalls
  <2>2. call' = call /\ \/ pc'[c] = "run"
                        \/ pc'[c] = "ask" /\ todo'[c] = Resolved(call[c].paths)
    BY <1>3 DEF PathGate
  <2>3. \A x \in ToSet(Resolved(call[c].paths)) : Resolves(x, P)
    BY <2>1, ResolvedResolves
  <2> QED BY <2>2, <2>3 DEF Heard, Asking, Granting, Resolves
<1>4. CASE Ask(c)
  <2>1. /\ pc[c] = "ask" /\ pc'[c] = "send" /\ box'[c] = "empty"
        /\ UNCHANGED <<call, question, todo>>
    BY <1>4 DEF Ask
  <2>2. box'[c] \notin Allowing(question'[c])
    BY <2>1 DEF Allowing
  <2> QED BY <2>1, <2>2 DEF Heard, Asking, Granting, Resolves
<1>5. CASE Send(c)
  <2>1. /\ pc[c] = "send" /\ UNCHANGED <<call, question, todo, box>>
        /\ pc'[c] = "wait" \/ (pc'[c] = "leave" /\ reply'[c] = "no")
    BY <1>5 DEF Send, toolVars
  <2>2. "no" \notin Allowing(question[c])
    BY DEF Allowing
  <2> QED BY <1>1, <2>1, <2>2 DEF Heard, Asking, Granting, Resolves
<1>6. CASE Receive(c)
  <2>1. /\ pc[c] = "wait" /\ pc'[c] = "leave" /\ UNCHANGED <<call, question, todo>>
        /\ reply'[c] = IF box[c] = "closed" THEN "no" ELSE box[c]
    BY <1>6 DEF Receive
  <2>2. reply'[c] \in Allowing(question[c]) => box[c] \in Allowing(question[c])
    BY <2>1 DEF Allowing
  <2> QED BY <1>1, <2>1, <2>2 DEF Heard, Asking, Granting, Resolves
<1>7. CASE Leave(c)
  <2>1. \/ /\ pc[c] = "leave" /\ reply[c] \in Allowing(question[c])
           /\ todo'[c] = ToGrant(c) /\ pc'[c] = "grant"
        \/ pc'[c] = "idle"
    BY <1>7, ToGrantIsPaths DEF Leave, Return
  <2>2. CASE pc'[c] = "idle"
    BY <2>2 DEF Heard, Asking, Granting
  <2>3. CASE /\ pc[c] = "leave" /\ reply[c] \in Allowing(question[c])
             /\ todo'[c] = ToGrant(c) /\ pc'[c] = "grant"
    <3>1. P \subseteq S
      BY <2>3 DEF Heard
    <3>2. question[c] = "path" => \A y \in ToSet(todo[c]) : Resolves(y, P)
      BY <2>3 DEF Heard, Asking
    <3>3. \A x \in ToSet(ToGrant(c)) : Resolves(x, P)
      BY <3>2, ToGrantResolves
    <3>4. \A x \in ToSet(todo'[c]) : Resolves(x, S)
      BY <2>3, <3>1, <3>3, ResolvesInMore
    <3> QED BY <1>1, <2>3, <3>4 DEF Heard, Asking, Granting, Resolves
  <2> QED BY <2>1, <2>2, <2>3
<1>8. CASE GrantInMemory(c)
  <2>1. pc[c] = "grant" /\ pc'[c] = "save" /\ UNCHANGED todo
    BY <1>8 DEF GrantInMemory
  <2> QED BY <1>1, <2>1 DEF Heard, Asking, Granting, Resolves
<1>9. CASE SaveGrant(c)
  <2>1. pc[c] = "save" /\ pc'[c] = "grant" /\ todo'[c] = Tail(todo[c])
    BY <1>9 DEF SaveGrant
  <2>2. todo[c] \in Seq(Paths) /\ todo[c] # <<>>
    BY <2>1
  <2>3. ToSet(Tail(todo[c])) \subseteq ToSet(todo[c])
    BY <2>2 DEF ToSet
  <2> QED BY <1>1, <2>1, <2>3 DEF Heard, Asking, Granting, Resolves
<1> QED BY <1>2, <1>3, <1>4, <1>5, <1>6, <1>7, <1>8, <1>9 DEF CallStep

\* What a caller grants or saves was allowed by its user, and so is what it leaves alone.
LEMMA AllowedCall ==
  ASSUME Types, HeardInv, NEW c \in Callers, CallStep(c), NEW p \in Peers
  PROVE  Allowed(p)'
<1> USE DEF Types, TypeOK, Goto
<1>1. owner' = owner /\ consented' = consented /\ owner[c] \in Peers
  BY CallFrame, OwnersAre DEF owner
<1>2. Allowed(p) /\ Heard(c)
  BY DEF HeardInv
<1>3. registered'[p] # None => owner[registered'[p]] = p
  <2>1. registered'[p] = registered[p] \/ registered'[p] = None
          \/ (registered'[p] = c /\ owner[c] = p)
    BY <1>1 DEF CallStep, PermissionGate, PathGate, Execute, EndCall, Ask, Send, Receive,
                Leave, Unregister, GrantInMemory, SaveGrant, GrantsDone, toolVars
  <2> QED BY <1>2, <2>1 DEF Allowed
<1>4. \A x \in saved'[p] : Resolves(x, consented[p])
  <2>1. CASE SaveGrant(c)
    <3>1. /\ pc[c] = "save" /\ todo[c] \in Seq(Paths) /\ todo[c] # <<>>
          /\ saved' = [saved EXCEPT ![owner[c]] = @ \cup {Head(todo[c])}]
      BY <2>1 DEF SaveGrant
    <3>2. Head(todo[c]) \in ToSet(todo[c])
      BY <3>1 DEF ToSet
    <3>3. Resolves(Head(todo[c]), consented[owner[c]])
      BY <1>2, <3>1, <3>2 DEF Heard, Granting
    <3> QED BY <1>1, <1>2, <3>1, <3>3 DEF Allowed
  <2>2. CASE UNCHANGED saved
    BY <1>2, <2>2 DEF Allowed
  <2> QED BY <2>1, <2>2, CallFrame
<1>5. \A g \in grants'[p] :
        \E path \in consented[p], dir \in Dirs : g = Ancestor(From(dir, path))
  <2>1. CASE GrantInMemory(c)
    <3>1. /\ pc[c] = "grant" /\ todo[c] \in Seq(Paths) /\ todo[c] # <<>>
          /\ grants' = [grants EXCEPT ![owner[c]] = @ \cup {Grant(Head(todo[c]))}]
      BY <2>1 DEF GrantInMemory
    <3>2. Head(todo[c]) \in ToSet(todo[c])
      BY <3>1 DEF ToSet
    <3>3. Resolves(Head(todo[c]), consented[owner[c]])
      BY <1>2, <3>1, <3>2 DEF Heard, Granting
    <3>4. \E path \in consented[owner[c]], dir \in Dirs :
            Grant(Head(todo[c])) = Ancestor(From(dir, path))
      BY <3>3 DEF Resolves, Grant
    <3> QED BY <1>1, <1>2, <3>1, <3>4 DEF Allowed
  <2>2. CASE UNCHANGED grants
    BY <1>2, <2>2 DEF Allowed
  <2> QED BY <2>1, <2>2, CallFrame
<1> QED BY <1>1, <1>3, <1>4, <1>5 DEF Allowed, Resolves

\* A peer whose grants and questions can only become fewer, while its user allows more.
LEMMA AllowedFrame ==
  ASSUME Types, NEW p \in Peers, Allowed(p), UNCHANGED setting,
         registered'[p] \in {registered[p], None},
         saved'[p] \subseteq saved[p], grants'[p] \subseteq grants[p],
         consented[p] \subseteq consented'[p]
  PROVE  Allowed(p)'
<1>1. owner' = owner
  BY DEF owner
<1>2. \A x \in saved'[p] : Resolves(x, consented'[p])
  BY ResolvesInMore DEF Allowed
<1> QED BY <1>1, <1>2 DEF Allowed, Resolves

LEMMA HeardInit == Init => HeardInv
<1> SUFFICES ASSUME Init PROVE HeardInv
  OBVIOUS
<1>1. ASSUME NEW c \in Callers PROVE Heard(c)
  BY DEF Init, Idle, Heard, Asking, Granting
<1>2. ASSUME NEW p \in Peers PROVE Allowed(p)
  BY DEF Init, Allowed
<1> QED BY <1>1, <1>2 DEF HeardInv

\* A text is heard by the caller whose question is registered, and allows what it asks.
LEMMA HeardText ==
  ASSUME Types, HeardInv, NEW p \in Peers, NEW t \in Answers, Text(p, t)
  PROVE  HeardInv'
<1> USE DEF Types, TypeOK
<1> DEFINE c == registered[p]
           heard == IF t \in Allowing(question[c]) THEN ToSet(call[c].paths) ELSE {}
<1>1. /\ c \in Callers /\ owner[c] = p /\ owner' = owner
      /\ box' = [box EXCEPT ![c] = t]
      /\ consented' = [consented EXCEPT ![p] = @ \cup heard]
      /\ registered' = [registered EXCEPT ![p] = None]
      /\ UNCHANGED <<setting, pc, call, question, reply, todo, saved, grants>>
  BY DEF Text, HeardInv, Allowed, callerVars, accessVars, owner
<1>2. \A q \in Peers : consented[q] \subseteq consented'[q]
  <2> HIDE DEF c, heard
  <2> QED BY <1>1
<1>3. \A d \in Callers : consented[owner[d]] \subseteq consented'[owner[d]]
  BY <1>2, OwnersAre
<1>4. ASSUME NEW d \in Callers PROVE Heard(d)'
  <2>1. CASE d # c
    <3>1. box'[d] = box[d]
      BY <1>1, <2>1
    <3> QED BY <1>1, <1>3, <3>1, HeardFrame DEF HeardInv
  <2>2. CASE d = c
    <3>1. /\ \A x : Resolves(x, consented[p]) => Resolves(x, consented'[p])
          /\ consented[p] \subseteq consented'[p]
      <4> HIDE DEF c, heard
      <4> QED BY <1>2, ResolvesInMore
    <3>2. box'[c] = t /\ heard \subseteq consented'[p]
      <4> HIDE DEF c, heard
      <4> QED BY <1>1
    <3>3. box'[c] \in Allowing(question[c]) => ToSet(call[c].paths) \subseteq consented'[p]
      BY <3>2
    <3> HIDE DEF c, heard
    <3>4. Heard(c) /\ owner'[c] = p
      BY <1>1 DEF HeardInv
    <3> QED BY <1>1, <2>2, <3>1, <3>3, <3>4 DEF Heard, Resolves
  <2> QED BY <2>1, <2>2
<1>5. ASSUME NEW q \in Peers PROVE Allowed(q)'
  <2>1. registered'[q] \in {registered[q], None}
    BY <1>1
  <2> HIDE DEF c, heard
  <2> QED BY <1>1, <1>2, <2>1, AllowedFrame DEF HeardInv
<1> QED BY <1>4, <1>5 DEF HeardInv

\* A step that leaves the callers where they are, and takes from peers at most.
LEMMA HeardElsewhere ==
  ASSUME Types, HeardInv,
         UNCHANGED <<setting, pc, call, question, reply, todo, consented>>,
         \A c \in Callers : box'[c] \in {box[c], "closed"},
         \A p \in Peers : /\ registered'[p] \in {registered[p], None}
                          /\ saved'[p] \subseteq saved[p] /\ grants'[p] \subseteq grants[p]
  PROVE  HeardInv'
<1>1. ASSUME NEW c \in Callers PROVE Heard(c)'
  BY HeardFrame DEF HeardInv
<1>2. ASSUME NEW p \in Peers PROVE Allowed(p)'
  BY AllowedFrame DEF HeardInv
<1> QED BY <1>1, <1>2 DEF HeardInv

LEMMA HeardNext == Types /\ HeardInv /\ [Next]_vars => HeardInv'
<1> SUFFICES ASSUME Types, HeardInv, [Next]_vars PROVE HeardInv'
  OBVIOUS
<1> USE DEF Types, TypeOK, callerVars, toolVars, accessVars, resetVars, pastVars
<1>1. ASSUME NEW c \in Callers, CallStep(c) PROVE HeardInv'
  <2>1. \A d \in Callers : consented[owner[d]] \subseteq consented'[owner[d]]
    BY <1>1, CallFrame
  <2>2. ASSUME NEW d \in Callers \ {c} PROVE Heard(d)'
    BY <1>1, <2>1, CallFrame, HeardFrame DEF HeardInv
  <2>3. Heard(c)'
    BY <1>1, HeardStep DEF HeardInv
  <2>4. ASSUME NEW p \in Peers PROVE Allowed(p)'
    BY <1>1, AllowedCall
  <2> QED BY <2>2, <2>3, <2>4 DEF HeardInv
<1>2. ASSUME NEW c \in Callers, NextTurn(c) PROVE HeardInv'
  BY <1>2, HeardElsewhere DEF NextTurn
<1>3. ASSUME NEW c \in Callers, Stop(c) PROVE HeardInv'
  BY <1>3, HeardElsewhere DEF Stop
<1>4. ASSUME NEW c \in Callers, NEW k \in setting.made, Round(c, k) PROVE HeardInv'
  <2>1. /\ pc' = [pc EXCEPT ![c] = "gate"] /\ call' = [call EXCEPT ![c] = k]
        /\ UNCHANGED <<setting, question, reply, todo, box, registered, saved, grants, consented>>
    BY <1>4 DEF Round, Goto
  <2>2. Heard(c)'
    BY <2>1 DEF Heard, Asking, Granting
  <2>3. ASSUME NEW d \in Callers \ {c} PROVE Heard(d)'
    BY <2>1, HeardFrame DEF HeardInv
  <2>4. ASSUME NEW p \in Peers PROVE Allowed(p)'
    BY <2>1, AllowedFrame DEF HeardInv
  <2> QED BY <2>2, <2>3, <2>4 DEF HeardInv
<1>5. ASSUME NEW p \in Peers, NEW t \in Answers, Text(p, t) PROVE HeardInv'
  BY <1>5, HeardText
<1>6. ASSUME NEW p \in Peers, NEW dir \in NewDirs \cup {home[p]}, BeginReset(p, dir)
      PROVE  HeardInv'
  BY <1>6, HeardElsewhere DEF BeginReset
<1>7. ASSUME NEW p \in Peers, ResetQuestion(p) PROVE HeardInv'
  BY <1>7, HeardElsewhere DEF ResetQuestion, Unregister
<1>8. ASSUME NEW p \in Peers, ResetMemory(p) PROVE HeardInv'
  BY <1>8, HeardElsewhere DEF ResetMemory
<1>9. ASSUME NEW p \in Peers, ResetStore(p) PROVE HeardInv'
  BY <1>9, HeardElsewhere DEF ResetStore
<1>10. ASSUME NEW p \in Peers, ResetDir(p) PROVE HeardInv'
  BY <1>10, HeardElsewhere DEF ResetDir
<1>11. CASE Crash
  <2>1. /\ \A q \in Peers : /\ grants'[q] = {Grant(path) : path \in saved[q]}
                            /\ registered'[q] = None
        /\ \A c \in Callers : pc'[c] = "idle"
        /\ UNCHANGED <<setting, saved, consented>>
    BY <1>11 DEF Crash, Idle
  <2>2. ASSUME NEW c \in Callers PROVE Heard(c)'
    BY <2>1 DEF Heard, Asking, Granting
  <2>3. ASSUME NEW p \in Peers PROVE Allowed(p)'
    <3>1. \A x \in saved[p] : Resolves(x, consented[p])
      BY DEF HeardInv, Allowed
    <3>2. \A g \in grants'[p] :
            \E path \in consented[p], dir \in Dirs : g = Ancestor(From(dir, path))
      BY <2>1, <3>1 DEF Resolves, Grant
    <3> QED BY <2>1, <3>1, <3>2 DEF Allowed, Resolves
  <2> QED BY <2>2, <2>3 DEF HeardInv
<1>12. CASE UNCHANGED vars
  BY <1>12, HeardElsewhere DEF vars
<1> QED
  BY <1>1, <1>2, <1>3, <1>4, <1>5, <1>6, <1>7, <1>8, <1>9, <1>10, <1>11, <1>12
  DEF Next, ResetStep, Rest

-----------------------------------------------------------------------------
(* One question for each call: a grant of one gate is what the next one asks.*)

\* A grant of an absolute path covers it.
LEMMA GrantCovers ==
  ASSUME NEW x \in Paths, ~x.rel
  PROVE  Grant(x) \in Dirs /\ IsPrefix(Grant(x), x.names)
<1>1. From(Cwd, x) = x.names
  BY DEF From
<1>2. x.names \in Seq(STRING)
  BY DEF Paths
<1> QED BY <1>1, <1>2, AncestorIsAbove DEF Grant

LEMMA RestOf ==
  ASSUME NEW S, NEW s \in Seq(S), NEW x \in ToSet(s), x # Head(s)
  PROVE  x \in ToSet(Tail(s))
<1>1. PICK i \in 1 .. Len(s) : x = s[i]
  BY DEF ToSet
<1>2. i # 1 /\ s # <<>>
  BY <1>1
<1>3. Tail(s) \in Seq(S) /\ Len(Tail(s)) = Len(s) - 1 /\ Tail(s)[i - 1] = s[i]
  BY <1>1, <1>2
<1>4. i - 1 \in DOMAIN Tail(s)
  BY <1>1, <1>2, <1>3
<1> QED BY <1>1, <1>3, <1>4 DEF ToSet

\* Only a shell command is a critical one, or asks with the rules of the shell.
LEMMA GateAsksOnce ==
  ASSUME NEW c, NEW k \in Calls
  PROVE  Gate(c, k) \in {"critical", "shell"} => k.tool = "bash"
<1>1. Gate(c, k) = "critical" => k.tool = "bash"
  BY CallsAssumption DEF Gate, Verdict, Actions
<1>2. Gate(c, k) = "shell" => k.tool = "bash"
  BY CallsAssumption DEF Gate, Verdict, Actions
<1> QED BY <1>1, <1>2

\* A caller that stays where it is, while its peer's grants only grow.
LEMMA AskedFrame ==
  ASSUME Types, NEW c \in Callers, Counted(c) /\ Served(c), UNCHANGED setting,
         Mine(c) \subseteq Mine(c)',
         pc'[c] = pc[c], call'[c] = call[c], question'[c] = question[c],
         todo'[c] = todo[c], asked'[c] = asked[c]
  PROVE  (Counted(c) /\ Served(c))'
<1>1. Counted(c)'
  BY DEF Counted, Absolute
<1>2. \A x : Covered(c, x) => Covered(c, x)'
  BY DEF Covered, Under
<1>3. Due(c)' = Due(c)
  BY DEF Due
<1>4. Served(c)'
  BY <1>2, <1>3 DEF Served, Absolute, FilePaths
<1> QED BY <1>1, <1>4

\* The step of a caller: the path gate finds the grants of the permission gate, so that
\* only a relative path, which a grant and a check read differently, is asked for again.
LEMMA AskedStep ==
  ASSUME Types, NEW c \in Callers, Counted(c) /\ Served(c), CallStep(c)
  PROVE  (Counted(c) /\ Served(c))'
<1> USE DEF Types, TypeOK, Goto
<1> DEFINE A == Absolute(call[c])
<1>1. /\ call[c] \in Calls /\ asked[c] \in Nat /\ todo[c] \in Seq(Paths)
      /\ FilePaths(call[c]) \subseteq Paths /\ owner[c] \in Peers
  BY PathsOfCalls, OwnersAre
<1>2. CASE PermissionGate(c)
  <2>1. pc[c] = "gate" /\ UNCHANGED asked
    BY <1>2 DEF PermissionGate, pastVars
  <2>2. asked[c] = 0 /\ question[c] # "path"
    BY <2>1 DEF Counted
  <2>3. \/ pc'[c] = "path" /\ UNCHANGED <<call, question>>
        \/ pc'[c] = "idle" /\ question'[c] = "tool"
        \/ /\ pc'[c] = "ask" /\ UNCHANGED call
           /\ question'[c] = Gate(c, call[c])
           /\ Gate(c, call[c]) \in {"critical", "shell", "tool"}
    BY <1>2 DEF PermissionGate, Return
  <2>4. Gate(c, call[c]) \in {"critical", "shell"} => call[c].tool = "bash"
    BY <1>1, GateAsksOnce
  <2>5. Counted(c)'
    BY <2>1, <2>2, <2>3, <2>4 DEF Counted, Asking
  <2>6. Served(c)'
    BY <2>1, <2>2 DEF Served
  <2> QED BY <2>5, <2>6
<1>3. CASE PathGate(c)
  <2>1. pc[c] = "path" /\ UNCHANGED <<asked, call>> /\ pc'[c] \in {"run", "ask"}
    BY <1>3 DEF PathGate, pastVars
  <2>2. question[c] # "path" /\ (asked[c] <= 1 \/ ~A)
    BY <2>1 DEF Counted
  <2>3. CASE pc'[c] = "run"
    BY <2>1, <2>2, <2>3 DEF Counted, Served, Absolute, Asking, Granting
  <2>4. CASE pc'[c] = "ask"
    <3>1. /\ question'[c] = "path"
          /\ \E x \in FilePaths(call[c]) : ~Under(From(workingDir, x), Mine(c))
      BY <1>3, <2>4 DEF PathGate
    <3>2. A => \A x \in FilePaths(call[c]) : From(workingDir, x) = x.names
      BY <1>1, PathsOfCalls DEF From, Absolute
    <3>3. asked[c] = 0 \/ ~A
      BY <2>1, <3>1, <3>2 DEF Served, Covered
    <3>4. Counted(c)'
      BY <2>1, <2>2, <2>4, <3>1, <3>3 DEF Counted, Absolute
    <3>5. Served(c)'
      BY <2>4 DEF Served, Granting
    <3> QED BY <3>4, <3>5
  <2> QED BY <2>1, <2>3, <2>4
<1>4. CASE Execute(c)
  <2>1. pc[c] = "run" /\ pc'[c] \in {"ran", "refused"} /\ UNCHANGED <<asked, call, question>>
    BY <1>4 DEF Execute, pastVars
  <2> QED BY <2>1 DEF Counted, Served, Absolute, Asking, Granting
<1>5. CASE EndCall(c)
  <2>1. pc'[c] = "idle" /\ question'[c] = "tool"
    BY <1>5 DEF EndCall, Return
  <2> QED BY <2>1 DEF Counted, Served, Asking, Granting
<1>6. CASE Ask(c)
  <2>1. /\ pc[c] = "ask" /\ pc'[c] = "send" /\ asked'[c] = asked[c] + 1
        /\ UNCHANGED <<call, question>>
    BY <1>6 DEF Ask
  <2>2. asked[c] = 0 \/ ~A
    BY <2>1 DEF Counted
  <2>3. Counted(c)'
    BY <1>1, <2>1, <2>2 DEF Counted, Absolute, Asking
  <2>4. Served(c)'
    BY <2>1 DEF Served, Granting
  <2> QED BY <2>3, <2>4
<1>7. CASE Send(c) \/ Receive(c)
  <2>1. /\ pc[c] \in {"send", "wait"} /\ pc'[c] \in {"wait", "leave"}
        /\ UNCHANGED <<asked, call, question>>
    BY <1>7 DEF Send, Receive, pastVars
  <2>2. Counted(c)'
    BY <2>1 DEF Counted, Absolute, Asking
  <2>3. Served(c)'
    BY <2>1 DEF Served, Granting
  <2> QED BY <2>2, <2>3
<1>8. CASE Leave(c)
  <2>1. \/ /\ pc[c] = "leave" /\ pc'[c] = "grant" /\ UNCHANGED <<asked, call, question>>
           /\ todo'[c] = ToGrant(c)
        \/ pc'[c] = "idle" /\ question'[c] = "tool"
    BY <1>8, ToGrantIsPaths DEF Leave, Return, pastVars
  <2>2. CASE pc'[c] = "idle" /\ question'[c] = "tool"
    BY <2>2 DEF Counted, Served, Asking, Granting
  <2>3. CASE /\ pc[c] = "leave" /\ pc'[c] = "grant" /\ UNCHANGED <<asked, call, question>>
             /\ todo'[c] = ToGrant(c)
    <3>1. Counted(c)'
      BY <2>3 DEF Counted, Absolute, Asking
    <3>2. question[c] \in {"critical", "shell"} => FilePaths(call[c]) = {}
      BY <2>3 DEF Counted, Asking, FilePaths
    <3>3. question[c] = "tool" => FilePaths(call[c]) \subseteq ToSet(todo'[c])
      BY <1>1, <2>3, PathsOfCalls DEF ToGrant
    <3>4. question'[c] # "path" => \A x \in FilePaths(call'[c]) : x \in ToSet(todo'[c])
      BY <2>3, <3>2, <3>3
    <3>5. Due(c)' = todo'[c]
      BY <2>3 DEF Due
    <3>6. Served(c)'
      BY <2>3, <3>4, <3>5 DEF Served
    <3> QED BY <3>1, <3>6
  <2> QED BY <2>1, <2>2, <2>3
<1>9. CASE GrantInMemory(c)
  <2> DEFINE first == Head(todo[c])
  <2>1. /\ pc[c] = "grant" /\ pc'[c] = "save" /\ todo[c] # <<>>
        /\ grants' = [grants EXCEPT ![owner[c]] = @ \cup {Grant(first)}]
        /\ UNCHANGED <<setting, asked, call, question, todo, allowed>>
    BY <1>9 DEF GrantInMemory, pastVars
  <2>2. Counted(c)'
    BY <2>1 DEF Counted, Absolute, Asking
  <2>3. Mine(c)' = Mine(c) \cup {Grant(first)}
    BY <1>1, <2>1 DEF Mine, owner
  <2>4. ASSUME asked'[c] # 0, Absolute(call'[c]), question'[c] # "path",
               NEW x \in FilePaths(call'[c])
        PROVE  x \in ToSet(Due(c)') \/ Covered(c, x)'
    <3>1. x \in Paths /\ ~x.rel /\ (x \in ToSet(todo[c]) \/ Covered(c, x))
      BY <1>1, <2>1, <2>4, PathsOfCalls DEF Served, Due, Granting, Absolute
    <3>2. CASE Covered(c, x)
      BY <2>3, <3>2 DEF Covered, Under
    <3>3. CASE x = first
      <4>1. Under(x.names, Mine(c)')
        BY <2>3, <3>1, <3>3, GrantCovers DEF Under
      <4> QED BY <4>1 DEF Covered
    <3>4. CASE x \in ToSet(todo[c]) /\ x # first
      <4>1. x \in ToSet(Tail(todo[c]))
        BY <1>1, <2>1, <3>4, RestOf
      <4> QED BY <2>1, <4>1 DEF Due
    <3> QED BY <3>1, <3>2, <3>3, <3>4
  <2>5. Served(c)'
    BY <2>1, <2>4 DEF Served
  <2> QED BY <2>2, <2>5
<1>10. CASE SaveGrant(c)
  <2>1. /\ pc[c] = "save" /\ pc'[c] = "grant" /\ todo'[c] = Tail(todo[c])
        /\ UNCHANGED <<setting, asked, call, question, grants, allowed>>
    BY <1>10 DEF SaveGrant, pastVars
  <2>2. Counted(c)'
    BY <2>1 DEF Counted, Absolute, Asking
  <2>3. Due(c)' = Due(c) /\ Mine(c)' = Mine(c)
    BY <2>1 DEF Due, Mine, owner
  <2>4. Served(c)'
    BY <2>1, <2>3 DEF Served, Covered, Absolute, FilePaths, Granting
  <2> QED BY <2>2, <2>4
<1>11. CASE GrantsDone(c)
  <2>1. /\ pc[c] = "grant" /\ todo[c] = <<>>
        /\ UNCHANGED <<setting, asked, call, question, grants, allowed>>
        /\ pc'[c] = IF question[c] = "path" THEN "run" ELSE "path"
    BY <1>11 DEF GrantsDone, pastVars, accessVars
  <2>2. Counted(c)'
    BY <2>1 DEF Counted, Absolute, Asking
  <2>3. Mine(c)' = Mine(c) /\ ToSet(Due(c)) = {}
    BY <2>1 DEF Due, Mine, owner, ToSet
  <2>4. Served(c)'
    BY <2>1, <2>3 DEF Served, Covered, Absolute, FilePaths, Granting
  <2> QED BY <2>2, <2>4
<1> QED BY <1>2, <1>3, <1>4, <1>5, <1>6, <1>7, <1>8, <1>9, <1>10, <1>11 DEF CallStep

LEMMA AskedInit == Init => AskedInv
BY DEF Init, AskedInv, Counted, Served, Idle, Asking, Granting

\* A step that leaves the callers where they are, and takes no grants from a peer.
LEMMA AskedElsewhere ==
  ASSUME Types, AskedInv, UNCHANGED <<setting, pc, call, question, todo, asked, grants>>,
         allowed \subseteq allowed'
  PROVE  AskedInv'
<1>1. \A c \in Callers : Mine(c) \subseteq Mine(c)'
  BY DEF Mine, owner
<1>2. ASSUME NEW c \in Callers PROVE (Counted(c) /\ Served(c))'
  BY <1>1, AskedFrame DEF AskedInv
<1> QED BY <1>2 DEF AskedInv

\* Callers that have no question behind them: after a crash, or when /clear took what the
\* questions granted.
LEMMA AskedAnew ==
  ASSUME Types, NEW c \in Callers, Counted(c), pc'[c] = pc[c], call'[c] = call[c],
         question'[c] = question[c], asked'[c] = 0
  PROVE  (Counted(c) /\ Served(c))'
BY DEF Counted, Served, Absolute, Asking

LEMMA AskedNext == Types /\ AskedInv /\ [Next]_vars => AskedInv'
<1> SUFFICES ASSUME Types, AskedInv, [Next]_vars PROVE AskedInv'
  OBVIOUS
<1> USE DEF Types, TypeOK, callerVars, toolVars, accessVars, resetVars, pastVars
<1>1. ASSUME NEW c \in Callers, CallStep(c) PROVE AskedInv'
  <2>1. grants \in [Peers -> SUBSET Dirs] /\ UNCHANGED <<setting, allowed>>
    BY <1>1, CallFrame
  <2>2. \A p \in Peers : grants[p] \subseteq grants'[p]
    <3>1. CASE GrantInMemory(c)
      BY <3>1, OwnersAre DEF GrantInMemory
    <3>2. CASE UNCHANGED grants
      BY <3>2
    <3> QED BY <1>1, <3>1, <3>2, CallFrame
  <2>3. \A d \in Callers : Mine(d) \subseteq Mine(d)'
    BY <2>1, <2>2, OwnersAre DEF Mine, owner
  <2>4. ASSUME NEW d \in Callers \ {c} PROVE (Counted(d) /\ Served(d))'
    BY <1>1, <2>1, <2>3, CallFrame, AskedFrame DEF AskedInv
  <2>5. (Counted(c) /\ Served(c))'
    BY <1>1, AskedStep DEF AskedInv
  <2> QED BY <2>4, <2>5 DEF AskedInv
<1>2. ASSUME NEW c \in Callers, NextTurn(c) PROVE AskedInv'
  BY <1>2, AskedElsewhere DEF NextTurn
<1>3. ASSUME NEW c \in Callers, Stop(c) PROVE AskedInv'
  BY <1>3, AskedElsewhere DEF Stop
<1>4. ASSUME NEW c \in Callers, NEW k \in setting.made, Round(c, k) PROVE AskedInv'
  <2>1. /\ pc[c] = "idle" /\ pc' = [pc EXCEPT ![c] = "gate"]
        /\ asked' = [asked EXCEPT ![c] = 0] /\ call' = [call EXCEPT ![c] = k]
        /\ UNCHANGED <<setting, question, todo, grants, allowed>>
    BY <1>4 DEF Round, Goto
  <2>2. (Counted(c) /\ Served(c))'
    BY <2>1 DEF AskedInv, Counted, Served, Asking
  <2>3. ASSUME NEW d \in Callers \ {c} PROVE (Counted(d) /\ Served(d))'
    <3>1. Mine(d)' = Mine(d)
      BY <2>1 DEF Mine, owner
    <3> QED BY <2>1, <3>1, AskedFrame DEF AskedInv
  <2> QED BY <2>2, <2>3 DEF AskedInv
<1>5. ASSUME NEW p \in Peers, NEW t \in Answers, Text(p, t) PROVE AskedInv'
  BY <1>5, AskedElsewhere DEF Text
<1>6. ASSUME NEW p \in Peers, NEW dir \in NewDirs \cup {home[p]}, BeginReset(p, dir)
      PROVE  AskedInv'
  BY <1>6, AskedElsewhere DEF BeginReset
<1>7. ASSUME NEW p \in Peers, ResetQuestion(p) PROVE AskedInv'
  BY <1>7, AskedElsewhere DEF ResetQuestion
<1>8. ASSUME NEW p \in Peers, ResetMemory(p) PROVE AskedInv'
  <2>1. /\ asked' = [d \in Callers |-> IF owner[d] = p THEN 0 ELSE asked[d]]
        /\ grants' = [grants EXCEPT ![p] = {}]
        /\ UNCHANGED <<setting, pc, call, question, todo, allowed>>
    BY <1>8 DEF ResetMemory
  <2>2. ASSUME NEW d \in Callers, owner[d] = p PROVE (Counted(d) /\ Served(d))'
    BY <2>1, <2>2, AskedAnew DEF AskedInv
  <2>3. ASSUME NEW d \in Callers, owner[d] # p PROVE (Counted(d) /\ Served(d))'
    <3>1. Mine(d)' = Mine(d)
      BY <2>1, <2>3, OwnersAre DEF Mine, owner
    <3> QED BY <2>1, <2>3, <3>1, AskedFrame DEF AskedInv
  <2> QED BY <2>2, <2>3 DEF AskedInv
<1>9. ASSUME NEW p \in Peers, ResetStore(p) PROVE AskedInv'
  BY <1>9, AskedElsewhere DEF ResetStore
<1>10. ASSUME NEW p \in Peers, ResetDir(p) PROVE AskedInv'
  BY <1>10, AskedElsewhere DEF ResetDir
<1>11. CASE Crash
  <2>1. \A c \in Callers : pc'[c] = "idle" /\ question'[c] = "tool" /\ asked'[c] = 0
    BY <1>11 DEF Crash, Idle
  <2> QED BY <2>1 DEF AskedInv, Counted, Served, Asking
<1>12. CASE UNCHANGED vars
  BY <1>12, AskedElsewhere DEF vars
<1> QED
  BY <1>1, <1>2, <1>3, <1>4, <1>5, <1>6, <1>7, <1>8, <1>9, <1>10, <1>11, <1>12
  DEF Next, ResetStep, Rest

-----------------------------------------------------------------------------
(* What the invariants say together.                                        *)

\* An answer counts for the user who gave it: no directory is granted that its peer's user
\* did not allow a path in, no call asks twice about what it was allowed, and until the
\* first /clear of a peer a restart brings back just the grants it has in memory.
THEOREM AnswersCount == Spec => []GrantsAsAnswered
<1> DEFINE IInv == Types /\ HeardInv /\ AskedInv /\ RestartInv
<1>1. Init => IInv
  BY TypesInit, HeardInit, AskedInit, RestartInit
<1>2. IInv /\ [Next]_vars => IInv'
  BY TypesNext, HeardNext, AskedNext, RestartNext
<1>3. IInv => GrantsAsAnswered
  <2> SUFFICES ASSUME IInv PROVE GrantsAsAnswered
    OBVIOUS
  <2>1. GrantsComeFromOwner
    BY DEF HeardInv, Allowed, GrantsComeFromOwner
  <2>2. AskedOnce
    <3> SUFFICES ASSUME NEW c \in Callers, pc[c] # "idle", asked[c] > 1
                 PROVE  \E i \in DOMAIN call[c].paths : call[c].paths[i].rel
      BY DEF AskedOnce
    <3>1. asked[c] \in Nat
      BY DEF Types, TypeOK
    <3>2. ~Absolute(call[c])
      BY <3>1 DEF AskedInv, Counted
    <3> QED BY <3>2 DEF Absolute, ToSet
  <2>3. RestartKeepsGrants
    BY DEF RestartInv
  <2> QED BY <2>1, <2>2, <2>3 DEF GrantsAsAnswered
<1> HIDE DEF IInv
<1> QED BY <1>1, <1>2, <1>3, PTL DEF Spec

=============================================================================
