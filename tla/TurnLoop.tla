------------------------------ MODULE TurnLoop ------------------------------
(***************************************************************************)
(* One peer's conversation across turns: ProcessPrompt of the agent loop     *)
(* with its synchronous and speculative compaction (pkg/agentloop), and the  *)
(* tool loop that each turn runs in a session of its own (pkg/agent/loop.go),*)
(* mirrored back into the session of the peer, the one that is saved.        *)
(*                                                                          *)
(* The turns of a peer come one after another here: how they exclude each    *)
(* other is the subject of PeerTurn.  What runs beside a turn is the          *)
(* goroutine of a speculative compaction, the user who steers or cancels,    *)
(* and the process, which may crash between any two saves.                   *)
(***************************************************************************)
EXTENDS Transcript

CONSTANTS
  Sigs,        \* signatures (name and arguments) of the calls the model makes
  Sizes,       \* sizes of tool results
  Pins,        \* the pinned prompts of the peer, a sequence of messages
  Usages,      \* prompt tokens a stream may report
  Batches,     \* batches of calls the model may send: sequences over Sigs
  Embedded,    \* the model writes its calls into its text
  Reviews,     \* signatures that ask for a review subagent
  Threshold,   \* ThresholdTokens
  SpecAt,      \* the threshold times SpeculativeCompactRatio
  Window,      \* what a request may take of MaxTokens
  MaxMalformed, MaxContinuations, \* maxMalformedCallRetries, maxLengthContinuations
  Settings     \* what a run of the program starts with: MaxToolCallDepth, and bounds
               \* on turns, on steers, and on all steers, flawed answers, cancellations
               \* and crashes together

ASSUME BoundsAssumption ==
  /\ Threshold \in Nat /\ SpecAt \in 0..Threshold /\ Window \in Nat
  /\ MaxMalformed \in Nat /\ MaxContinuations \in Nat
  /\ Settings \subseteq [limit : Nat \ {0}, turns : Nat, steers : Nat, events : Nat]
ASSUME BatchesAssumption ==
  /\ Batches \subseteq Seq(Sigs) \ {<<>>} /\ Embedded \in BOOLEAN /\ Reviews \subseteq Sigs
  /\ Sizes \subseteq Nat /\ Usages \subseteq Nat

VARIABLES
  setting,  \* one of Settings
  \* the session of the peer
  peer,     \* its history, saved whenever it changes
  inbox,    \* PeerInput: texts that wait, by their n
  promoted, \* PeerInput: texts a turn was given
  spec,     \* its entry in the map of speculative compactions
  \* the turn
  pc,       \* where it stands
  prompt,   \* n of its prompt
  inner,    \* the history of the turn's own session
  cursor,   \* of turnMirror: how much of it is mirrored or seeded
  mirrored, \* of turnMirror: n of the user messages it has copied
  pending,  \* steered texts not yet appended
  more,     \* hasMore
  tc,       \* turnContext: iterations, lengthContinuations, malformedRetries, executed
  loop,     \* responseLoopState: the last response, and whether it was alerted
  batch,    \* calls of the current batch that are still to run
  results,  \* results of those that have run
  cancelled,\* its context
  \* history
  serial,   \* the last n given to what a turn says; prompts and steers come first
  turns, steers, events,
  ran,      \* how often the turn has run each signature
  forgotten \* n of everything said before the last reset

peerVars == <<peer, inbox, promoted, spec>>
turnVars == <<prompt, inner, cursor, mirrored, pending, more, tc, loop, batch, results,
              cancelled, ran>>
pastVars == <<serial, turns, steers, events, forgotten>>
vars == <<setting, peerVars, turnVars, pc, pastVars>>

Limit == setting.limit
MaxTurns == setting.turns
MaxSteers == setting.steers
MaxEvents == setting.events

NoSpec == [state |-> "none", count |-> 0, first |-> 0, covers |-> {}]
NewContext == [iterations |-> 0, continuations |-> 0, malformed |-> 0, executed |-> {}]
NoLoop == [last |-> <<>>, alerted |-> FALSE]

Init ==
  /\ peer = <<Msg("system", 0)>>
  /\ inbox = {} /\ promoted = {} /\ spec = NoSpec
  /\ pc = "idle" /\ prompt = 0 /\ inner = <<>> /\ cursor = 0 /\ mirrored = {}
  /\ pending = {} /\ more = FALSE /\ tc = NewContext /\ loop = NoLoop
  /\ batch = <<>> /\ results = <<>> /\ cancelled = FALSE
  /\ ran = [s \in Sigs |-> 0]
  /\ turns = 0 /\ steers = 0 /\ events = 0
  /\ setting \in Settings /\ serial = MaxTurns + MaxSteers /\ forgotten = {}

\* What a turn holds goes with it.
Discard ==
  /\ pc' = "idle" /\ prompt' = 0 /\ inner' = <<>> /\ cursor' = 0 /\ mirrored' = {}
  /\ pending' = {} /\ more' = FALSE /\ tc' = NewContext /\ loop' = NoLoop
  /\ batch' = <<>> /\ results' = <<>> /\ cancelled' = FALSE
  /\ ran' = [s \in Sigs |-> 0]

KeepPeer == UNCHANGED <<peer, spec>>
KeepMail == UNCHANGED <<inbox, promoted>>
KeepTools == UNCHANGED <<batch, results, ran>>
KeepMirror == UNCHANGED <<prompt, cursor, mirrored>>
KeepRound == UNCHANGED <<more, tc, loop>>
KeepPast == UNCHANGED <<turns, steers, events, forgotten>>
Event == events < MaxEvents /\ events' = events + 1

-----------------------------------------------------------------------------
(* ProcessPrompt, up to the turn.                                            *)

\* The prompt is saved before anything is compacted.
AddPrompt ==
  /\ pc = "idle" /\ turns < MaxTurns
  /\ turns' = turns + 1 /\ prompt' = turns'
  /\ peer' = Append(peer, Msg("prompt", turns'))
  /\ pc' = "compress"
  /\ UNCHANGED <<inbox, promoted, spec, inner, cursor, mirrored, pending, more, tc, loop,
                 batch, results, cancelled, serial, steers, events, ran, forgotten>>

\* tryApplySpeculativeCompact takes the result of a finished compaction unless
\* the history has grown by more than two messages since its snapshot.
Fresh == Len(peer) <= spec.count + 2
ApplySpeculative ==
  /\ spec.state = "ready" /\ Fresh
  /\ peer' = Append(MarkCompaction(peer, spec), Msg("auto", 0))

\* The compactor is asked for a summary; it may fail, and does so with a
\* cancelled context.
SyncCompact ==
  /\ spec.state = "ready" => ~Fresh
  /\ LET c == Compaction(peer) IN
     peer' \in {peer} \cup
       (IF c.first = 0 \/ cancelled THEN {} ELSE {Append(MarkCompaction(peer, c), Msg("auto", 0))})

\* checkAndCompressOpenCode.  The entry of a ready compaction is deleted,
\* whether it was applied or came too late.
CheckAndCompress ==
  /\ pc = "compress" /\ pc' = "spec"
  /\ IF CompactionTokens(peer) > Threshold
     THEN /\ ApplySpeculative \/ SyncCompact
          /\ spec' = IF spec.state = "ready" THEN NoSpec ELSE spec
     ELSE UNCHANGED <<peer, spec>>
  /\ UNCHANGED <<inbox, promoted, turnVars, pastVars>>

\* maybeStartSpeculativeCompact.  A task that is not ready keeps another from
\* starting, one that has failed too.
MaybeStartSpeculative ==
  /\ pc = "spec" /\ pc' = "seed"
  /\ LET c == Compaction(peer) IN
     spec' = IF CompactionTokens(peer) >= SpecAt /\ spec.state \in {"none", "ready"}
             THEN [state |-> "running", count |-> Len(peer), first |-> c.first,
                   covers |-> c.covers]
             ELSE spec
  /\ UNCHANGED <<peer, inbox, promoted, turnVars, pastVars>>

\* runSpeculativeCompact ends: with a summary of the snapshot, or with an error.
SpeculativeEnds ==
  /\ spec.state = "running"
  /\ \E s \in {"failed"} \cup (IF spec.first = 0 THEN {} ELSE {"ready"}) :
       spec' = [spec EXCEPT !.state = s]
  /\ UNCHANGED <<peer, inbox, promoted, turnVars, pc, pastVars>>

\* drainSteering.
Drain == inbox' = {} /\ pending' = inbox /\ promoted' = promoted \cup inbox

\* sendToLLM and ProcessMessage: a session is seeded, and gets the prompt once
\* more unless that is already its last message as it stands, without the loop
\* alert that an answer much like the one before it leaves behind.
SeedTurn ==
  /\ pc = "seed"
  /\ LET seeded == Seed(peer)
         last == seeded[Len(seeded)]
         answers == {i \in DOMAIN seeded : seeded[i].kind = "text"} IN
     /\ cursor' = Len(seeded)
     /\ \E alert \in IF Cardinality(answers) > 1 THEN BOOLEAN ELSE {FALSE} :
          inner' = IF cancelled \/ (last.n = prompt /\ ~alert) THEN seeded
                   ELSE Append(seeded, Msg("prompt", prompt))
  /\ \/ cancelled /\ pc' = "stopped" /\ more' = FALSE /\ UNCHANGED <<inbox, promoted, pending>>
     \/ ~cancelled /\ pc' = "loop" /\ more' = TRUE /\ Drain
  /\ UNCHANGED <<prompt, mirrored, tc, loop, cancelled, pastVars>>
  /\ KeepPeer /\ KeepTools

-----------------------------------------------------------------------------
(* The loop: before the request.                                             *)

\* The n-th message from here on.
New(kind, k) == Msg(kind, serial + k)

\* The inner loop is over: what has been steered meanwhile starts it again.
LeaveLoop ==
  /\ pc = "loop" /\ ~more /\ pending = {}
  /\ Drain /\ more' = (inbox # {})
  /\ pc' = IF inbox = {} THEN "done" ELSE "loop"
  /\ UNCHANGED <<inner, tc, loop, cancelled, pastVars>>
  /\ KeepPeer /\ KeepTools /\ KeepMirror

StopCancelled ==
  /\ pc = "loop" /\ (more \/ pending # {}) /\ cancelled
  /\ pc' = "stopped"
  /\ UNCHANGED <<peerVars, turnVars, pastVars>>

LimitReached == tc.iterations >= Limit

\* finishAtIterationLimit: what is pending is not appended any more.
IterationLimit ==
  /\ pc = "loop" /\ (more \/ pending # {}) /\ ~cancelled /\ LimitReached
  /\ inner' = Append(inner, New("text", 1)) /\ serial' = serial + 1
  /\ pc' = "done"
  /\ UNCHANGED <<pending, cancelled>>
  /\ KeepPeer /\ KeepMail /\ KeepTools /\ KeepMirror /\ KeepRound /\ KeepPast

CountNewOnly == \* Mutant: a round for a correction is free.
  IF tc.malformed > 0 THEN tc.iterations ELSE tc.iterations + 1
Count == tc.iterations + 1

BeginRound ==
  /\ pc = "loop" /\ (more \/ pending # {}) /\ ~cancelled /\ ~LimitReached
  /\ tc' = [tc EXCEPT !.iterations = Count]
  /\ inner' = inner \o [k \in DOMAIN Ordered(pending) |-> Msg("steer", Ordered(pending)[k])]
  /\ pending' = {} /\ pc' = "prepare"
  /\ UNCHANGED <<more, loop, cancelled, pastVars>>
  /\ KeepPeer /\ KeepMail /\ KeepTools /\ KeepMirror

\* shouldAddAutoContinue: the last one has been answered.
ShouldAddAutoContinue(h) ==
  LET a == Latest({i \in DOMAIN h : h[i].kind = "auto"})
  IN a = 0 \/ \E i \in a..Len(h) : IsAssistant(h[i]) /\ ~IsSummary(h[i])

\* forceCompact leaves the transcript intact when there is nothing to compact or
\* the compactor fails; after a compaction the model may be told to go on.
ForceCompact(h, continue) ==
  LET c == Compaction(h)
      compacted == MarkCompaction(h, c)
  IN {h} \cup
     IF c.first = 0 \/ cancelled THEN {}
     ELSE {IF continue /\ ShouldAddAutoContinue(compacted)
           THEN Append(compacted, Msg("auto", 0)) ELSE compacted}

Pruned(h) == MarkCleared(h, Prunable(h))
TurnRequest(h) == Request(h, <<>>)
Fits(h) == Tokens(TurnRequest(h)) <= Window

\* prepareContext.
CompactIfNeeded ==
  /\ pc = "prepare" /\ pc' = "fit"
  /\ inner' \in IF CompactionTokens(inner) > Threshold THEN ForceCompact(inner, TRUE) ELSE {inner}
  /\ UNCHANGED <<pending, cancelled, serial>>
  /\ KeepPeer /\ KeepMail /\ KeepTools /\ KeepMirror /\ KeepRound /\ KeepPast

\* ensureContextFits: compaction first, then pruning.
EnsureContextFits ==
  /\ pc = "fit" /\ pc' = "stream"
  /\ \E h \in IF Fits(inner) THEN {inner} ELSE ForceCompact(inner, FALSE) :
       inner' = IF Fits(h) THEN h ELSE Pruned(h)
  /\ UNCHANGED <<pending, cancelled, serial>>
  /\ KeepPeer /\ KeepMail /\ KeepTools /\ KeepMirror /\ KeepRound /\ KeepPast

\* recoverFromOverflow: the server has rejected the request.  It is sent again
\* only when compaction and pruning have made it smaller.
RecoverFromOverflow ==
  /\ pc = "stream" /\ ~cancelled
  /\ \E h \in ForceCompact(RecordUsage(inner, Tokens(TurnRequest(inner))), TRUE) :
       inner' = IF Fits(h) THEN h ELSE Pruned(h)
  /\ pc' = IF Tokens(TurnRequest(inner')) < Tokens(TurnRequest(inner)) THEN "retry" ELSE "failed"
  /\ UNCHANGED <<pending, cancelled, serial>>
  /\ KeepPeer /\ KeepMail /\ KeepTools /\ KeepMirror /\ KeepRound /\ KeepPast

StreamFails ==
  /\ pc \in {"stream", "retry"}
  /\ pc' = IF cancelled THEN "stopped" ELSE "failed"
  /\ UNCHANGED <<peerVars, turnVars, pastVars>>

-----------------------------------------------------------------------------
(* The loop: after the answer.                                              *)

Streaming == pc \in {"stream", "retry"} /\ ~cancelled

\* RecordAssistantUsage and checkResponseLoop.  From the second round on, an
\* answer that repeats the one before is followed by one correction.  A response
\* is told by its calls; whether equal calls came with equal text is left open.
Observe(response, usage, repeated) ==
  LET repeats == repeated /\ response = loop.last /\ tc.iterations > 1
      used == RecordUsage(inner, usage)
  IN [history |-> IF repeats /\ ~loop.alerted THEN Append(used, New("notice", 1)) ELSE used,
      loop |-> IF tc.iterations = 1 \/ response = <<>> THEN loop
               ELSE [last |-> response, alerted |-> repeats]]

\* An answer of this kind has arrived, the loop has noted it and adds to the history.
Answer(response, added) ==
  /\ Streaming
  /\ \E usage \in Usages, repeated \in BOOLEAN :
       LET o == Observe(response, usage, repeated)
       IN loop' = o.loop /\ inner' = o.history \o added
  /\ serial' = serial + 10
  /\ UNCHANGED <<cancelled, ran>>
  /\ UNCHANGED <<turns, steers, forgotten>>
  /\ KeepPeer /\ KeepMirror

\* A final answer, or none after maxEmptyRetries: then nothing is appended.
AnswerText ==
  \E text \in {<<New("text", 2)>>, <<>>} :
    /\ Answer(IF text = <<>> THEN <<>> ELSE <<"text">>, text)
    /\ more' = FALSE /\ pc' = "loop" /\ Drain
    /\ UNCHANGED <<tc, batch, results, events>>

\* The answer was cut off by the output limit.
AnswerCutOff ==
  /\ tc.continuations < MaxContinuations /\ Event
  /\ Answer(<<"text">>, <<New("text", 2), New("notice", 3)>>)
  /\ tc' = [tc EXCEPT !.continuations = @ + 1]
  /\ more' = TRUE /\ pc' = "loop" /\ Drain
  /\ UNCHANGED <<batch, results>>

\* A call that cannot be parsed, or a malformed one: the model is told, and the
\* next round begins without a drain.  Past the limit it is an answer like any.
AnswerBroken ==
  /\ tc.malformed < MaxMalformed /\ Event
  /\ Answer(<<"broken">>, <<New("notice", 2)>>)
  /\ tc' = [tc EXCEPT !.malformed = @ + 1]
  /\ more' = TRUE /\ pc' = "loop"
  /\ UNCHANGED <<pending, batch, results>> /\ KeepMail

\* partitionToolCalls: the calls of b that this turn has not made, each once.
Unique(b) ==
  At(b, {i \in DOMAIN b : /\ b[i].sig \notin tc.executed
                          /\ \A j \in DOMAIN b : b[j].sig = b[i].sig => j >= i})

\* executeAndAppendBatch up to the execution: calls found in the text are
\* numbered anew in each batch.
AnswerCalls(sigs) ==
  LET b == [k \in DOMAIN sigs |->
              [sig |-> sigs[k], k |-> k, id |-> <<IF Embedded THEN 0 ELSE serial + 2, k>>]]
      message == [New("calls", 2) EXCEPT !.calls = b]
      repeated == At(b, {i \in DOMAIN b : b[i] \notin Range(Unique(b))})
      notices == [k \in DOMAIN repeated |-> Result(repeated[k], serial + 2 + k, 1)]
  IN /\ Answer(sigs, <<message>> \o notices)
     /\ tc' = [tc EXCEPT !.executed = @ \cup Range(sigs)]
     /\ batch' = Unique(b) /\ results' = <<>> /\ more' = TRUE /\ UNCHANGED events
     /\ IF Unique(b) = <<>> THEN pc' = "loop" /\ Drain
        ELSE pc' = "batch" /\ UNCHANGED pending /\ KeepMail

\* ExecuteAll: a call runs, or is refused before it does; the verdict of a review
\* subagent skips the rest.  Nothing here looks at the context.
RunCall ==
  /\ pc = "batch" /\ batch # <<>>
  /\ \E size \in Sizes, runs \in BOOLEAN :
       LET c == Head(batch)
           skip == runs /\ c.sig \in Reviews
           skipped == [k \in 1..Len(Tail(batch)) |->
                         Result(Tail(batch)[k], serial + 1 + k, 1)]
       IN /\ runs \/ size = 1
          /\ ran' = IF runs THEN [ran EXCEPT ![c.sig] = @ + 1] ELSE ran
          /\ results' = Append(results, Result(c, serial + 1, size))
                          \o (IF skip THEN skipped ELSE <<>>)
          /\ batch' = IF skip THEN <<>> ELSE Tail(batch)
  /\ serial' = serial + 10
  /\ UNCHANGED <<inner, pending, cancelled, pc>>
  /\ KeepPeer /\ KeepMail /\ KeepMirror /\ KeepRound /\ KeepPast

\* The results are appended once all calls are done, and the checkpoint fires.
AppendResults ==
  /\ pc = "batch" /\ batch = <<>>
  /\ inner' = inner \o results /\ results' = <<>> /\ pc' = "checkpoint"
  /\ UNCHANGED <<pending, batch, ran, cancelled, pastVars>>
  /\ KeepPeer /\ KeepMail /\ KeepMirror /\ KeepRound

-----------------------------------------------------------------------------
(* The mirror, and the end of the turn.                                     *)

Mirroring == pc \in {"checkpoint", "done", "failed", "stopped"}

\* turnMirror.sync copies what is new, one message and one save at a time.
MirrorMessage ==
  /\ Mirroring /\ cursor < Len(inner)
  /\ cursor' = cursor + 1
  /\ LET m == inner[cursor + 1] IN
     /\ peer' = IF Mirrored(m) THEN Append(peer, Mirror(m)) ELSE peer
     /\ mirrored' = IF Mirrored(m) /\ IsUser(m) THEN mirrored \cup {m.n} ELSE mirrored
  /\ UNCHANGED <<spec, prompt, inner, pending, cancelled, pc, pastVars>>
  /\ KeepMail /\ KeepTools /\ KeepRound

\* The round ends with a drain.
EndRound ==
  /\ pc = "checkpoint" /\ cursor = Len(inner)
  /\ Drain /\ pc' = "loop"
  /\ UNCHANGED <<inner, cancelled, pastVars>>
  /\ KeepPeer /\ KeepTools /\ KeepMirror /\ KeepRound

UnrecordedButPending == \* Mutant: what is pending is believed to be appended.
  Ordered(promoted \ (mirrored \cup pending))
Unrecorded == Ordered(promoted \ mirrored)

\* sendToLLM returns: a cancelled turn at once; any other first records what was
\* promoted and not mirrored.  After a success ProcessPrompt prunes.
EndTurn ==
  /\ pc \in {"done", "failed", "stopped"} /\ cursor = Len(inner)
  /\ LET recorded == peer \o [k \in DOMAIN Unrecorded |-> Msg("steer", Unrecorded[k])]
     IN IF pc = "stopped" THEN UNCHANGED <<peer, promoted>>
        ELSE /\ promoted' = {}
             /\ peer' = IF pc = "done" THEN MarkCleared(recorded, Prunable(recorded)) ELSE recorded
  /\ Discard
  /\ UNCHANGED <<inbox, spec, pastVars>>

-----------------------------------------------------------------------------
(* The environment.                                                         *)

Steer ==
  /\ pc # "idle" /\ steers < MaxSteers /\ Event
  /\ steers' = steers + 1 /\ inbox' = inbox \cup {MaxTurns + steers'}
  /\ UNCHANGED <<peer, promoted, spec, turnVars, pc, serial, turns, forgotten>>

Cancel ==
  /\ pc # "idle" /\ ~cancelled /\ cancelled' = TRUE /\ Event
  /\ UNCHANGED <<peerVars, prompt, inner, cursor, mirrored, pending, more, tc, loop, batch,
                 results, ran, pc, serial, turns, steers, forgotten>>

\* The session of the peer is what a restart finds.
Crash ==
  /\ Event
  /\ inbox' = {} /\ promoted' = {} /\ spec' = NoSpec /\ Discard
  /\ UNCHANGED <<peer, serial, turns, steers, forgotten>>

\* ResetSession of a peer that runs no turn.
ResetSession ==
  /\ pc = "idle" /\ peer # <<Msg("system", 0)>>
  /\ spec' = NoSpec /\ peer' = <<Msg("system", 0)>> /\ inbox' = {} /\ promoted' = {}
  /\ forgotten' = (1..turns) \cup ((MaxTurns + 1)..(MaxTurns + steers))
                  \cup ((MaxTurns + MaxSteers + 1)..serial)
  /\ UNCHANGED <<turnVars, pc, serial, turns, steers, events>>

-----------------------------------------------------------------------------
Answers ==
  \/ AnswerText \/ AnswerCutOff \/ AnswerBroken \/ \E b \in Batches : AnswerCalls(b)

TurnStep ==
  \/ CheckAndCompress \/ MaybeStartSpeculative \/ SeedTurn
  \/ LeaveLoop \/ StopCancelled \/ IterationLimit \/ BeginRound
  \/ CompactIfNeeded \/ EnsureContextFits \/ RecoverFromOverflow \/ StreamFails
  \/ Answers \/ RunCall \/ AppendResults \/ MirrorMessage \/ EndRound \/ EndTurn

\* The bounds are used up.
Rest == pc = "idle" /\ turns = MaxTurns /\ UNCHANGED vars

Next ==
  /\ UNCHANGED setting
  /\ \/ AddPrompt \/ TurnStep \/ SpeculativeEnds
     \/ Steer \/ Cancel \/ Crash \/ ResetSession \/ Rest

Spec == Init /\ [][Next]_vars

-----------------------------------------------------------------------------
(* Properties.                                                              *)

Asking == pc \in {"stream", "retry"}

TypeOK ==
  /\ pc \in {"idle", "compress", "spec", "seed", "loop", "prepare", "fit", "stream", "retry",
             "batch", "checkpoint", "done", "failed", "stopped"}
  /\ \A h \in {peer, inner} : \A i \in DOMAIN h :
       h[i].kind \in UserKinds \cup AssistantKinds \cup {"result", "cleared", "system"}
  /\ spec.state \in {"none", "running", "ready", "failed"}
  /\ cursor \in 0..Len(inner)
  /\ tc.iterations \in 0..Limit /\ tc.executed \subseteq Sigs
  /\ mirrored \cup pending \cup promoted \cup inbox \cup forgotten \subseteq 1..serial

\* Each call in a request is answered by the messages that follow it at once, and
\* each tool message answers a call before it:
\* what servers insist on, whatever compaction, pruning or a crash in the middle
\* of a checkpoint has left of the history.
RequestPaired ==
  Asking =>
    LET r == TurnRequest(inner) IN
    \A i \in DOMAIN r :
    /\ LET n == Len(r[i].calls) IN
      n > 0 => /\ i + n <= Len(r)
               /\ \A j \in (i + 1)..(i + n) : IsTool(r[j])
               /\ {r[j].id : j \in (i + 1)..(i + n)} = {r[i].calls[k].id : k \in 1..n}
    /\ IsTool(r[i]) => \E j \in 1..(i - 1) : r[i].id \in {c.id : c \in Range(r[j].calls)}

Told(ms) == UNION {{ms[i].n} \cup ms[i].covers : i \in DOMAIN ms}
Cleared(ms) == {ms[i].n : i \in {i \in DOMAIN ms : ms[i].kind = "cleared"}}

\* The model is told of everything in the history, in words or by the summary,
\* except for the tool results that were cleared: no sequence of compactions,
\* speculative or not, and copies loses a message between two summaries.
RequestTellsAll ==
  Asking => \A m \in Range(peer) \cup Range(inner) :
    m.n \in Told(TurnRequest(inner)) \cup Cleared(peer) \cup Cleared(inner) \cup {0}

\* A turn starts from what the session of the peer would put into a request: the
\* copy keeps the tail of the last summary in place, and the pinned prompts.
Gist(ms) == [i \in DOMAIN ms |-> <<ms[i].kind, ms[i].n, ms[i].covers>>]
TurnSeesPeer ==
  pc = "loop" /\ tc.iterations = 0 =>
    Gist(TurnRequest(SubSeq(inner, 1, cursor))) = Gist(Request(peer, Pins))

\* The pinned prompts of the session are part of every request.  Not so in the code:
\* seedAgentSession copies the history of the peer, not what is pinned to it.
PinnedPromptsAsked ==
  Asking => \A p \in Range(Pins) : \E i \in DOMAIN TurnRequest(inner) :
              TurnRequest(inner)[i].n = p.n

\* A turn that ends without a crash has left all that was said in it, and, unless
\* it was cancelled, all it was steered with, in the history of the peer.
TurnIsRecorded ==
  [][EndTurn =>
       LET told == {peer'[i].n : i \in DOMAIN peer'} IN
       /\ \A i \in DOMAIN inner : Mirrored(inner[i]) => inner[i].n \in told
       /\ pc = "stopped" \/ promoted \subseteq told]_vars

\* No turn runs a call twice.
RunOnce == \A s \in Sigs : ran[s] <= 1

\* After a reset nothing said before it is in the history or in a summary.
ResetForgets ==
  \A i \in DOMAIN peer : (peer[i].covers \cup {peer[i].n}) \cap forgotten = {}

\* Whatever compaction, pruning, mirroring and a crash in the middle of them leave, each
\* call in a request stands with its results, and no turn runs one twice.
CallsAreSettled == RequestPaired /\ RunOnce

\* What a request tells is the history, the whole of it and nothing else: no sequence of
\* compactions, copies and resets loses a message or brings a forgotten one back.
HistoryIsTold == RequestTellsAll /\ TurnSeesPeer /\ ResetForgets

\* Every step takes a turn nearer to its end, the rounds that correct a broken
\* answer, continue one that was cut off or take up a steered text included: there
\* is no loop in it that the limit of rounds does not bound.
Phases == <<"idle", "stopped", "failed", "done", "loop", "checkpoint", "batch", "retry",
            "stream", "fit", "prepare", "seed", "spec", "compress">>
Distance ==
  << Limit - tc.iterations, CHOOSE k \in DOMAIN Phases : Phases[k] = pc,
     IF more THEN 0 ELSE 1, Len(batch), Len(inner) - cursor >>
TurnAdvances ==
  [][TurnStep => \E k \in DOMAIN Distance :
       /\ Distance'[k] < Distance[k] \/ pc' = "idle"
       /\ \A j \in 1..(k - 1) : Distance'[j] = Distance[j] \/ pc' = "idle"]_vars

=============================================================================
