----------------------------- MODULE Transcript -----------------------------
(***************************************************************************)
(* What the program does to a conversation: the context a request is made   *)
(* of, compaction, pruning, and the copies between the session of a peer     *)
(* and the session of one turn.  Operators only.                             *)
(*                                                                          *)
(* A message is a record; its kind tells its role and whatever of its text   *)
(* the code looks at.  n is its identity: copies share it, and messages the  *)
(* machinery writes for itself have n = 0.  Indices start at 1 here, so an   *)
(* index of the code is one less, and the "> 0" of the code reads "> 1".     *)
(***************************************************************************)
EXTENDS Naturals, Sequences, FiniteSets, SequencesExt, FiniteSetsExt

CONSTANTS
  Keep,         \* KeepRecentTokens
  PruneProtect, \* PRUNE_PROTECT
  PruneMinimum, \* PRUNE_MINIMUM
  ToolCap       \* TOOL_OUTPUT_MAX_CHARS, in the same unit

ASSUME TranscriptAssumption ==
  Keep \in Nat /\ PruneProtect \in Nat /\ PruneMinimum \in Nat /\ ToolCap \in Nat

UserKinds      == {"prompt", "steer", "notice", "pin", "marker", "auto"}
AssistantKinds == {"text", "calls", "summary"}
ToolKinds      == {"result", "cleared", "recovered"}

IsUser(m)      == m.kind \in UserKinds
IsAssistant(m) == m.kind \in AssistantKinds
IsTool(m)      == m.kind \in ToolKinds
IsSummary(m)   == m.kind = "summary"

Msg(kind, n) ==
  [kind |-> kind, n |-> n, calls |-> <<>>, id |-> <<>>, size |-> 1,
   compacted |-> FALSE, tail |-> 0, covers |-> {}, usage |-> 0]

Result(call, n, size) == [Msg("result", n) EXCEPT !.id = call.id, !.size = size]

Tokens(ms) ==
  LET sum[i \in 0..Len(ms)] == IF i = 0 THEN 0 ELSE sum[i - 1] + ms[i].size
  IN sum[Len(ms)]

Latest(S) == IF S = {} THEN 0 ELSE Max(S)
LastSummary(h) == Latest({i \in DOMAIN h : IsSummary(h[i])})

\* A set of positive numbers in order, and the elements of h at these indices.
Ordered(S) ==
  LET upto[i \in 0..Latest(S)] ==
        IF i = 0 THEN <<>> ELSE IF i \in S THEN Append(upto[i - 1], i) ELSE upto[i - 1]
  IN upto[Latest(S)]
At(h, S) == LET w == Ordered(S) IN [k \in DOMAIN w |-> h[w[k]]]

-----------------------------------------------------------------------------
(* The request.                                                             *)

\* With a summary, the history is the last user message before it (the marker),
\* the summary, and the tail it points to.
FilterCompacted(h) ==
  LET s == LastSummary(h)
      u == Latest({i \in 1..s : IsUser(h[i])})
      tail == IF h[s].tail \in 2..Len(h) THEN h[s].tail ELSE u + 1
  IN IF s = 0 \/ u = 0 THEN h
     ELSE <<h[u], h[s]>> \o At(h, (tail..Len(h)) \ {u, s})

\* The pinned prompts follow the system message, or all else when there is none.
ContextMessages(h, pins) ==
  LET f == FilterCompacted(h)
      v == IF f # h /\ h[1].kind = "system" THEN <<h[1]>> \o f ELSE f
      k == IF v # <<>> /\ v[1].kind = "system" THEN 1 ELSE Len(v)
  IN SubSeq(v, 1, k)
     \o At(pins, {j \in DOMAIN pins : \A i \in DOMAIN v : v[i].n # pins[j].n})
     \o SubSeq(v, k + 1, Len(v))

NoRepair(ms) == ms  \* Mutant: an unanswered call stays so.

\* The calls of a message that none of the answers that are present belongs to,
\* and the message with an answer for each of them.
Missing(m, present) == At(m.calls, {k \in DOMAIN m.calls : m.calls[k].id \notin present})
Recovered(call) == [Msg("recovered", 0) EXCEPT !.id = call.id]
Mend(m, present) ==
  <<m>> \o [k \in DOMAIN Missing(m, present) |-> Recovered(Missing(m, present)[k])]

\* Every call of an assistant message that no tool message anywhere answers is
\* answered where it stands.
RepairToolCallPairing(ms) ==
  LET present == {ms[i].id : i \in {i \in DOMAIN ms : IsTool(ms[i])}}
  IN FlattenSeq([i \in DOMAIN ms |-> Mend(ms[i], present)])

\* What the model is sent: markers are dropped, and a tool result is cut short.
WithoutMarkers(ms) == At(ms, {i \in DOMAIN ms : ms[i].kind # "marker"})
CutShort(ms) ==
  [i \in DOMAIN ms |-> IF IsTool(ms[i]) /\ ms[i].size > ToolCap
                       THEN [ms[i] EXCEPT !.size = ToolCap] ELSE ms[i]]
Request(h, pins) == RepairToolCallPairing(CutShort(WithoutMarkers(ContextMessages(h, pins))))

-----------------------------------------------------------------------------
(* Compaction.                                                              *)

\* CompactionTokens of the last reported input tokens and the estimate.
LastUsage(h) ==
  LET u == Latest({i \in DOMAIN h : IsAssistant(h[i]) /\ ~IsSummary(h[i]) /\ h[i].usage > 0})
  IN IF u = 0 THEN 0 ELSE h[u].usage
CompactionTokens(h) == Max({LastUsage(h), Tokens(FilterCompacted(h))})

\* RecordAssistantUsage, RecordOverflowPromptTokens: on the last answer there is.
RecordUsage(h, tokens) ==
  LET a == Latest({i \in DOMAIN h : IsAssistant(h[i]) /\ ~IsSummary(h[i])})
  IN IF a = 0 \/ tokens = 0 THEN h ELSE [h EXCEPT ![a].usage = tokens]

\* The messages a summary may still take up: those after the last tail start
\* that are neither compacted nor the machinery's own.
WorkList(h) ==
  LET starts == {i \in DOMAIN h : IsSummary(h[i]) /\ h[i].tail \in 2..(i - 1)}
      start == IF starts = {} THEN 1 ELSE h[Max(starts)].tail
  IN Ordered({i \in start..Len(h) :
       ~h[i].compacted /\ h[i].kind \notin {"summary", "marker"}})

\* Where, in the work list w, the recent messages that must stay begin: the first
\* user or assistant message from the place where they reach Keep.  0: nowhere.
FindCutPoint(h, w) ==
  LET cuts == {j \in DOMAIN w : IsUser(h[w[j]]) \/ IsAssistant(h[w[j]])}
      full == {j \in DOMAIN w : Tokens([k \in 1..(Len(w) - j + 1) |-> h[w[j + k - 1]]]) >= Keep}
      later == {c \in cuts : c >= Latest(full)}
      first == Min(IF later = {} THEN cuts ELSE later)
  IN IF cuts = {} \/ full = {} \/ first = 1 THEN 0 ELSE first

CompactionForgets(h) == \* Mutant: the last summary is not given to the compactor.
  LET w == WorkList(h)
      cut == FindCutPoint(h, w)
  IN IF cut = 0 THEN [first |-> 0, covers |-> {}]
     ELSE [first |-> w[cut], covers |-> {h[w[j]].n : j \in 1..(cut - 1)} \ {0}]

\* What a compaction makes of h: where the tail starts, and what the summary
\* tells of.  It is written from the messages before the cut and from the last
\* summary.  first = 0: "nothing to compact".
Compaction(h) ==
  LET w == WorkList(h)
      cut == FindCutPoint(h, w)
      s == LastSummary(h)
      head == {h[w[j]].n : j \in 1..(cut - 1)} \ {0}
  IN IF cut = 0 THEN [first |-> 0, covers |-> {}]
     ELSE [first |-> w[cut], covers |-> head \cup (IF s = 0 THEN {} ELSE h[s].covers)]

\* The head is marked, and the marker and the summary go to the end.
MarkCompaction(h, c) ==
  [i \in DOMAIN h |->
     IF i < c.first /\ h[i].kind # "system" THEN [h[i] EXCEPT !.compacted = TRUE] ELSE h[i]]
  \o <<Msg("marker", 0),
       [Msg("summary", 0) EXCEPT !.tail = c.first, !.covers = c.covers]>>

-----------------------------------------------------------------------------
(* Pruning.                                                                 *)

\* The tool results that pruning clears: older than the last two user messages,
\* newer than the last summary and the last result cleared or compacted, once
\* the results after them exceed PruneProtect.
Prunable(h) ==
  LET old == {i \in DOMAIN h : Cardinality({j \in i..Len(h) : IsUser(h[j])}) >= 2}
      stop == Latest({i \in old : IsSummary(h[i]) \/ (IsTool(h[i]) /\ h[i].compacted)})
      tools == {i \in old : i > stop /\ IsTool(h[i])}
      chosen == {i \in tools : Tokens(At(h, {j \in tools : j >= i})) > PruneProtect}
  IN IF Tokens(At(h, chosen)) > PruneMinimum THEN chosen ELSE {}

MarkCleared(h, S) ==
  [i \in DOMAIN h |->
     IF i \in S THEN [h[i] EXCEPT !.kind = "cleared", !.size = 1, !.compacted = TRUE] ELSE h[i]]

-----------------------------------------------------------------------------
(* Copies between the session of the peer and the session of one turn.      *)

\* The session of a turn, made from the history of the peer: each summary is
\* marked anew, markers come with it, and results lose their Compacted.
Copy(made, m) ==
  IF m.kind \in {"system", "marker"} THEN made
  ELSE IF IsSummary(m) THEN MarkCompaction(made, [first |-> m.tail, covers |-> m.covers])
  ELSE Append(made, [m EXCEPT !.compacted = FALSE])

Seed(h) ==
  LET copied[i \in 0..Len(h)] ==
        IF i = 0 THEN <<Msg("system", 0)>> ELSE Copy(copied[i - 1], h[i])
  IN copied[Len(h)]

\* turnMirror leaves out what the inner loop writes for itself, and copies neither
\* Compacted nor the usage.
Mirrored(m) == m.kind \notin {"marker", "auto", "summary"}
Mirror(m) == [m EXCEPT !.compacted = FALSE, !.usage = 0]

=============================================================================
