------------------------------- MODULE Stream -------------------------------
(***************************************************************************)
(* How the answer of the inference server is put together from the lines   *)
(* of its event stream, and what becomes of an answer that was cut         *)
(* (pkg/agent/streaming.go, streaming_utils.go, streaming_retry.go,        *)
(* tool_call.go).                                                          *)
(*                                                                         *)
(* Texts and the arguments of a call are sequences of fragments.  The      *)
(* arguments of a call are a JSON object when they start with "{" and end  *)
(* with the "}" that closes it.                                            *)
(***************************************************************************)
EXTENDS Integers, Sequences, SequencesExt, FiniteSets

\* One fragment of a call: it names its call by index; the rest may be missing.
Call(index, name, arguments) == [index |-> index, name |-> name, arguments |-> arguments]

Delta(content, reasoning, calls, finish, tokens) ==
  [kind |-> "delta", content |-> content, reasoning |-> reasoning, calls |-> calls,
   finish |-> finish, tokens |-> tokens]

\* A line without an answer in it: blank, a comment, "[DONE]" with or without
\* "data: ", data that is no JSON, the usage at the end, or an error.
Line(kind) == [Delta(<<>>, <<>>, <<>>, "", 0) EXCEPT !.kind = kind]

-----------------------------------------------------------------------------
(* Calls.                                                                   *)

MergeToolCallDelta(existing, tc) ==
  [existing EXCEPT !.name = IF tc.name = "" THEN @ ELSE tc.name,
                   !.arguments = @ \o tc.arguments]

MergeToolCalls(existing, delta) ==
  LET Merge(calls, tc) ==
        LET same == {i \in DOMAIN calls : calls[i].index = tc.index} IN
        IF same = {} THEN Append(calls, tc)
        ELSE [calls EXCEPT ![Min(same)] = MergeToolCallDelta(@, tc)]
  IN  FoldLeft(Merge, existing, delta)

Parses(arguments) == Head(arguments) = "{" /\ Last(arguments) = "}"

\* Calls that are asked for again; one without any argument is not.
Unparseable(calls) == {i \in DOMAIN calls :
                         calls[i].arguments # <<>> /\ ~Parses(calls[i].arguments)}

-----------------------------------------------------------------------------
(* Events.                                                                  *)

Event(line, error, done) ==
  [content |-> line.content, reasoning |-> line.reasoning, calls |-> line.calls,
   finish |-> line.finish, tokens |-> line.tokens, error |-> error, done |-> done]

Empty(line) == line.content = <<>> /\ line.reasoning = <<>> /\ line.calls = <<>>

\* Mutant: what comes with the reason to finish is not looked at.
LastDeltaDropped(line) ==
  CASE line.kind = "error" -> <<Event(line, "api", TRUE)>>
    [] line.kind = "delta" /\ line.finish # "" ->
         <<Event([Line("delta") EXCEPT !.finish = line.finish], "", TRUE)>>
    [] line.kind = "delta" /\ line.finish = "" /\ ~Empty(line) -> <<Event(line, "", FALSE)>>
    [] OTHER -> <<>>

ProcessStreamLine(line) ==
  CASE line.kind = "[DONE]"                                    -> <<Event(line, "", TRUE)>>
    [] line.kind = "error"                                     -> <<Event(line, "api", TRUE)>>
    [] line.kind = "delta" /\ line.finish # ""                 -> <<Event(line, "", TRUE)>>
    [] line.kind = "delta" /\ line.finish = "" /\ ~Empty(line) -> <<Event(line, "", FALSE)>>
    [] OTHER -> <<>>

\* What the reader adds when the lines are over: the server closed the stream, the
\* turn was cancelled, nothing came for too long, or the connection broke.
EndEvents(end) ==
  CASE end = "stalled" -> <<Event(Line("end"), "stalled", TRUE)>>
    [] end = "broken"  -> <<Event(Line("end"), "read", TRUE)>>
    [] OTHER           -> <<>>

ReadStreamResponse(lines, end) ==
  FlattenSeq([i \in DOMAIN lines |-> ProcessStreamLine(lines[i])]) \o EndEvents(end)

\* The collector stops at the first event that is the last one.
Collect(events) ==
  LET last == {i \in DOMAIN events : events[i].done}
      read == SubSeq(events, 1, IF last = {} THEN Len(events) ELSE Min(last))
      Add(acc, e) == [acc EXCEPT !.text = @ \o e.content, !.reasoning = @ \o e.reasoning,
                                 !.calls = MergeToolCalls(@, e.calls),
                                 !.finish = e.finish, !.tokens = e.tokens,
                                 !.error = e.error]
  IN  FoldLeft(Add, [text |-> <<>>, reasoning |-> <<>>, calls |-> <<>>,
                     finish |-> "", tokens |-> 0, error |-> ""], read)

-----------------------------------------------------------------------------
(* Attempts.                                                                *)

IsTruncatedStream(r) ==
  /\ r.finish = "" /\ r.calls = <<>>
  /\ \/ r.text = <<>> /\ r.reasoning = <<>>
     \/ r.text # <<>> /\ Head(r.text) = "Stream error:"

Outcome(r, end) ==
  CASE r.error = "stalled"        -> "retry"
    [] r.error \in {"api", "read"} -> "fail"
    [] OTHER -> CASE end = "cancelled" /\ r.finish = "" /\ r.calls = <<>> -> "cancelled"
                  [] IsTruncatedStream(r) -> IF end = "cancelled" THEN "cancelled" ELSE "retry"
                  [] OTHER -> "answer"

-----------------------------------------------------------------------------
(* What must hold of every stream.                                          *)

\* Before it is cut a stream of lines says this much of the calls.
Finishes(lines) == \E i \in DOMAIN lines : lines[i].finish # ""
Fails(lines)    == \E i \in DOMAIN lines : lines[i].kind = "error"

Result(lines, end) == Collect(ReadStreamResponse(lines, end))

\* An answer that came to its end is the answer that was sent, however it was divided
\* among the lines and however the stream ends behind it.
WholeAnswer(lines, end, sent) ==
  LET r == Result(lines, end) IN
  Finishes(lines) /\ ~Fails(lines) =>
    /\ Outcome(r, end) = "answer" /\ r.finish # ""
    /\ r.text = sent.text /\ r.reasoning = sent.reasoning
    /\ {[c EXCEPT !.index = 0] : c \in ToSet(r.calls)} = {[c EXCEPT !.index = 0] : c \in ToSet(sent.calls)}
    /\ Len(r.calls) = Len(sent.calls)

\* Of a stream that was cut, no call is run with a part of its arguments.
CutCallsAreCaught(lines, end) ==
  LET r == Result(lines, end) IN
  ~Finishes(lines) /\ Outcome(r, end) = "answer" =>
    \/ Unparseable(r.calls) # {}
    \/ \A c \in ToSet(r.calls) : c.arguments = <<>> \/ Parses(c.arguments)
=============================================================================
