------------------------------- MODULE Answer -------------------------------
(***************************************************************************)
(* How the program finds the tool calls that a model writes into the text  *)
(* of its answer, as XML or as JSON (pkg/agent/xml_parser.go,              *)
(* json_parser.go, streaming_utils.go).                                    *)
(*                                                                         *)
(* A text is a sequence of lexemes [tag, of].  The tag says which piece of *)
(* notation it is; "of" is the name in it, its spelling, or the character  *)
(* of ordinary text.  "exact" is the canonical spelling of a wrapper and   *)
(* "loose" one with blanks in it.                                          *)
(***************************************************************************)
EXTENDS Integers, Sequences, SequencesExt, FiniteSets, TLC

Lex(tag, of) == [tag |-> tag, of |-> of]

Text(ch)  == Lex("text", ch)
Blank     == Text(" ")
Newline   == Text("\n")
Less      == Lex("<", "")          \* a "<" that belongs to no tag
Fence     == Lex("fence", "")      \* three backticks

FunctionIs(name)  == Lex("function=", name)   \* <function=name>
FunctionOpen      == Lex("function", "")      \* <function>
FunctionClose     == Lex("/function", "")
ParameterIs(name) == Lex("parameter=", name)  \* <parameter=name>
Attr(name)        == Lex("attr", name)        \* <parameter name="name">
ParameterClose    == Lex("/parameter", "")
Simple(name)      == Lex("simple", name)      \* <name>
SimpleClose(name) == Lex("/simple", name)
ToolOpen(spelt)   == Lex("tool_call", spelt)
ToolClose(spelt)  == Lex("/tool_call", spelt)
Json(name)        == Lex("json", name)        \* a JSON object with that name in it

Closers   == {"/function", "/parameter", "/simple", "/tool_call"}
IsTag(l)  == l.tag \notin {"text", "fence", "json", "<"}
HasLT(l)  == IsTag(l) \/ l.tag = "<"

Lexeme(text, i) == IF i \in DOMAIN text THEN text[i] ELSE Lex("end", "")
Rest(text, i)   == SubSeq(text, i, Len(text))

\* The first position from i on whose lexeme is in S, or 0.
Find(text, i, S) ==
  LET at == {j \in i..Len(text) : text[j] \in S} IN IF at = {} THEN 0 ELSE Min(at)

FindTag(text, i) ==
  LET at == {j \in i..Len(text) : IsTag(text[j])} IN IF at = {} THEN 0 ELSE Min(at)

TrimLeft(text) ==
  LET kept == {i \in DOMAIN text : text[i] \notin {Blank, Newline}} IN
  IF kept = {} THEN <<>> ELSE Rest(text, Min(kept))

TrimSpace(text) == Reverse(TrimLeft(Reverse(TrimLeft(text))))

NeverInCodeBlock(text, pos) == FALSE  \* Mutant: code is read like all other text.

InCodeBlock(text, pos) == Cardinality({i \in 1..(pos - 1) : text[i] = Fence}) % 2 = 1

Put(args, name, value) == (name :> value) @@ args

-----------------------------------------------------------------------------
(* The two scanners.  A state holds the position, the mode, the content so  *)
(* far, what an unfinished wrapper has swallowed, the call being read and   *)
(* the calls that are complete.                                             *)

Start == [at |-> 1, mode |-> "text", content |-> <<>>, pending |-> <<>>,
          name |-> <<>>, param |-> "", value |-> <<>>, args |-> <<>>,
          depth |-> 0, calls |-> <<>>]

To(st, i)          == [st EXCEPT !.at = i]
Content(st, ls, i) == [st EXCEPT !.content = @ \o ls, !.at = i]
Pending(text, st, i) == [st EXCEPT !.pending = @ \o SubSeq(text, st.at, i - 1), !.at = i]

Kept(st) ==  \* the parameter that is still open gets its value
  IF st.param = "" THEN st ELSE [st EXCEPT !.args = Put(@, st.param, st.value)]

WithCall(st, i) ==
  [st EXCEPT !.calls = IF st.name = <<>> THEN @
                       ELSE Append(@, [name |-> st.name, args |-> st.args]),
             !.name = <<>>, !.args = <<>>, !.pending = <<>>, !.mode = "text", !.at = i]

\* <function> with the name behind it: up to the next tag, which stays to be read.
NameBehind(text, i) ==
  LET next == {j \in (i+1)..Len(text) : HasLT(text[j])}
      name == IF next = {} THEN <<>> ELSE TrimSpace(SubSeq(text, i + 1, Min(next) - 1))
  IN  IF text[i] # FunctionOpen \/ name = <<>> THEN {} ELSE {[name |-> name, next |-> Min(next)]}

\* <parameter name="p">value</parameter> as a whole.
AttrValue(text, i) ==
  LET close == Find(text, i + 1, {ParameterClose}) IN
  IF text[i].tag # "attr" \/ close = 0 THEN {}
  ELSE {[name |-> text[i].of, value |-> TrimSpace(SubSeq(text, i + 1, close - 1)),
         next |-> close + 1]}

\* <tag>value</tag> as a whole.
SimpleValue(text, i) ==
  LET l == text[i]
      exact == Find(text, i + 1, CASE l.tag = "simple"    -> {SimpleClose(l.of)}
                                   [] l.tag = "tool_call" -> {ToolClose("exact")}
                                   [] l.tag = "function"  -> {FunctionClose}
                                   [] OTHER               -> {})
      at == IF exact = 0 /\ l.tag = "tool_call"
            THEN Find(text, i + 1, {ToolClose("loose")}) ELSE exact
  IN  IF at = 0 THEN {}
      ELSE {[name |-> IF l.tag = "simple" THEN l.of ELSE l.tag,
             value |-> TrimSpace(SubSeq(text, i + 1, at - 1)), next |-> at + 1]}

\* A "<" that opens nothing known is passed over up to the next ">".
PastTag(text, st) ==
  LET gt == FindTag(text, st.at) IN
  IF HasLT(text[st.at]) /\ gt # 0 THEN gt + 1 ELSE st.at + 1

\* The call whose opening tag is at the state's position, if there is one.
Opened(text, st) ==
  LET l == text[st.at] IN
  IF l.tag = "function=" THEN {[name |-> <<Text(l.of)>>, next |-> st.at + 1]} ELSE NameBehind(text, st.at)

\* Inside a wrapper: a call or a parameter that was found, or text that is passed over.
PendingCall(text, st, found) ==
  IF found = {} THEN Pending(text, st, PastTag(text, st))
  ELSE LET o == CHOOSE c \in found : TRUE IN
       [Pending(text, st, o.next) EXCEPT !.name = o.name, !.args = <<>>, !.mode = "function"]

PendingValue(text, st, found) ==
  IF found = {} THEN Pending(text, st, PastTag(text, st))
  ELSE LET a == CHOOSE c \in found : TRUE IN
       [Pending(text, st, a.next) EXCEPT !.args = Put(@, a.name, a.value)]

WrapperStep(text, st) ==
  LET i == st.at  l == text[st.at] IN
  CASE st.mode = "text" ->
         IF l.tag = "tool_call" /\ ~InCodeBlock(text, i)
         THEN [st EXCEPT !.pending = <<l>>, !.mode = "tool_call", !.name = <<>>,
                         !.args = <<>>, !.at = i + 1]
         ELSE Content(st, <<l>>, i + 1)
    [] st.mode = "tool_call" ->
         CASE l.tag = "/tool_call" /\ st.name # <<>> -> WithCall(st, i + 1)
           [] l.tag = "/tool_call" /\ st.name = <<>> ->
                [Content(st, st.pending, i + 1) EXCEPT !.pending = <<>>, !.mode = "text"]
           [] OTHER -> PendingCall(text, st, Opened(text, st))
    [] st.mode = "function" ->
         CASE l = FunctionClose ->
                [Pending(text, Kept(st), i + 1) EXCEPT !.param = "", !.value = <<>>,
                                                       !.mode = "tool_call"]
           [] l.tag = "/tool_call" ->
                [WithCall(Kept(st), i + 1) EXCEPT !.param = "", !.value = <<>>]
           [] l.tag = "parameter=" ->
                [Pending(text, Kept(st), i + 1) EXCEPT !.param = l.of, !.value = <<>>,
                                                       !.mode = "param"]
           [] OTHER -> PendingValue(text, st, AttrValue(text, i))
    [] OTHER ->  \* "param"
         IF l = ParameterClose
         THEN [Pending(text, Kept([st EXCEPT !.value = TrimSpace(@)]), i + 1)
                 EXCEPT !.param = "", !.value = <<>>, !.mode = "function"]
         ELSE [st EXCEPT !.value = Append(@, l), !.at = i + 1]

RECURSIVE WrapperScan(_, _)
WrapperScan(text, st) ==
  IF st.at <= Len(text) THEN WrapperScan(text, WrapperStep(text, st))
  ELSE [calls |-> st.calls,
        content |-> st.content \o IF st.mode = "text" THEN <<>>
                                  ELSE st.pending \o IF st.param = "" THEN <<>> ELSE st.value]

ParseWithWrapper(text) == WrapperScan(text, Start)

\* The state goes on behind a parameter that was found, if one was.
WithValue(st, found) ==
  IF found = {} THEN To(st, st.at + 1)
  ELSE LET a == CHOOSE c \in found : TRUE IN
       [st EXCEPT !.args = Put(@, a.name, a.value), !.at = a.next]

\* A call that was opened, or an ordinary lexeme.
BareText(text, st, opened) ==
  IF ~InCodeBlock(text, st.at) /\ opened # {}
  THEN LET o == CHOOSE c \in opened : TRUE IN
       [st EXCEPT !.name = o.name, !.args = <<>>, !.mode = "function", !.at = o.next]
  ELSE Content(st, <<text[st.at]>>, st.at + 1)

FirstFound(a, b) == IF a = {} THEN b ELSE a

BareStep(text, st) ==
  LET i == st.at  l == text[st.at] IN
  CASE st.mode = "text" -> BareText(text, st, Opened(text, st))
    [] st.mode = "function" ->
         CASE l = FunctionClose -> WithCall(st, i + 1)
           [] l.tag = "parameter=" ->
                [st EXCEPT !.param = l.of, !.value = <<>>, !.depth = 0, !.mode = "param",
                           !.at = i + 1]
           [] OTHER -> WithValue(st, FirstFound(AttrValue(text, i), SimpleValue(text, i)))
    [] OTHER ->  \* "param"
         IF l = ParameterClose /\ st.depth = 0
         THEN [Kept([st EXCEPT !.value = TrimSpace(@)])
                 EXCEPT !.param = "", !.mode = "function", !.at = i + 1]
         ELSE [st EXCEPT !.value = Append(@, l), !.at = i + 1,
                         !.depth = @ + CASE l.tag \in Closers -> -1
                                         [] HasLT(l) /\ l.tag \notin Closers -> 1
                                         [] OTHER -> 0]

RECURSIVE BareScan(_, _)
BareScan(text, st) ==
  IF st.at <= Len(text) THEN BareScan(text, BareStep(text, st))
  ELSE [calls |-> st.calls, content |-> st.content]

ParseWithoutWrapper(text) == BareScan(text, Start)

RECURSIVE StripToolCallBlocks(_)
StripToolCallBlocks(text) ==
  LET start == Find(text, 1, {ToolOpen("exact")})
      end   == IF start = 0 THEN 0 ELSE Find(text, start, {ToolClose("exact")})
  IN  IF end = 0 THEN text
      ELSE SubSeq(text, 1, start - 1) \o StripToolCallBlocks(Rest(text, end + 1))

FirstWithCalls(a, b) == IF a.calls # <<>> THEN a ELSE b

Stripped(bare) == [bare EXCEPT !.content = StripToolCallBlocks(@)]

BareCalls(bare) == FirstWithCalls(bare, Stripped(bare))

ParseXMLToolCalls(text) ==
  FirstWithCalls(ParseWithWrapper(text), BareCalls(ParseWithoutWrapper(text)))

-----------------------------------------------------------------------------
(* Calls as JSON objects; a fence counts only at the start of a line.       *)

AtLineStart(text, i) ==
  LET before == {j \in 1..(i - 1) : text[j] # Blank} IN
  before = {} \/ text[Max(before)] = Newline

JsonStep(text, st, i) ==
  LET l == text[i] IN
  IF l = Fence /\ AtLineStart(text, i)
  THEN [st EXCEPT !.content = Append(@, l), !.code = ~@]
  ELSE IF l.tag = "json" /\ ~st.code
       THEN [st EXCEPT !.calls = Append(@, [name |-> <<Text(l.of)>>, args |-> <<>>])]
       ELSE [st EXCEPT !.content = Append(@, l)]

ParseJSONToolCalls(text) ==
  LET st == FoldLeftDomain(LAMBDA acc, i : JsonStep(text, acc, i),
                           [code |-> FALSE, content |-> <<>>, calls |-> <<>>], text)
  IN  [calls |-> st.calls, content |-> StripToolCallBlocks(st.content)]

-----------------------------------------------------------------------------
(* What the turn does with an answer that has no calls of the server.       *)

Has(text, l)      == l \in ToSet(text)
Count(text, l)    == Cardinality({i \in DOMAIN text : text[i] = l})
HasTag(text, tag) == \E l \in ToSet(text) : l.tag = tag

\* Signs of a call that was cut.
HasPartialToolCall(text) ==
  LET open == Has(text, ToolOpen("exact")) IN
  \/ Has(text, ToolClose("exact")) /\ ~open
  \/ HasTag(text, "/function") /\ ~HasTag(text, "function") /\ ~HasTag(text, "function=")
  \/ open /\ Count(text, ToolOpen("exact")) > Count(text, ToolClose("exact"))
  \/ ~open /\ (HasTag(text, "parameter=") \/ HasTag(text, "attr") \/ HasTag(text, "function="))

\* Calls in the text or, when it is longer, in the reasoning.
EmbeddedCalls(text, reasoning) ==
  FirstWithCalls(ParseXMLToolCalls(IF Len(reasoning) > Len(text) THEN reasoning ELSE text),
                 FirstWithCalls(ParseXMLToolCalls(text), ParseJSONToolCalls(text)))

\* A finished answer that the model is asked to correct.
Malformed(text, reasoning) ==
  \/ /\ text = <<>>
     /\ Has(reasoning, ToolOpen("exact")) \/ HasPartialToolCall(reasoning)
  \/ Has(text, ToolOpen("exact")) /\ ParseXMLToolCalls(text).calls = <<>>

-----------------------------------------------------------------------------
(* What must hold of every answer.                                          *)

\* How a model writes a call: in a wrapper or bare, with parameters in either notation.
\* A call is [name, style, params], a parameter [name, attr, value].
WrittenParam(p) ==
  <<IF p.attr THEN Attr(p.name) ELSE ParameterIs(p.name)>> \o p.value \o <<ParameterClose>>

WrittenCall(c) ==
  LET inside == <<FunctionIs(c.name)>>
                  \o FlattenSeq([i \in DOMAIN c.params |-> WrittenParam(c.params[i])])
                  \o <<FunctionClose>>
  IN  IF c.style = "bare" THEN inside ELSE <<ToolOpen(c.style)>> \o inside \o <<ToolClose(c.style)>>

\* A piece of an answer is text, a call, or a call shown in a block of code.
Written(piece) ==
  CASE piece.what = "text" -> piece.text
    [] piece.what = "call" -> WrittenCall(piece.call)
    [] OTHER               -> <<Fence, Newline>> \o WrittenCall(piece.call) \o <<Newline, Fence>>

Meant(c) ==
  [name |-> <<Text(c.name)>>,
   args |-> FoldLeft(LAMBDA args, p : Put(args, p.name, TrimSpace(p.value)), <<>>, c.params)]

Whole(pieces) == FlattenSeq([i \in DOMAIN pieces |-> Written(pieces[i])])

Wrapped(piece) == piece.call.style # "bare"

\* The result of reading a text is what its pieces mean, also from the reasoning.
ReadsAs(pieces, calls, text, r) ==
  /\ r.calls = [i \in DOMAIN calls |-> Meant(calls[i].call)]
  /\ r.content = Whole(SelectSeq(pieces, LAMBDA p : p.what # "call"))
  /\ EmbeddedCalls(<<>>, text) = r /\ ~Malformed(text, <<>>)

ReadsText(pieces, calls, text) == ReadsAs(pieces, calls, text, EmbeddedCalls(text, <<>>))

\* The calls that an answer writes in one style are read, each once and in its order, with
\* the arguments they were written with, from its text or from its reasoning; what is shown
\* as code is no call; all else is content.
WrittenCallsAreRead(pieces) ==
  LET calls == SelectSeq(pieces, LAMBDA p : p.what = "call") IN
  /\ calls # <<>>
  /\ \A i \in DOMAIN calls : Wrapped(calls[i]) = Wrapped(calls[1])
  => ReadsText(pieces, calls, Whole(pieces))

\* Each of the calls stands in the text behind a place of its own that opens one.
Quoted(text, calls) ==
  LET Opens == {i \in DOMAIN text : text[i].tag = "function=" \/ NameBehind(text, i) # {}}
      NameAt(i) == IF text[i].tag = "function=" THEN <<Text(text[i].of)>>
                   ELSE (CHOOSE n \in NameBehind(text, i) : TRUE).name
      Stands(value, i) == \E j \in i..Len(text) : SubSeq(text, j, j + Len(value) - 1) = value
  IN  /\ Len(calls) <= Cardinality(Opens)
      /\ \A n \in DOMAIN calls : \E i \in Opens :
           /\ NameAt(i) = calls[n].name
           /\ \A p \in DOMAIN calls[n].args : calls[n].args[p] = <<>> \/ Stands(calls[n].args[p], i)

\* However broken an answer is, every call that is read from it stands in it with its
\* name and the values of its parameters, and none is read twice; and one that has begun a
\* call is not taken for the final answer of the turn.
CallsAreQuoted(text) ==
  /\ Has(text, ToolOpen("exact")) => EmbeddedCalls(text, <<>>).calls # <<>> \/ Malformed(text, <<>>)
  /\ Quoted(text, ParseXMLToolCalls(text).calls)
=============================================================================
