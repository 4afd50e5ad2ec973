----------------------------- MODULE ShellText -----------------------------
(***************************************************************************)
(* How the program reads a shell command before it asks for permission to  *)
(* run it: pkg/permission splits the text into commands, a command into    *)
(* tokens, and makes of each the pattern to evaluate and the pattern that  *)
(* an answer "always" approves.                                            *)
(*                                                                         *)
(* A text is a sequence of lexemes.  A lexeme is a character that means    *)
(* something to the code, or stands for a run of ordinary ones ("git").    *)
(***************************************************************************)
EXTENDS Integers, Sequences, SequencesExt, FiniteSets

SQ == "'"
DQ == "\""
NL == "\n"
BS == "\\"

At(text, i) == IF i \in DOMAIN text THEN text[i] ELSE "end"

\* strings.TrimLeft and TrimSpace.
TrimLeft(text, S) ==
  LET kept == {i \in DOMAIN text : text[i] \notin S} IN
  IF kept = {} THEN <<>> ELSE SubSeq(text, Min(kept), Len(text))

TrimSpace(text) == Reverse(TrimLeft(Reverse(TrimLeft(text, {" ", NL})), {" ", NL}))

Join(tokens, sep) ==
  FoldLeftDomain(LAMBDA out, i : out \o (IF i = 1 THEN <<>> ELSE sep) \o tokens[i],
                 <<>>, tokens)

\* The quote that is open after a character.
Quoted(quote, ch) ==
  CASE quote = "none" /\ ch \in {SQ, DQ} -> ch
    [] quote # "none" /\ ch = quote      -> "none"
    [] OTHER                             -> quote

QuoteAt(text, i) == FoldLeft(Quoted, "none", SubSeq(text, 1, i - 1))

-----------------------------------------------------------------------------
(* Here-documents.                                                          *)

First(line, j, S) ==  \* the first position from j on that holds one of S
  LET found == {k \in j..Len(line) : line[k] \in S} IN
  IF found = {} THEN Len(line) + 1 ELSE Min(found)

\* The delimiter that follows << at j, if there is one.
DelimOf(rest) ==
  LET quote == At(rest, 1)  close == First(rest, 2, {quote}) IN
  CASE rest = <<>>                              -> {}
    [] quote \in {SQ, DQ} /\ close > Len(rest)  -> {}
    [] quote \in {SQ, DQ} /\ close <= Len(rest) -> {SubSeq(rest, 2, close - 1)}
    [] OTHER -> {SubSeq(rest, 1, First(rest, 1, {" "}) - 1)}

ParseHeredocDelim(line, j) ==
  DelimOf(TrimLeft(SubSeq(line, IF At(line, j) = "-" THEN j + 1 ELSE j, Len(line)), {" "}))

FindHeredocOpener(line) ==
  LET at == {i \in 1..(Len(line) - 1) :
               line[i] = "<" /\ line[i+1] = "<" /\ QuoteAt(line, i) = "none"}
  IN  IF at = {} THEN {} ELSE ParseHeredocDelim(line, Min(at) + 2)

\* Where the lines end: at each newline and at the end of the text.
LineEnds(text) ==
  SetToSortSeq({i \in DOMAIN text : text[i] = NL} \cup {Len(text) + 1}, <)

\* From the line that opens a here-document to the line that closes it, or to the end.
RangesOf(text, ends) ==
  LET From(n) == IF n = 1 THEN 1 ELSE ends[n-1] + 1
      Read(acc, n, line, opener) ==
        CASE acc.open # {} ->
               [ranges |-> [acc.ranges EXCEPT ![Len(acc.ranges)].to = ends[n]],
                open   |-> acc.open \ {TrimLeft(line, {" "})}]
          [] acc.open = {} /\ opener # {} ->
               [ranges |-> Append(acc.ranges, [from |-> From(n), to |-> ends[n]]),
                open   |-> opener]
          [] OTHER -> acc
      ReadLine(acc, n, line) == Read(acc, n, line, FindHeredocOpener(line))
  IN  FoldLeftDomain(LAMBDA acc, n : ReadLine(acc, n, SubSeq(text, From(n), ends[n] - 1)),
                     [ranges |-> <<>>, open |-> {}], ends).ranges

HeredocRanges(text) == RangesOf(text, LineEnds(text))

InHeredoc(ranges, i) == \E n \in DOMAIN ranges : ranges[n].from <= i /\ i <= ranges[n].to

-----------------------------------------------------------------------------
(* Splitting.                                                               *)

Separator(ch, next) == ch \in {";", NL, "|"} \/ (ch = "&" /\ next = "&")

Flush(st, part) ==
  [st EXCEPT !.part = <<>>, !.parts = IF part = <<>> THEN @ ELSE Append(@, part)]

Flushed(st) == Flush(st, TrimSpace(st.part))

Write(st, chars) == [st EXCEPT !.part = @ \o chars]

\* Mutant: the character behind a backslash is lost.
StepEscaping(text, ranges, st, i) ==
  LET ch == text[i]  next == At(text, i + 1) IN
  CASE st.skip -> [st EXCEPT !.skip = FALSE]
    [] ~st.skip /\ (st.quote # "none" \/ ch \in {SQ, DQ}) ->
         [Write(st, <<ch>>) EXCEPT !.quote = Quoted(@, ch)]
    [] ~st.skip /\ st.quote = "none" /\ ch = BS -> [Write(st, <<ch>>) EXCEPT !.skip = TRUE]
    [] ~st.skip /\ st.quote = "none" /\ Separator(ch, next) -> Flushed(st)
    [] OTHER -> Write(st, <<ch>>)

\* One character of the splitter, or two: the second is then skipped.
Step(text, ranges, st, i) ==
  LET ch   == text[i]
      next == At(text, i + 1)
      both == IF next = "end" THEN <<ch>> ELSE <<ch, next>>
  IN
  CASE st.skip -> [st EXCEPT !.skip = FALSE]
    [] ~st.skip /\ InHeredoc(ranges, i) -> Write(st, <<ch>>)
    [] OTHER ->
         CASE st.quote # "none" \/ ch \in {SQ, DQ} ->
                [Write(st, <<ch>>) EXCEPT !.quote = Quoted(@, ch)]
           [] st.quote = "none" /\ ch = "$" /\ next = "(" ->
                [Write(st, both) EXCEPT !.dollar = @ + 1, !.skip = TRUE]
           [] st.quote = "none" /\ ch = BS ->
                [Write(st, both) EXCEPT !.skip = TRUE]
           [] st.quote = "none" /\ ch = "(" -> [Write(st, <<ch>>) EXCEPT !.paren = @ + 1]
           [] st.quote = "none" /\ ch = ")" ->
                IF st.paren > 0 THEN [Write(st, <<ch>>) EXCEPT !.paren = @ - 1]
                ELSE [Write(st, <<ch>>) EXCEPT !.dollar = IF @ > 0 THEN @ - 1 ELSE 0]
           [] st.quote = "none" /\ Separator(ch, next) /\ st.paren = 0 /\ st.dollar = 0 ->
                [Flushed(st) EXCEPT !.skip = ch \in {"&", "|"} /\ next = ch]
           [] OTHER -> Write(st, <<ch>>)

SplitIn(text, ranges) ==
  LET start == [part |-> <<>>, parts |-> <<>>, quote |-> "none",
                dollar |-> 0, paren |-> 0, skip |-> FALSE]
  IN  Flushed(FoldLeftDomain(LAMBDA st, i : Step(text, ranges, st, i), start, text)).parts

SplitCommands(text) == SplitIn(text, HeredocRanges(text))

TokenStep(part, st, i) ==
  LET ch   == part[i]
      next == At(part, i + 1)
      Put(chars) == [st EXCEPT !.token = @ \o chars]
  IN
  CASE st.skip -> [st EXCEPT !.skip = FALSE]
    [] ~st.skip /\ (st.quote # "none" \/ ch \in {SQ, DQ}) ->
         [Put(<<ch>>) EXCEPT !.quote = Quoted(@, ch)]
    [] OTHER ->
         CASE ch = "$" /\ next = "(" ->
                [Put(<<ch, next>>) EXCEPT !.dollar = @ + 1, !.skip = TRUE]
           [] ch = BS ->
                [Put(IF next = "end" THEN <<ch>> ELSE <<ch, next>>) EXCEPT !.skip = TRUE]
           [] ch = ")" /\ st.dollar > 0 -> [Put(<<ch>>) EXCEPT !.dollar = @ - 1]
           [] ch = " " /\ st.dollar = 0 ->
                [st EXCEPT !.token = <<>>,
                           !.tokens = IF st.token = <<>> THEN @ ELSE Append(@, st.token)]
           [] OTHER -> Put(<<ch>>)

AllTokens(st) == IF st.token = <<>> THEN st.tokens ELSE Append(st.tokens, st.token)

Tokenize(part) ==
  LET start == [token |-> <<>>, tokens |-> <<>>, quote |-> "none", dollar |-> 0, skip |-> FALSE]
  IN  AllTokens(FoldLeftDomain(LAMBDA st, i : TokenStep(part, st, i), start, part))

-----------------------------------------------------------------------------
(* Patterns.                                                                *)

\* A few entries of the table of commands whose name has more than one word.
Arity(name) ==
  CASE name = <<"git">>                -> 2
    [] name = <<"git", " ", "stash">>  -> 3
    [] name = <<"aws">>                -> 3
    [] OTHER                           -> 0

Known(tokens) == {n \in DOMAIN tokens : Arity(Join(SubSeq(tokens, 1, n), <<" ">>)) > 0}

Least(a, b) == IF a < b THEN a ELSE b

\* The words of a command that name what it does.
Prefix(tokens) ==
  IF Known(tokens) = {} THEN SubSeq(tokens, 1, 1)
  ELSE LET arity == Arity(Join(SubSeq(tokens, 1, Max(Known(tokens))), <<" ">>))
       IN  SubSeq(tokens, 1, Least(arity, Len(tokens)))

CwdCommands == {<<"cd">>, <<"pushd">>, <<"popd">>, <<"chdir">>}

\* What the regular expression \$\(([^)]+)\) finds from position p on.
RECURSIVE NestedFrom(_, _)
NestedFrom(text, p) ==
  LET starts == {i \in p..(Len(text) - 2) :
                   /\ text[i] = "$" /\ text[i+1] = "("
                   /\ LET close == First(text, i + 2, {")"})
                      IN close > i + 2 /\ close <= Len(text)}
  IN  IF starts = {} THEN {}
      ELSE LET i     == Min(starts)
               close == First(text, i + 2, {")"})
           IN  {SubSeq(text, i + 2, close - 1)} \cup NestedFrom(text, close + 1)

Acts(tokens) == tokens # <<>> /\ Head(tokens) \notin CwdCommands

\* The patterns of the commands of a text, with those of the commands nested in them.
Patterns(parts, inner) ==
  [patterns |-> parts \cup UNION {s.patterns : s \in inner},
   always   |-> {Join(Prefix(Tokenize(p)), <<" ">>) \o <<" ", "*">> : p \in parts}
                  \cup UNION {s.always : s \in inner}]

RECURSIVE ScanParts(_)
ScanCommand(text) == ScanParts({p \in ToSet(SplitCommands(text)) : Acts(Tokenize(p))})
ScanParts(parts) ==
  Patterns(parts, {ScanCommand(n) : n \in UNION {NestedFrom(p, 1) : p \in parts}})

\* What Match makes of a pattern: * for any run of characters but newlines, ? for one.
RECURSIVE Glob(_, _)
Glob(input, pattern) ==
  IF pattern = <<>> THEN input = <<>>
  ELSE LET fits == input # <<>> /\ Head(input) # NL IN
       CASE Head(pattern) = "*" -> \/ Glob(input, Tail(pattern))
                                   \/ fits /\ Glob(Tail(input), pattern)
         [] Head(pattern) = "?" -> fits /\ Glob(Tail(input), Tail(pattern))
         [] OTHER -> /\ input # <<>> /\ Head(input) = Head(pattern)
                     /\ Glob(Tail(input), Tail(pattern))

Slashes(text) == ReplaceAll(text, BS, "/")

\* A pattern that ends with " *" matches without that end as well.
Match(input, pattern) ==
  \/ Glob(Slashes(input), Slashes(pattern))
  \/ /\ IsSuffix(<<" ", "*">>, pattern)
     /\ Glob(Slashes(input), Slashes(SubSeq(pattern, 1, Len(pattern) - 2)))

-----------------------------------------------------------------------------
(* What must hold of every text.                                            *)

Ink(text) == SelectSeq(text, LAMBDA ch : ch \notin {" ", NL, ";", "|", "&"})

\* The commands have every character of the text that does not separate, in its order.
KeepsText(text) == Ink(FlattenSeq(SplitCommands(text))) = Ink(text)

\* A command is one command when it is read again, as the gates after the first do.
Stable(text) == \A p \in ToSet(SplitCommands(text)) : SplitCommands(p) = <<p>>

\* The tokens of a command, joined by a blank, are the tokens again.
Rejoins(text) ==
  \A p \in ToSet(SplitCommands(text)) : Tokenize(Join(Tokenize(p), <<" ">>)) = Tokenize(p)
=============================================================================
