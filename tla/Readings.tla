------------------------------- MODULE Readings -------------------------------
(***************************************************************************)
(* The pure algorithms of the program over bounded inputs.  An input grows *)
(* by one piece at a time, whatever it is an input of: the characters or   *)
(* the words of a shell command, the pieces or the lexemes of an answer,   *)
(* the lines of a stream, the lines of a script of changes to a file, or   *)
(* the bytes of a message.                                                 *)
(***************************************************************************)
EXTENDS Integers, Sequences, SequencesExt, FiniteSets, TLC

WorkingDir == <<<<"in">>>>

Shell  == INSTANCE ShellRules
Answer == INSTANCE Answer
Stream == INSTANCE Stream
Files  == INSTANCE Files

VARIABLES kind,   \* what the input is
          input,  \* the input so far
          sent    \* of a stream: the answer that its lines divide

vars == <<kind, input, sent>>

Limit == [shell |-> 4, command |-> 3, transfer |-> 4, pieces |-> 2, soup |-> 4,
          stream |-> 4, script |-> 7, message |-> 10]

Nothing == [text |-> <<>>, reasoning |-> <<>>, calls |-> <<>>]

Init == /\ kind \in DOMAIN Limit
        /\ input = <<>>
        /\ sent = Nothing

Grow(k, more) ==
  /\ kind = k /\ Len(input) < Limit[k]
  /\ input' = Append(input, more)
  /\ UNCHANGED <<kind, sent>>

-----------------------------------------------------------------------------
(* Shell commands.  An element of the input is a word or a character; the   *)
(* text has a blank between words.                                          *)

Characters == {"git", "stash", " ", "'", "\"", "$", "(", ")", "&", ";", "\n", "\\", "<", "E"}

Programs == {<<"cat">>, <<"cp">>, <<"/", "bin", "/", "cat">>, <<"sudo">>, <<"X", "=", "/", "out">>,
             <<"export">>, <<"docker">>, <<"docker", " ", "exec", " ", "box", " ", "cat">>, <<"git">>, <<"rm">>,
             <<"cat", " ", "<", "<", "E", "\n", "E", "\n">>}

Words == {<<"/", "out", "/", "f">>, <<"/", "in">>, <<".", ".">>, <<"-", "i">>, <<"exec">>, <<"bash">>,
          <<">">>, <<"2", ">", "/", "out">>, <<"<", "/", "out">>, <<"&", "&", " ", "cp">>, <<"stash">>,
          <<";", " ", "git">>, <<"$", "(", "cat", " ", "/", "etc", ")">>, <<"X", "=", "/", "out">>,
          <<"<", "<", "E">>, <<"\n">>, <<"E">>, <<"-", "rf">>, <<"~">>}

Movers == {<<"adb">>, <<"ssh">>, <<"scp">>}

MovedWords == {<<"/", "out", "/", "f">>, <<"a", ".", "x">>, <<"-", "i">>, <<"-", "s">>, <<"push">>, <<"pull">>,
               <<"shell">>, <<"h", ":", "/", "r">>, <<">">>}

Character == \E c \in Characters : Grow("shell", c)
Word      == \E w \in (IF input = <<>> THEN Programs ELSE Words) : Grow("command", w)
Transfer  == \E w \in (IF input = <<>> THEN Movers ELSE MovedWords) : Grow("transfer", w)

IsShell == kind \in {"shell", "command", "transfer"}
Command == IF kind = "shell" THEN input ELSE Shell!Join(input, <<" ">>)

Allowed == {WorkingDir}

Rule(pattern, action) == Shell!Rule(Shell!Bash, pattern, action)

RuleLists == {<<Rule(<<"*">>, "ask")>>,
              <<Rule(<<"*">>, "deny"), Rule(<<"git", " ", "*">>, "allow")>>,
              <<Rule(<<"*">>, "ask"), Rule(<<"cp", " ", "*">>, "deny")>>}
             \cup Shell!Rulesets(Shell!Bash :> "deny" @@ <<"*">> :> "ask")

-----------------------------------------------------------------------------
(* Answers.                                                                 *)

x == Answer!Text("x")

Param(name, attr, value) == [name |-> name, attr |-> attr, value |-> value]

EvenValues == {<<>>, <<x>>, <<Answer!Newline, x, Answer!Blank>>, <<Answer!Fence, x, Answer!Fence>>,
               <<Answer!Simple("b"), x, Answer!SimpleClose("b")>>}
AnyValues  == EvenValues \cup {<<Answer!Less, x>>, <<Answer!FunctionClose>>, <<Answer!ToolOpen("exact")>>}

ParamLists(values) ==
  {<<>>} \cup {<<Param("p", a, v)>> : a \in BOOLEAN, v \in values}
         \cup {<<Param("p", a, v), Param("q", ~a, <<x>>)>> : a \in BOOLEAN, v \in values}

Calls(style, values) == {[name |-> "f", style |-> style, params |-> ps] : ps \in ParamLists(values)}

Pieces ==
  {[what |-> "text", text |-> t] :
     t \in {<<x>>, <<Answer!Less, x, Answer!Newline, Answer!FunctionClose, Answer!ToolClose("exact")>>}}
  \cup {[what |-> "code", call |-> [name |-> "g", style |-> s, params |-> <<>>]] : s \in {"bare", "exact", "loose"}}
  \cup {[what |-> "call", call |-> c] :
          c \in Calls("bare", EvenValues) \cup Calls("exact", AnyValues) \cup Calls("loose", {<<x>>})}

Lexemes == {x, Answer!Less, Answer!Fence, Answer!Newline, Answer!FunctionIs("f"), Answer!FunctionOpen,
            Answer!FunctionClose, Answer!ParameterIs("p"), Answer!Attr("q"), Answer!ParameterClose,
            Answer!ToolOpen("exact"), Answer!ToolClose("exact"), Answer!ToolClose("loose"),
            Answer!Simple("b"), Answer!SimpleClose("b"), Answer!Json("f")}

Piece  == \E p \in Pieces : Grow("pieces", p)
Lexeme == \E l \in Lexemes : Grow("soup", l)

-----------------------------------------------------------------------------
(* Streams.  The server numbers its calls; each has the arguments { a }.    *)

Arguments == <<"{", "a", "}">>

Idle == {Stream!Line(k) : k \in {"blank", "noise", "usage", "error"}}

Emit(line, answer) ==
  /\ kind = "stream" /\ Len(input) < Limit.stream
  /\ input' = Append(input, line)
  /\ sent' = answer
  /\ UNCHANGED kind

Open == kind = "stream" /\ ~Stream!Finishes(input)

\* The last line may say why the answer is over, and lines of no matter may follow.
Ends == {"", "stop"}

SendText ==
  /\ Open
  /\ \E f \in Ends, d \in {<<<<"x">>, <<>>>>, <<<<>>, <<"y">>>>, <<<<>>, <<>>>>} :
       Emit(Stream!Delta(d[1], d[2], <<>>, f, 1),
            [sent EXCEPT !.text = @ \o d[1], !.reasoning = @ \o d[2]])

SendIdle == \E l \in Idle : Emit(l, sent)

StartCall ==
  /\ Open /\ Len(sent.calls) < 2
  /\ \E f \in Ends, n \in 0..3 :
       LET c == Stream!Call(Len(sent.calls) + 1, "f", SubSeq(Arguments, 1, n)) IN
       Emit(Stream!Delta(<<>>, <<>>, <<c>>, f, 1), [sent EXCEPT !.calls = Append(@, c)])

ContinueCall ==
  /\ Open
  /\ \E f \in Ends, i \in DOMAIN sent.calls : \E n \in (Len(sent.calls[i].arguments) + 1)..3 :
       LET more == SubSeq(Arguments, Len(sent.calls[i].arguments) + 1, n) IN
       Emit(Stream!Delta(<<>>, <<>>, <<Stream!Call(i, "", more)>>, f, 1),
            [sent EXCEPT !.calls[i].arguments = @ \o more])

-----------------------------------------------------------------------------
(* Files and messages.                                                      *)

FileLines == <<"a", "b", "c", "d", "e", "f", "g", "h">>

\* A line that is kept or removed is the next of the file; a line that is added is a new
\* one, or one that was removed before it.
Change ==
  LET moved == {input[i].of : i \in {j \in DOMAIN input : input[j].mark = "-"}}
      fresh == FileLines[Len(input) + 1]
  IN  /\ kind = "script"
      /\ \/ \E m \in {" ", "-", "+"} : Grow("script", Files!Mark(m, fresh))
         \/ \E l \in moved : Grow("script", Files!Mark("+", l))

Byte == \E b \in {"a", "\n"} : Grow("message", b)

Next == \/ Character \/ Word \/ Transfer \/ Piece \/ Lexeme
        \/ SendText \/ SendIdle \/ StartCall \/ ContinueCall \/ Change \/ Byte

Spec == Init /\ [][Next]_vars

-----------------------------------------------------------------------------
(* Properties.                                                              *)

\* Splitting a command loses no character that does not separate its parts.
SplitKeepsCommand == IsShell => Shell!KeepsText(Command)

\* A part is one command with the same words when a later gate reads it again, from its
\* text or from its words.
ReadAgainAlike == IsShell => Shell!Stable(Command) /\ Shell!Rejoins(Command)

\* No path of a transfer between two machines is checked on both sides (adb, ssh, scp).
OneSide == kind = "transfer" => Shell!OneSide(Command)

\* All gates read the same of a shell command, so none of its parts or paths escapes the
\* permission checks (SplitCommands, Tokenize, remoteHostPaths, devicePathsIn).
GatesReadAlike == SplitKeepsCommand /\ ReadAgainAlike /\ OneSide

\* The paths that the question about an unsafe command would grant are enough for it to be
\* safe.  Not so with a here-document, whose body only one of the two readings leaves out.
GrantsSuffice ==
  kind \in {"command", "transfer"} /\ Shell!HeredocRanges(Command) = <<>>
    => Shell!GrantsSuffice(Command, Allowed)

\* A command that is safe stays safe when the user allows one more directory.
SafeStaysSafe ==
  kind \in {"command", "transfer"} => Shell!SafeStaysSafe(Command, Allowed, {<<<<"out">>>>})

\* A command for which the user answered "always" is not asked for again, whatever the
\* rules of the agent were.
AlwaysSettles == kind = "command" => \A rules \in RuleLists : Shell!AlwaysSettles(Command, rules, Allowed)

\* An answer settles what was asked: no later gate asks the same of the same command, nor
\* of one that an earlier answer had made safe (CollectShellPaths, ShellCommandFilesystemSafe,
\* askShellPermission).
AnswersSettle == GrantsSuffice /\ SafeStaysSafe /\ AlwaysSettles

\* The calls that a model writes into its answer are read as they are written, in their
\* order, with what is shown as code and the text around left alone; and a broken answer
\* makes no call that does not stand in it, and none twice (ParseXMLToolCalls).
CallsAreWritten ==
  /\ kind = "pieces" => Answer!WrittenCallsAreRead(input)
  /\ kind = "soup" => Answer!CallsAreQuoted(input)

Endings == {"eof", "cancelled", "stalled", "broken"}

\* An answer that came to its end is what the server sent, however its texts and calls were
\* divided among the lines and whatever happens to the connection afterwards; one that was
\* cut inside the arguments of a call does not run that call (MergeToolCalls,
\* readStreamResponse, collectStreamResponseWithToolCalls).
AnswerIsWhole ==
  kind = "stream" => \A e \in Endings : Stream!WholeAnswer(input, e, sent) /\ Stream!CutCallsAreCaught(input, e)

\* A patch that a diff makes of a file without repeated lines turns the old file into the
\* new one, also where the hunks before a hunk have moved its place (ParsePatch, applyUpdateFile).
PatchApplies == kind = "script" => Files!PatchApplies(input)

\* The pages of a file, each read from where the last one ended, are the file; the parts of
\* a long message fit into the limit and are the message (FileReadTool, splitText).
NothingIsCut ==
  /\ kind = "script" => \A limit \in 1..3 : Files!PagesCover([i \in DOMAIN input |-> input[i].of], limit)
  /\ kind = "message" => \A safe \in 2..4 : Files!PartsAreTheMessage(input, safe)

\* What is written into a file or sent to the user arrives whole: patches, pages, parts.
FilesAreWhole == PatchApplies /\ NothingIsCut
=============================================================================
