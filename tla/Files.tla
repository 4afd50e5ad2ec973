------------------------------- MODULE Files --------------------------------
(***************************************************************************)
(* What the file tools make of a text: a patch that is parsed and applied, *)
(* a window of a file that is read, and the parts of a message that is too *)
(* long for VK (pkg/tools, pkg/vk/bot.go).                                 *)
(*                                                                         *)
(* A file is a sequence of lines.  A line of a patch is [mark, of].        *)
(***************************************************************************)
EXTENDS Integers, Sequences, SequencesExt, FiniteSets

Mark(mark, of) == [mark |-> mark, of |-> of]

Dashes == "-- x"  \* a line of a file that looks like part of a header when it is removed

\* How a diff writes a line that is removed; such a line may read as a header.
Minus(line) == IF line = Dashes THEN Mark("---", "x") ELSE Mark("-", line)

Null == "/dev/null"

-----------------------------------------------------------------------------
(* Patches.                                                                 *)

NoFile == [old |-> "", new |-> "", isNew |-> FALSE, isDelete |-> FALSE, hunks |-> <<>>]

Flush(st) == [st EXCEPT !.files = IF st.open /\ st.file.hunks # <<>> THEN Append(@, st.file) ELSE @,
                        !.file = NoFile, !.open = FALSE]

ParseLine(st, l) ==
  CASE l.mark = "---" ->
         [Flush(st) EXCEPT !.file = [NoFile EXCEPT !.old = l.of, !.isNew = l.of = Null],
                           !.open = TRUE]
    [] l.mark = "+++" ->
         [st EXCEPT !.file.new = l.of, !.open = TRUE,
                    !.file.isDelete = @ \/ l.of = Null,
                    !.file.isNew = @ /\ l.of # Null]
    [] l.mark = "@@" -> IF st.open THEN [st EXCEPT !.file.hunks = Append(@, [start |-> l.of, lines |-> <<>>])]
                        ELSE st
    [] OTHER ->
         IF st.open /\ st.file.hunks # <<>>
         THEN [st EXCEPT !.file.hunks[Len(st.file.hunks)].lines = Append(@, l)]
         ELSE st

ParsePatch(lines) ==
  Flush(FoldLeft(ParseLine, [files |-> <<>>, file |-> NoFile, open |-> FALSE], lines)).files

PickTargetPath(file) ==
  IF file.new \notin {"", Null} THEN file.new ELSE IF file.old # Null THEN file.old ELSE ""

ContextLines(hunk) ==
  LET in == SelectSeq(hunk.lines, LAMBDA l : l.mark \in {" ", "-"}) IN
  [i \in DOMAIN in |-> in[i].of]

Removed(hunk) == Len(SelectSeq(hunk.lines, LAMBDA l : l.mark = "-"))

\* Where the lines of the hunk stand: from as many lines before the place it names
\* as it removes to three lines behind it, or at the place itself.
FindContext(lines, start, hunk) ==
  LET context == ContextLines(hunk)
      back    == IF Removed(hunk) > Len(context) THEN Len(context) ELSE Removed(hunk)
      from    == IF start - back < 0 THEN 0 ELSE start - back
      to      == IF start + 3 > Len(lines) THEN Len(lines) ELSE start + 3
      at      == {i \in from..to : /\ i + Len(context) <= Len(lines)
                                   /\ SubSeq(lines, i + 1, i + Len(context)) = context}
  IN  IF context = <<>> \/ at = {} THEN start ELSE Min(at)

\* Mutant: lines of context are not passed over.
ApplyLineStaying(st, l) ==
  CASE l.mark = "-" -> IF st.pos < Len(st.lines) THEN [st EXCEPT !.lines = RemoveAt(@, st.pos + 1)] ELSE st
    [] l.mark = "+" -> [st EXCEPT !.lines = InsertAt(@, (IF st.pos < Len(@) THEN st.pos ELSE Len(@)) + 1, l.of),
                                  !.pos = @ + 1]
    [] OTHER -> st

ApplyLine(st, l) ==
  LET at == IF st.pos > Len(st.lines) THEN Len(st.lines) ELSE st.pos IN
  CASE l.mark = "-" -> IF st.pos < Len(st.lines)
                       THEN [st EXCEPT !.lines = RemoveAt(@, st.pos + 1), !.offset = @ - 1]
                       ELSE st
    [] l.mark = "+" -> [lines |-> SubSeq(st.lines, 1, at) \o <<l.of>> \o SubSeq(st.lines, at + 1, Len(st.lines)),
                        pos |-> st.pos + 1, offset |-> st.offset + 1]
    [] l.mark = " " -> [st EXCEPT !.pos = @ + 1]
    [] OTHER        -> st

ApplyHunk(st, hunk) ==
  LET named  == hunk.start - 1 + st.offset
      target == IF named < 0 THEN 0 ELSE IF named > Len(st.lines) THEN Len(st.lines) ELSE named
      start  == FindContext(st.lines, target, hunk)
      done   == FoldLeft(ApplyLine, [lines |-> st.lines, pos |-> start, offset |-> st.offset], hunk.lines)
  IN  [lines |-> done.lines, offset |-> done.offset]

ApplyUpdateFile(lines, file) ==
  FoldLeft(ApplyHunk, [lines |-> lines, offset |-> 0], file.hunks).lines

\* The content of a new file: added lines, and all others that are not removed.
BuildContentFromHunks(hunks) ==
  FlattenSeq([i \in DOMAIN hunks |->
    LET kept == SelectSeq(hunks[i].lines, LAMBDA l : l.mark \notin {"-", "\\"}) IN
    [j \in DOMAIN kept |-> IF kept[j].mark = "+" THEN kept[j].of ELSE kept[j].mark \o kept[j].of]])

-----------------------------------------------------------------------------
(* Reading.                                                                 *)

\* Lines offset+1 .. offset+limit of a file, and whether there are more.
ReadWindow(lines, offset, limit) ==
  LET last == IF offset + limit < Len(lines) THEN offset + limit ELSE Len(lines)
      read == SubSeq(lines, offset + 1, last)
  IN  [lines |-> read, total |-> Len(lines), more |-> offset + Len(read) < Len(lines)]

-----------------------------------------------------------------------------
(* Messages.  A text is a sequence of bytes; safe is what a part may hold   *)
(* beside its header.                                                       *)

\* Without the empty line that a newline at the end would add.
SplitLines(text) ==
  LET st == FoldLeft(LAMBDA acc, ch : IF ch = "\n" THEN [lines |-> Append(acc.lines, acc.line), line |-> <<>>]
                                      ELSE [acc EXCEPT !.line = Append(@, ch)],
                     [lines |-> <<>>, line |-> <<>>], text)
  IN  IF st.line = <<>> THEN st.lines ELSE Append(st.lines, st.line)

Chunks(line, safe) ==
  [i \in 1..((Len(line) + safe - 1) \div safe) |->
     SubSeq(line, (i - 1) * safe + 1, IF i * safe < Len(line) THEN i * safe ELSE Len(line))]

AddLine(st, line, safe) ==
  CASE Len(line) > safe ->
         [parts |-> st.parts \o (IF st.part = <<>> THEN <<>> ELSE <<st.part>>) \o Chunks(line, safe),
          part  |-> <<>>]
    [] Len(line) <= safe /\ st.part # <<>> /\ Len(st.part) + Len(line) + 1 > safe ->
         [parts |-> Append(st.parts, st.part), part |-> line]
    [] OTHER -> [st EXCEPT !.part = IF @ = <<>> THEN line ELSE @ \o <<"\n">> \o line]

SplitText(text, safe) ==
  LET st == FoldLeft(LAMBDA acc, line : AddLine(acc, line, safe), [parts |-> <<>>, part |-> <<>>], SplitLines(text))
  IN  IF st.part = <<>> THEN st.parts ELSE Append(st.parts, st.part)

-----------------------------------------------------------------------------
(* What must hold of every text.                                            *)

\* A patch of one file that a diff writes for a script of kept, removed and added lines:
\* hunks with one line of context, each at its place in the old file.
Old(script) == LET s == SelectSeq(script, LAMBDA o : o.mark # "+") IN [i \in DOMAIN s |-> s[i].of]
New(script) == LET s == SelectSeq(script, LAMBDA o : o.mark # "-") IN [i \in DOMAIN s |-> s[i].of]

Near(script, i) == \E j \in (i-1)..(i+1) \cap DOMAIN script : script[j].mark # " "

Written(o) == IF o.mark = "-" THEN Minus(o.of) ELSE o

Diff(script, path) ==
  LET OldLine(i) == Len(Old(SubSeq(script, 1, i)))
      Header(i)  == Mark("@@", IF script[i].mark = "+" THEN OldLine(i) + 1 ELSE OldLine(i))
      Add(out, i) == CASE ~Near(script, i) -> out
                       [] Near(script, i) /\ (i = 1 \/ ~Near(script, i - 1)) -> out \o <<Header(i), Written(script[i])>>
                       [] OTHER -> Append(out, Written(script[i]))
  IN  FoldLeftDomain(LAMBDA out, i : Add(out, i), <<Mark("---", path), Mark("+++", path)>>, script)

Distinct(lines) == Cardinality(ToSet(lines)) = Len(lines)

\* A diff of a file without repeated lines changes it into the new one, or creates that one.
PatchApplies(script) ==
  LET files == ParsePatch(Diff(script, "f")) IN
  /\ Distinct(Old(script) \o SelectSeq(New(script), LAMBDA l : l \notin ToSet(Old(script))))
  /\ Distinct(New(script)) /\ Dashes \notin ToSet(Old(script)) /\ (\E i \in DOMAIN script : script[i].mark # " ")
  => /\ Len(files) = 1 /\ PickTargetPath(files[1]) = "f"
     /\ ApplyUpdateFile(Old(script), files[1]) = New(script)
     /\ Old(script) = <<>> => BuildContentFromHunks(files[1].hunks) = New(script)

\* Pages of a file, each read where the one before it ends, are the file.
PagesCover(lines, limit) ==
  LET Page(acc, i) == LET w == ReadWindow(lines, Len(acc.read), limit) IN
                      IF acc.more THEN [read |-> acc.read \o w.lines, more |-> w.more] ELSE acc
  IN  FoldLeft(Page, [read |-> <<>>, more |-> TRUE], [i \in 1..(Len(lines) + 1) |-> i])
        = [read |-> lines, more |-> FALSE]

\* The parts of a message fit, and together they are the message but for newlines.
PartsAreTheMessage(text, safe) ==
  LET parts == SplitText(text, safe)
      Ink(t) == SelectSeq(t, LAMBDA ch : ch # "\n")
  IN  /\ \A i \in DOMAIN parts : Len(parts[i]) <= safe /\ parts[i] # <<>>
      /\ Ink(FlattenSeq(parts)) = Ink(text)
=============================================================================
