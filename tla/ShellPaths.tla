----------------------------- MODULE ShellPaths -----------------------------
(***************************************************************************)
(* Which paths a shell command touches on this host, and whether it may    *)
(* run without a question: pkg/tools/access_checker.go.  Lists of paths    *)
(* are sets here; Dirs is the set of allowed directories, each as the      *)
(* sequence of its names.  Of every table of the code there are the        *)
(* entries that differ in what the code does with them.                    *)
(***************************************************************************)
EXTENDS ShellText

CONSTANT WorkingDir  \* the names of tools.WorkingDir

FileCommands      == {<<"cat">>, <<"cp">>, <<"rm">>, <<"find">>}
ReadOnlyCommands  == {<<"cat">>, <<"find">>, <<"go">>, <<"docker">>, <<"export">>}
MutatingFlags     == {<<"-", "delete">>, <<"-", "exec">>}
Wrappers          == {<<"sudo">>}
Interpreters      == {<<"bash">>, <<"python">>}
GoWritingVerbs    == {<<"install">>}
DockerReadOnly    == {<<"ps">>}
Digits            == {"1", "2"}
AdbOptions        == {<<"-", "s">>}
SshOptions        == {<<"-", "i">>, <<"-", "p">>}
DevNull           == <<"/", "dev", "/", "null">>

Starts(token, ch) == At(token, 1) = ch
Chars(token)      == ToSet(token)
Last1(S)          == IF S = {} THEN 0 ELSE Max(S)

\* What follows the last slash.
Base(token) == SubSeq(token, Last1({i \in DOMAIN token : token[i] = "/"}) + 1, Len(token))

-----------------------------------------------------------------------------
(* Paths.                                                                   *)

Cut(path) ==  \* strings.Split(path, "/")
  FoldLeft(LAMBDA parts, ch : IF ch = "/" THEN Append(parts, <<>>)
                              ELSE [parts EXCEPT ![Len(parts)] = Append(@, ch)],
           <<<<>>>>, path)

\* filepath.Clean of a path below a directory.
CleanFrom(dir, path) ==
  FoldLeft(LAMBDA names, part :
             CASE part \in {<<>>, <<".">>} -> names
               [] part = <<".", ".">>      -> SubSeq(names, 1, Len(names) - 1)
               [] OTHER                    -> Append(names, part),
           dir, Cut(path))

ResolvePath(path) == CleanFrom(IF Starts(path, "/") THEN <<>> ELSE WorkingDir, path)

PathAllowed(path, dirs) == path # <<>> /\ \E d \in dirs : IsPrefix(d, ResolvePath(path))

PathsAllAllowed(paths, dirs) == \A p \in paths : PathAllowed(p, dirs)

StripOuterQuotes(token) ==
  IF Len(token) >= 2 /\ token[1] \in {SQ, DQ} /\ Last(token) = token[1]
  THEN SubSeq(token, 2, Len(token) - 1) ELSE token

IsExplicit(t) == Starts(t, "/") \/ Starts(t, "~") \/ t = <<".", ".">>

IsExplicitPath(token) == IsExplicit(StripOuterQuotes(token))

LooksLike(t) ==
  /\ At(t, 1) \notin {"-", SQ, DQ} /\ Chars(t) \cap {" ", NL, "?", "*"} = {}
  /\ \/ IsExplicitPath(t)
     \/ /\ ~IsPrefix(<<"http", ":", "/", "/">>, t) /\ "." \in Chars(t) /\ "@" \notin Chars(t)
        /\ ~(Chars(t) \subseteq Digits \cup {"."})

LooksLikePath(token) == LooksLike(StripOuterQuotes(token))

-----------------------------------------------------------------------------
(* Commands and their words.                                                *)

IsEnvAssignment(token) ==
  LET eq == First(token, 1, {"="}) IN
  /\ eq > 1 /\ eq <= Len(token) /\ ~Starts(token, "-")
  /\ "/" \notin ToSet(SubSeq(token, 1, eq - 1))

\* The command without the variables set for it.
CommandParts(parts) ==
  LET words == {i \in DOMAIN parts : ~IsEnvAssignment(parts[i])} IN
  IF words = {} THEN [rest |-> parts, cmd |-> <<>>]
  ELSE [rest |-> SubSeq(parts, Min(words), Len(parts)), cmd |-> Base(parts[Min(words)])]

\* The interpreter that a wrapper runs is no path, even if it is given by one.
WrapperInterpreter(rest, cmd) ==
  LET progs == {i \in 2..Len(rest) : ~IsEnvAssignment(rest[i]) /\ ~Starts(rest[i], "-")} IN
  IF cmd \in Wrappers /\ progs # {} /\ Base(rest[Min(progs)]) \in Interpreters
  THEN {rest[Min(progs)]} ELSE {}

ExtractShellPaths(command) ==
  LET parts == Tokenize(command) IN
  IF parts = <<>> \/ Base(parts[1]) \notin FileCommands THEN {}
  ELSE {t \in ToSet(Tail(parts)) : LooksLikePath(t)}

UnquotedRedirection(token) ==
  Last1({i \in DOMAIN token : token[i] \in {">", "<"} /\ QuoteAt(token, i) = "none"})

\* Where the redirections of a command by one of ops lead.
TargetsOf(tokens, ops) ==
  LET Target(acc, i, at, target) ==
        CASE target # <<>> /\ LooksLikePath(target) -> [acc EXCEPT !.paths = @ \cup {target}]
          [] at = Len(tokens[i]) /\ i < Len(tokens) /\ LooksLikePath(tokens[i+1]) ->
               [paths |-> acc.paths \cup {tokens[i+1]}, skip |-> TRUE]
          [] OTHER -> acc
      Read(acc, i, at) ==
        CASE acc.skip -> [acc EXCEPT !.skip = FALSE]
          [] ~acc.skip /\ at > 0 /\ tokens[i][at] \in ops ->
               Target(acc, i, at,
                      TrimLeft(SubSeq(tokens[i], at + 1, Len(tokens[i])), {"&"} \cup Digits))
          [] OTHER -> acc
  IN  FoldLeftDomain(LAMBDA acc, i : Read(acc, i, UnquotedRedirection(tokens[i])),
                     [paths |-> {}, skip |-> FALSE], tokens).paths

RedirectionTargets(command, ops) == TargetsOf(Tokenize(command), ops)

\* The delimiter after the first << of a line; this reader of them knows no quotes.
LineHeredocOpener(line) ==
  LET at == {i \in 1..(Len(line) - 1) : line[i] = "<" /\ line[i+1] = "<"}
      dashed == SubSeq(line, Min(at) + 2, Len(line))
      rest == TrimLeft(IF Starts(dashed, "-") THEN Tail(dashed) ELSE dashed, {" "})
      word == SubSeq(rest, 1, First(rest, 1, {" "}) - 1)
  IN  IF at = {} THEN <<>>
      ELSE Reverse(TrimLeft(Reverse(TrimLeft(word, {SQ, DQ})), {SQ, DQ}))

\* A command without the bodies of its here-documents.
MaskHeredocBodies(command) ==
  LET ends == LineEnds(command)
      From(n) == IF n = 1 THEN 1 ELSE ends[n-1] + 1
      Read(acc, n) ==
        LET raw  == SubSeq(command, From(n), Least(ends[n], Len(command)))
            line == TrimLeft(SubSeq(command, From(n), ends[n] - 1), {" "})
            closes == line = acc.open \/ IsPrefix(acc.open \o <<")">>, line)
        IN  CASE acc.open # <<>> /\ closes  -> [kept |-> acc.kept \o raw, open |-> <<>>]
              [] acc.open # <<>> /\ ~closes -> acc
              [] OTHER -> [kept |-> acc.kept \o raw, open |-> LineHeredocOpener(line)]
  IN  FoldLeftDomain(Read, [kept |-> <<>>, open |-> <<>>], ends).kept

-----------------------------------------------------------------------------
(* Commands that reach another machine.                                     *)

IsOperator(token) ==
  Starts(token, ">") \/ Starts(token, "<") \/ token \in {<<"|">>, <<"&">>, <<"(">>, <<")">>}

PathLike(tokens) ==
  LET ops == {i \in DOMAIN tokens : IsOperator(tokens[i])}
      end == IF ops = {} THEN Len(tokens) ELSE Min(ops) - 1
  IN  {t \in ToSet(SubSeq(tokens, 1, end)) :
         ~Starts(t, "-") /\ (IsExplicitPath(t) \/ LooksLikePath(t))}

\* The first word from i on that is neither an option nor the value of one; 0 if none.
RECURSIVE FirstWord(_, _, _)
FirstWord(parts, i, valued) ==
  CASE i > Len(parts)                               -> 0
    [] i <= Len(parts) /\ parts[i] \in valued       -> FirstWord(parts, i + 2, valued)
    [] OTHER -> IF Starts(parts[i], "-") THEN FirstWord(parts, i + 1, valued) ELSE i

AdbVerb(parts) ==
  LET at == FirstWord(parts, 2, AdbOptions) IN
  [verb |-> IF at = 0 THEN <<>> ELSE parts[at],
   rest |-> IF at = 0 THEN <<>> ELSE SubSeq(parts, at + 1, Len(parts))]

IsPathArg(token) ==
  /\ ~IsOperator(token)
  /\ First(token, 1, {">", "<"}) >= Len(token)
  /\ LooksLikePath(token) \/ IsExplicitPath(token)

AdbHostPaths(adb) ==
  LET paths == {i \in DOMAIN adb.rest : IsPathArg(adb.rest[i])} IN
  CASE adb.verb \in {<<"push">>, <<"install">>} /\ adb.rest # <<>> -> {Head(adb.rest)}
    [] adb.verb = <<"pull">> /\ paths # {}                       -> {adb.rest[Max(paths)]}
    [] OTHER                                                     -> {}

AdbDevicePaths(adb) ==
  CASE adb.verb = <<"shell">>                          -> PathLike(adb.rest)
    [] adb.verb = <<"push">> /\ Len(adb.rest) > 1      -> {Last(adb.rest)}
    [] adb.verb = <<"pull">> /\ Len(adb.rest) > 1      -> {Head(adb.rest)}
    [] OTHER                                           -> {}

RECURSIVE SshHostFrom(_, _)
SshHostFrom(parts, i) ==
  IF i > Len(parts) \/ ~Starts(parts[i], "-") THEN {}
  ELSE IF parts[i] = <<"-", "i">>
       THEN (IF i < Len(parts) THEN {parts[i+1]} ELSE {}) \cup SshHostFrom(parts, i + 2)
       ELSE SshHostFrom(parts, i + 1)

SshRemotePaths(parts) ==
  LET host == FirstWord(parts, 2, SshOptions) IN
  IF host = 0 THEN {} ELSE PathLike(SubSeq(parts, host + 1, Len(parts)))

IsRemoteScp(token) ==
  LET colon == First(token, 1, {":"}) IN
  /\ colon > 1 /\ colon <= Len(token)
  /\ LET slash == First(token, 1, {"/"}) IN slash > Len(token) \/ colon < slash

ScpLocalPaths(parts) ==
  {t \in ToSet(Tail(parts)) : ~Starts(t, "-") /\ ~IsRemoteScp(t) /\ LooksLikePath(t)}

ScpRemotePaths(parts) ==
  {SubSeq(t, First(t, 1, {":"}) + 1, Len(t)) :
     t \in {r \in ToSet(Tail(parts)) : ~Starts(r, "-") /\ IsRemoteScp(r)}}

IsRemote(parts) == parts # <<>> /\ Base(parts[1]) \in {<<"adb">>, <<"ssh">>, <<"scp">>}

RemoteHostPaths(parts) ==
  CASE Base(parts[1]) = <<"adb">> -> AdbHostPaths(AdbVerb(parts))
    [] Base(parts[1]) = <<"ssh">> -> SshHostFrom(parts, 2)
    [] OTHER                      -> ScpLocalPaths(parts)

DevicePathsOf(parts) ==
  IF ~IsRemote(parts) THEN {}
  ELSE CASE Base(parts[1]) = <<"adb">> -> AdbDevicePaths(AdbVerb(parts))
         [] Base(parts[1]) = <<"ssh">> -> SshRemotePaths(parts)
         [] OTHER                      -> ScpRemotePaths(parts)

DevicePathsIn(command) == DevicePathsOf(Tokenize(command))

CollectDevicePaths(commands) == UNION {DevicePathsIn(c) : c \in ToSet(commands)}

-----------------------------------------------------------------------------
(* The paths of a command, and whether it is safe.                          *)

AnyRedirection == {">", "<"}

\* Mutant: a redirection is no use of a path.
RECURSIVE CollectWithoutRedirections(_, _)
CollectWithoutRedirections(command, device) ==
  LET parts == Tokenize(command)
      words == {t \in ToSet(Tail(CommandParts(parts).rest)) : IsExplicitPath(t)}
  IN  IF parts = <<>> THEN {}
      ELSE IF IsRemote(parts) THEN RemoteHostPaths(parts)
      ELSE (ExtractShellPaths(command) \cup words) \ (device \cup {DevNull})

RECURSIVE CollectFilePaths(_, _)

\* Those of the commands nested in a text.
CollectNested(text) ==
  UNION {CollectFilePaths(n, CollectDevicePaths(SplitCommands(n))) : n \in NestedFrom(text, 1)}

\* The words behind the program that are paths.
WordPaths(run) ==
  {t \in ToSet(Tail(run.rest)) \ WrapperInterpreter(run.rest, run.cmd) : IsExplicitPath(t)}

\* Those of a command without the bodies of its here-documents.
CollectMasked(masked, run) ==
  ExtractShellPaths(masked) \cup RedirectionTargets(masked, AnyRedirection)
    \cup WordPaths(run) \cup CollectNested(masked)

CollectOf(command, parts, other) ==
  CASE parts = <<>> -> {}
    [] parts # <<>> /\ IsRemote(parts) ->
         RemoteHostPaths(parts) \cup (RedirectionTargets(command, AnyRedirection) \ other)
    [] OTHER -> CollectMasked(MaskHeredocBodies(command), CommandParts(parts)) \ other

CollectFilePaths(command, device) ==
  CollectOf(command, Tokenize(command), device \cup {DevNull})

RECURSIVE IsReadOnly(_)

\* docker exec is as safe as what it runs.
ExecReads(parts, within) ==
  /\ within # 0 /\ within < Len(parts)
  /\ IsReadOnly(Join(SubSeq(parts, within + 1, Len(parts)), <<" ">>))

DockerReads(parts, sub) ==
  /\ sub # 0
  /\ \/ parts[sub] \in DockerReadOnly
     \/ parts[sub] = <<"exec">> /\ ExecReads(parts, FirstWord(parts, sub + 1, {}))

PartsRead(parts, cmd) ==
  /\ parts # <<>> /\ cmd \in ReadOnlyCommands
  /\ IF cmd = <<"docker">> THEN DockerReads(parts, FirstWord(parts, 2, {}))
     ELSE ToSet(Tail(parts)) \cap MutatingFlags = {}

TokensRead(parts) == PartsRead(parts, CommandParts(parts).cmd)

IsReadOnly(command) == TokensRead(Tokenize(command))

\* Values of the variables that are set for the command, or exported by it.
AssignedPaths(tokens) ==
  {SubSeq(t, First(t, 1, {"="}) + 1, Len(t)) :
     t \in {a \in tokens : LET eq == First(a, 1, {"="}) IN
              /\ eq > 1 /\ eq < Len(a) /\ a[eq+1] \in {"/", "~"}
              /\ SubSeq(a, 1, eq - 1) # <<"PATH">>}}

EnvAndExportPaths(parts, rest) ==
  LET set  == {parts[i] : i \in {j \in DOMAIN parts :
                                   \A k \in 1..j : IsEnvAssignment(parts[k])}}
  IN  AssignedPaths(set)
        \cup (IF Base(rest[1]) = <<"export">> THEN AssignedPaths(ToSet(Tail(rest))) ELSE {})

AbsoluteProgramSafe(rest, dirs) ==
  LET command == Join(rest, <<" ">>)  base == Base(rest[1]) IN
  /\ base \in ReadOnlyCommands /\ IsReadOnly(command)
  /\ base = <<"go">> => ToSet(Tail(rest)) \cap GoWritingVerbs = {}
  /\ PathsAllAllowed(RedirectionTargets(command, AnyRedirection) \ {DevNull}, dirs)

PartsSafe(command, parts, rest, device, dirs) ==
  \/ parts = <<>>
  \/ /\ Starts(rest[1], "/") /\ AbsoluteProgramSafe(rest, dirs)
  \/ /\ ~Starts(rest[1], "/")
     /\ PathsAllAllowed(TargetsOf(parts, {">"}) \ (device \cup {DevNull}), dirs)
     /\ TokensRead(parts) \/ PathsAllAllowed(CollectFilePaths(command, device), dirs)
     /\ PathsAllAllowed(EnvAndExportPaths(parts, rest), dirs)

TokensSafe(command, parts, device, dirs) ==
  PartsSafe(command, parts, CommandParts(parts).rest, device, dirs)

IsSubcommandSafe(command, device, dirs) == TokensSafe(command, Tokenize(command), device, dirs)

ProblematicOf(commands, device, dirs) ==
  {c \in ToSet(commands) : ~IsSubcommandSafe(c, device, dirs)}

ProblematicIn(commands, dirs) == ProblematicOf(commands, CollectDevicePaths(commands), dirs)

Problematic(text, dirs) == ProblematicIn(SplitCommands(text), dirs)

FilesystemSafe(text, dirs) == Problematic(text, dirs) = {}

\* What a problematic command is asked for, and granted when the user allows it.
CollectShellPaths(command) == CollectFilePaths(command, CollectDevicePaths(SplitCommands(command)))

-----------------------------------------------------------------------------
(* What must hold of every text.                                            *)

\* The program itself, or a variable, may be what is not safe.
Explained(parts, rest) == Starts(rest[1], "/") \/ EnvAndExportPaths(parts, rest) # {}

ExplainedBy(parts) == Explained(parts, CommandParts(parts).rest)

\* A command is safe in the directories that the question about it would grant.
GrantsSuffice(text, dirs) ==
  \A c \in Problematic(text, dirs) :
     \/ ExplainedBy(Tokenize(c))
     \/ FilesystemSafe(c, dirs \cup {ResolvePath(p) : p \in CollectShellPaths(c)})

\* What is safe stays safe when more is allowed.
SafeStaysSafe(text, dirs, more) == Problematic(text, dirs \cup more) \subseteq Problematic(text, dirs)

\* Of a transfer that ends with a path, each path is checked on one side only.
OneSide(text) ==
  \A c \in ToSet(SplitCommands(text)) :
     LET parts == Tokenize(c)
         distinct == Cardinality(ToSet(parts)) = Len(parts)
     IN  IsRemote(parts) /\ IsPathArg(Last(parts)) /\ distinct
           => RemoteHostPaths(parts) \cap DevicePathsIn(c) = {}
=============================================================================
