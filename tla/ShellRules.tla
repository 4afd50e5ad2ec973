----------------------------- MODULE ShellRules -----------------------------
(***************************************************************************)
(* What the permission gate says of a shell command: the rules of the      *)
(* agent, the commands that are always confirmed, and what an answer       *)
(* "always" adds to the rules (pkg/permission, pkg/agentpolicy and the     *)
(* gate in pkg/agent/tool_executor.go).                                    *)
(***************************************************************************)
EXTENDS ShellPaths

Rule(permission, pattern, action) ==
  [permission |-> permission, pattern |-> pattern, action |-> action]

Bash == <<"bash">>

\* The last rule that matches decides; without one the user is asked.
Evaluate(permission, pattern, rules) ==
  LET fits == {i \in DOMAIN rules : /\ Match(permission, rules[i].permission)
                                    /\ Match(pattern, rules[i].pattern)}
  IN  IF fits = {} THEN "ask" ELSE rules[Max(fits)].action

Merge(rules, more) == rules \o more

Approve(rules, permission, pattern) ==
  Merge(rules, <<Rule(permission, pattern, "allow")>>)

\* One rule for each tool of the agent's configuration but "*", in any order.
Rulesets(policy) ==
  {[i \in DOMAIN order |-> Rule(order[i], <<"*">>, policy[order[i]])] :
     order \in SetToSeqs(DOMAIN policy \ {<<"*">>})}

-----------------------------------------------------------------------------
(* Commands that are confirmed whatever the rules say.                      *)

Home == <<"/", "root">>

IsDestructivePath(path) ==
  \/ path \in {<<"/">>, <<"~">>} \/ IsPrefix(<<"~", "/">>, path)
  \/ path = Home \/ IsPrefix(Home \o <<"/">>, path)

HasDestructiveTarget(args) == \E a \in ToSet(args) : ~Starts(a, "-") /\ IsDestructivePath(a)

IsDevice(path) == \E d \in {"dev", "proc", "sys"} : IsPrefix(<<"/", d, "/">>, path)

IsForcePush(args) ==
  \E i \in DOMAIN args : /\ args[i] = <<"push">>
                         /\ \E j \in (i+1)..Len(args) : args[j] \in {<<"-", "f">>, <<"-", "-", "force">>}

MatchCritical(cmd, args) ==
  LET all == ToSet(args) IN
  CASE cmd = <<"rm">> -> IF all \cap {<<"-", "rf">>, <<"-", "r">>} # {} /\ HasDestructiveTarget(args)
                         THEN {"rm-recursive-root"} ELSE {}
    [] cmd = <<"mkfs">> -> {"mkfs"}
    [] cmd = <<"dd">> -> IF \E a \in all : IsPrefix(<<"of", "=">>, a) /\ IsDevice(SubSeq(a, 3, Len(a)))
                         THEN {"dd-device"} ELSE {}
    [] cmd = <<"shred">> -> IF \E a \in all : IsDevice(a) THEN {"shred-device"} ELSE {}
    [] cmd = <<"chmod">> -> IF /\ \E a \in all : Starts(a, "-") /\ At(a, 2) = "r"
                               /\ <<"777">> \in all /\ HasDestructiveTarget(args)
                            THEN {"chmod-777-root"} ELSE {}
    [] cmd = <<"git">> -> IF IsForcePush(args) THEN {"force-push"} ELSE {}
    [] cmd = <<"systemctl">> -> {"systemctl"}
    [] OTHER -> {}

Dangers(tokens) ==
  IF tokens = <<>> THEN {}
  ELSE IF Base(tokens[1]) \in CwdCommands THEN {}
       ELSE MatchCritical(Base(tokens[1]), Tail(tokens))

CheckCritical(text) == UNION {Dangers(Tokenize(p)) : p \in ToSet(SplitCommands(text))}

-----------------------------------------------------------------------------
(* The gate.                                                                *)

\* What the rules say of a command, each of whose patterns has an action.
ByRules(text, actions, dirs) ==
  CASE actions = {}        -> "allow"
    [] "deny" \in actions  -> "deny"
    [] actions = {"allow"} -> "allow"
    [] OTHER               -> IF FilesystemSafe(text, dirs) THEN "allow" ELSE "ask"

\* checkShellPermission: what becomes of a command before anyone is asked.
GatePatterns(text, patterns, rules, dirs) ==
  IF patterns # {} /\ CheckCritical(text) # {} THEN "critical"
  ELSE ByRules(text, {Evaluate(Bash, p, rules) : p \in patterns}, dirs)

ShellGate(text, rules, dirs) == GatePatterns(text, ScanCommand(text).patterns, rules, dirs)

\* askShellPermission: the rules after the answer "always".
AnswerAlways(text, rules) ==
  FoldLeft(LAMBDA rs, pattern : Approve(rs, Bash, pattern),
           rules, SetToSeq(ScanCommand(text).always))

-----------------------------------------------------------------------------
(* What must hold of every text.                                            *)

Plain(text) ==  \* one line, single blanks, nothing nested
  /\ NL \notin ToSet(text) /\ NestedFrom(text, 1) = {}
  /\ \A p \in ToSet(SplitCommands(text)) : Join(Tokenize(p), <<" ">>) = p

\* A command that the user has answered "always" for is not asked for again.  An agent
\* without any rule has a nil pointer for them, which Approve does not survive.
AlwaysSettles(text, rules, dirs) ==
  rules # <<>> /\ ShellGate(text, rules, dirs) = "ask" /\ Plain(text)
    => ShellGate(text, AnswerAlways(text, rules), dirs) = "allow"
=============================================================================
