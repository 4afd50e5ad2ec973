----------------------------- MODULE MCConsent -----------------------------
(* Instances of Consent for TLC: two directories outside the process's own. *)
EXTENDS Consent

MCCwd == <<"home">>
MCDirs == {<<>>, <<"home">>, <<"work">>, <<"work", "sub">>}
MCNewDirs == {<<"work">>}
File(names) == [rel |-> FALSE, names |-> names]
Here(names) == [rel |-> TRUE, names |-> names]
Call(tool, paths, kind, verdict) ==
  [tool |-> tool, paths |-> paths, kind |-> kind, verdict |-> verdict]
Outside == Call("edit", <<File(<<"work", "new", "f">>)>>, "plain", "ask")
Nearby == Call("edit", <<Here(<<"f">>)>>, "plain", "deny")
MCCalls == {
  Outside, Nearby,
  Call("bash", <<File(<<"work", "sub", "g">>), File(<<"etc">>)>>, "plain", "ask"),
  Call("bash", <<>>, "critical", "allow"), Call("bash", <<>>, "plain", "deny") }
CONSTANTS p, q, a, b
Setting(owner_of_b, of_a, of_b, made, disturbances) ==
  [owner |-> (a :> p) @@ (b :> owner_of_b), calls |-> (a :> of_a) @@ (b :> of_b),
   made |-> made, events |-> disturbances]
MCApart == {
  Setting(q, 2, 0, MCCalls, 1), Setting(q, 1, 0, {Outside}, 3),
  Setting(q, 1, 1, {Outside}, 1) }

=============================================================================
