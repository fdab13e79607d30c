--------------------------------- MODULE MCExec ---------------------------------
(* Exec for TLC: a name is a sequence of model values.  Without a separator  *)
(* profile xx's token x and profile x's token xx would be one item.          *)
EXTENDS ExecProofs, TLC

CONSTANTS c1, c2, c3, v1, v2, x, d

Key(service, profile, name) == [service |-> service, profile |-> profile, name |-> name]
DefaultProfile == <<d>>
Left == Key("tokens", <<x, x>>, <<x>>)
Right == Key("tokens", <<x>>, <<x, x>>)
Bootstrap == Key("bootstrap", <<x>>, NoName)
SomeKeys == {Left, Right, Bootstrap}

Ask(kind, key, data) == [kind |-> kind, key |-> key, data |-> data]
SomeAsks ==
  {Ask("set", Left, v1), Ask("set", Right, v2), Ask("set", Bootstrap, v1),
   Ask("delete", Left, v1), Ask("delete", Bootstrap, v1), Ask("list", Bootstrap, v1),
   Ask("get", Left, v1)}

AnEnvironment == [name : {EnvName, "HOME"}, value : Values \cup {"other"}]
Token(w) == [name |-> EnvName, value |-> w]
Home == [name |-> "HOME", value |-> "other"]
SomeCommands == {<<>>, <<"terraform">>}
Asked(before, dash, argv, env) ==
  [before |-> before, dash |-> dash, argv |-> argv, env |-> env]
SomeInvocations ==
  {Asked(1, TRUE, <<"terraform">>, <<Home>>),
   Asked(1, TRUE, <<"terraform">>, <<Token("other"), Home, Token("other")>>),
   Asked(1, TRUE, <<>>, <<Home>>)}
=================================================================================
