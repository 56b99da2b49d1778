---------------------------- MODULE MCGatedEdits ----------------------------
(***************************************************************************)
(* Small texts for GatedEdits: one with and one without its last newline,  *)
(* two equal lines, enough lines that context is left out and that a       *)
(* preview is too large.  The rules: bare tools, a prefix, a longer one,   *)
(* a path as confirm_details writes it and as a user would, the empty      *)
(* prefix, a rule without a tool and the empty rule.                       *)
(***************************************************************************)
EXTENDS GatedEdits

Bare(tool) == [tool |-> tool, hasPrefix |-> FALSE, prefix |-> <<>>]
Prefixed(tool, prefix) == [tool |-> tool, hasPrefix |-> TRUE, prefix |-> prefix]

MCRules ==
  {EmptyRule, Bare("write_file"), Prefixed("write_file", <<"path:">>),
   Prefixed("write_file", <<"path:", "f">>), Prefixed("write_file", <<"f">>),
   Prefixed("", <<"path:">>)}

MCToolNames == {"write_file", "str_replace"}
MCDetails == {<<>>, <<"path:">>, <<"path:", "f">>, <<"f">>}

MCPaths == {NoPath, "f"}
MCContents ==
  {<<>>, <<"a">>, <<"a", Newline>>, <<"a", Newline, "a", Newline>>,
   <<"a", Newline, "b", Newline, "b", Newline>>}
MCOldStrs == {<<>>, <<"a">>, <<"b", Newline>>, <<Newline, "a">>}
MCNewStrs == {<<>>, <<"b", Newline, "b">>}
=============================================================================
