----------------------------- MODULE MCAgentLoop -----------------------------
(***************************************************************************)
(* An instance of AgentLoop with one call of every kind the gate tells     *)
(* apart: ungated, prompted for, denied by a rule, allowed by a rule, and  *)
(* unknown; and one of every kind whose odd arguments throw or do not.     *)
(***************************************************************************)
EXTENDS AgentLoop, SequencesExt

CallOf(id, tool, details, odd) ==
  [id |-> id, tool |-> tool, details |-> details, odd |-> odd]

Asked   == CallOf("c2", "run_bash", <<"make">>, FALSE)
Barred  == CallOf("c1", "run_bash", <<"rm">>, FALSE)
Trusted == CallOf("c2", "write_file", <<"path:">>, FALSE)
Missing == CallOf("c1", "format_disk", <<>>, FALSE)
OddFree == CallOf("c1", "read_file", <<>>, TRUE)
OddEdit == CallOf("c1", "write_file", <<"path:">>, TRUE)
OddMcp  == CallOf("c2", "mcp_tool", <<>>, TRUE)

MCCalls == {Asked, Barred, Trusted, Missing, OddFree, OddEdit, OddMcp}
MCReplies == {<<Asked, Barred>>, <<Missing, Trusted>>, <<OddMcp, OddFree>>, <<OddEdit>>}
MCTools == {"read_file", "run_bash", "write_file", "mcp_tool"}
MCGated == {"run_bash", "write_file", "mcp_tool"}
MCLenient == {"mcp_tool"}
MCPreviewed == {"write_file"}

MCPolicy ==
  MakePolicy(<<[tool |-> "write_file", hasPrefix |-> FALSE, prefix |-> <<>>]>>,
             <<[tool |-> "run_bash", hasPrefix |-> TRUE, prefix |-> <<"rm">>]>>)
==============================================================================
