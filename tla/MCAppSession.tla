----------------------------- MODULE MCAppSession ----------------------------
(***************************************************************************)
(* Instances of AppSession: a free call, one that prompts, and one whose   *)
(* arguments throw.                                                        *)
(***************************************************************************)
EXTENDS AppSession

CallOf(id, tool, odd) == [id |-> id, tool |-> tool, details |-> <<>>, odd |-> odd]

Free  == CallOf("c1", "read_file", FALSE)
Asked == CallOf("c2", "run_bash", FALSE)

MCCalls == {Free, Asked}
MCReplies == {<<Asked>>}
MCTools == {"read_file", "run_bash"}
MCGated == {"run_bash"}
MCPolicy == MakePolicy(<<>>, <<>>)
==============================================================================
