---------------------------- MODULE MCChatStream ----------------------------
(***************************************************************************)
(* ChatStream with a server that writes every kind of line: text, an empty *)
(* text with the reason the reply ends, reasoning with the usage, the end  *)
(* mark, fragments of two calls in either order, and a line to be skipped. *)
(***************************************************************************)
EXTENDS ChatStream

MCNames == {"", "a", "b", "tool", "stop", "tool_calls"}

\* The first fragment of a call has its name; more of its arguments may follow.
MCLines ==
  [word \in (0..MaxRounds) \X (0..MaxTraffic) |->
     LET first == Fragment(0, <<"a">>, <<"tool">>, << <<word>> >>)
         second == Fragment(2, <<"b">>, <<"tool">>, <<>>)
         more == Fragment(0, <<>>, <<>>, << <<word>> >>)
     IN  {Content(<<word>>),
          [Content(<<>>) EXCEPT !.finish = <<"stop">>],
          [Reasoning(<<word>>) EXCEPT !.usage = <<word[2]>>],
          [Fragments(<<first>>) EXCEPT !.content = << <<word>> >>],
          [Fragments(<<second, more>>) EXCEPT !.finish = <<"tool_calls">>],
          Done, Silence}]
=============================================================================
