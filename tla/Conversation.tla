---------------------------- MODULE Conversation ----------------------------
(***************************************************************************)
(* The message history (src/src/llm/Message.hpp) that Agent owns and sends *)
(* to the server with every request.                                       *)
(*                                                                         *)
(* A text is a natural number: 0 is the empty string, and n > 0 the text   *)
(* the assistant produced in turn n (the configured system prompt is some  *)
(* other number).  That is all the properties need: whether a text is      *)
(* empty, and which turn it comes from.                                    *)
(***************************************************************************)
LOCAL INSTANCE Naturals
LOCAL INSTANCE Sequences

Roles == {"system", "user", "assistant", "tool"}

\* What a tool result says: the tool does not exist, the user or the policy
\* declined it, it ran and succeeded or failed, or it ran and its output is not
\* valid UTF-8.
Results == {"unknown", "declined", "ok", "failed", "mangled"}

NoId == ""
NoResult == "none"

\* Message::system, Message::user, Message::assistant.
Plain(role, text) ==
  [role |-> role, text |-> text, calls |-> <<>>, id |-> NoId, result |-> NoResult]

\* The assistant message that requests tool calls.
Requesting(text, calls) ==
  [role |-> "assistant", text |-> text, calls |-> calls, id |-> NoId, result |-> NoResult]

\* Message::tool_result.
Answer(id, result) ==
  [role |-> "tool", text |-> 0, calls |-> <<>>, id |-> id, result |-> result]

\* The history Agent::reset leaves: the system prompt, if there is one.
Seed(prompt) == IF prompt = 0 THEN <<>> ELSE <<Plain("system", prompt)>>

\* The history Agent::compact_into_summary leaves.
Summarised(prompt, summary) == Append(Seed(prompt), Plain("system", summary))

-----------------------------------------------------------------------------
\* Message j after message i of h answers the j-th call of message i.
Answers(h, i, j) ==
  /\ i + j \in DOMAIN h
  /\ h[i + j].role = "tool"
  /\ h[i + j].id = h[i].calls[j].id

\* Every tool call of h is followed by its result, in the order of the calls,
\* and every result answers a call: the shape a chat server accepts.
Paired(h) ==
  /\ \A i \in DOMAIN h : \A j \in DOMAIN h[i].calls : Answers(h, i, j)
  /\ \A n \in DOMAIN h : h[n].role = "tool" =>
       \E i \in 1..(n - 1) : n - i \in DOMAIN h[i].calls

OnlySystem(h) == \A i \in DOMAIN h : h[i].role = "system" /\ h[i].calls = <<>>
=============================================================================
