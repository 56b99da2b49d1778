----------------------------- MODULE ChatStream -----------------------------
(***************************************************************************)
(* A reply on its way to the screen: the server's bytes, libcurl's write   *)
(* callback and the parser (ApiClient::chat, StreamParser::feed), the      *)
(* events of the worker (App::submit), and the UI thread that drains them  *)
(* into the chat view (App::drain_events).  Two threads share the queue;   *)
(* the server is not part of the program.                                  *)
(*                                                                         *)
(* What the worker does between two replies, and the commands of the UI    *)
(* thread, are AgentLoop's and AppSession's: here a tool call is the two   *)
(* events it posts, and the user may send a message, cancel, fold and      *)
(* clear.  A word carries the round it is of.                              *)
(***************************************************************************)
EXTENDS StreamParser, ChatView, FiniteSets

CONSTANTS
  Names,        \* identifiers and names of tools, and finish reasons
  Lines,        \* Lines[<<r, k>>]: what the server may write as its line k, in round r
  Parts,        \* pieces of a line's text
  MaxRounds,    \* max_tool_iterations
  WireSize,     \* bound: pieces the network holds
  MaxTurns,     \* bound: messages sent
  MaxTabs,      \* bound: uses of Tab
  MaxTraffic    \* bound: messages and lines sent, together

\* The text of a round: words that carry it.
TextsOf(r) == Seq({r} \X Nat)

ASSUME LinesAssumption ==
  /\ "" \in Names
  /\ \A r \in 0..MaxRounds, k \in 0..MaxTraffic :
       Lines[<<r, k>>] \subseteq Written(TextsOf(r), Names)

ASSUME StreamAssumption ==
  /\ Parts \in Nat \ {0} /\ MaxRounds \in Nat \ {0} /\ WireSize \in Nat
  /\ MaxTurns \in Nat /\ MaxTabs \in Nat /\ MaxTraffic \in Nat

VARIABLES
  up,       \* the connection: none, open, ended by the server, or broken
  status,   \* the HTTP status of the reply
  wire,     \* bytes the client has not received
  phase,    \* the worker: idle, asking, transfer, calls, posted (its last event)
  parser,   \* the round's StreamParser
  round,    \* rounds of this turn
  calls,    \* tool calls of the round that are left
  queue,    \* App::events_
  ui,       \* App's chat_, thinking_idx_, content_idx_ (0: none) and busy_
  cancel,   \* App::cancel_requested_
  turns,    \* messages sent
  sent,     \* history: whole lines the server has sent, in all
  reply,    \* history: those of this round
  rounds,   \* history: what the parser made of the earlier rounds of this turn
  start,    \* history: the entry of this turn's message, 0 when it was cleared
  tabs      \* uses of Tab

netVars == <<up, status, wire>>
workVars == <<phase, parser, round, calls>>
logVars == <<sent, reply, rounds, start, tabs>>
vars == <<netVars, workVars, queue, ui, cancel, turns, logVars>>

Statuses == {200, 302, 500}

Event(type, text) == [type |-> type, text |-> text]

Init ==
  /\ up = "none" /\ status = 200 /\ wire = <<>>
  /\ phase = "idle" /\ parser = NewParser /\ round = 0 /\ calls = 0
  /\ queue = <<>> /\ cancel = FALSE /\ turns = 0
  /\ ui = [chat_ |-> add_preformatted(EmptyView, <<"banner">>), thinking_idx_ |-> 0,
           content_idx_ |-> 0, busy_ |-> FALSE]
  /\ sent = 0 /\ reply = <<>> /\ rounds = <<>> /\ start = 0 /\ tabs = 0

-----------------------------------------------------------------------------
(* The server.                                                              *)

\* Of an error page it does not matter what it says.
Page == Content(<< <<round, sent>> >>)
Says == IF status = 200 THEN Lines[<<round, sent>>] ELSE {Page}

ServerSends ==
  /\ phase = "transfer" /\ up = "open" /\ sent + turns < MaxTraffic
  /\ Len(wire) + Parts + 1 <= WireSize
  /\ \E line \in Says :
       /\ wire' = wire \o Bytes(line, Parts)
       /\ reply' = Append(reply, line)
  /\ sent' = sent + 1
  /\ UNCHANGED <<up, status, workVars, queue, ui, cancel, turns, rounds, start, tabs>>

\* The reply ends, or the connection breaks; the last line may lack its newline.
ServerEnds ==
  /\ phase = "transfer" /\ up = "open"
  /\ up' \in {"ended", "broken"}
  /\ \/ wire' = wire
     \/ wire' = wire \o SubSeq(Bytes(Page, Parts), 1, Parts)
  /\ UNCHANGED <<status, workVars, queue, ui, cancel, turns, logVars>>

-----------------------------------------------------------------------------
(* The worker.                                                              *)

\* The worker's last event, after which App::drain_events joins it.
Post(event) ==
  /\ queue' = Append(queue, event)
  /\ phase' = "posted"

\* One round: the cancel flag is looked at before the request is sent.
BeginRound ==
  /\ phase = "asking"
  /\ IF cancel THEN Post(Event("Canceled", <<>>)) /\ UNCHANGED <<netVars, parser, round, reply>>
     ELSE IF round = MaxRounds
       THEN Post(Event("Error", <<>>)) /\ UNCHANGED <<netVars, parser, round, reply>>
     ELSE /\ phase' = "transfer"
          /\ round' = round + 1
          /\ parser' = NewParser /\ reply' = <<>>
          /\ up' = "open" /\ status' \in Statuses /\ wire' = <<>>
          /\ UNCHANGED queue
  /\ UNCHANGED <<calls, ui, cancel, turns, sent, rounds, start, tabs>>

\* write_cb, with any number of the bytes that have arrived: an error status keeps
\* them for the message, any other feeds the parser, whose callbacks post events.
Receive ==
  /\ phase = "transfer"
  /\ \E n \in 1..Len(wire) :
       /\ wire' = SubSeq(wire, n + 1, Len(wire))
       /\ IF status >= 400 THEN UNCHANGED <<parser, queue>>
          ELSE LET fed == feed(parser, SubSeq(wire, 1, n))
               IN  /\ parser' = [fed EXCEPT !.heard = <<>>]
                   /\ queue' = queue \o fed.heard
  /\ UNCHANGED <<up, status, phase, round, calls, ui, cancel, turns, logVars>>

\* The parser goes with the call of chat(); what it has made is the round's result.
Closed ==
  /\ up' = "none" /\ status' = 200 /\ wire' = <<>>
  /\ parser' = NewParser /\ reply' = <<>>
  /\ rounds' = Append(rounds, [content |-> parser.content, reasoning |-> parser.reasoning])

\* CURLE_OK and a status in the two hundreds.
Outcome == up = "ended" /\ status \in 200..299

\* curl_easy_perform returns.
EndTransfer ==
  /\ phase = "transfer"
  /\ up # "open" /\ wire = <<>>
  /\ Closed
  /\ IF ~Outcome THEN Post(Event("Error", <<>>)) /\ UNCHANGED calls
     ELSE IF parser.tools = <<>> THEN Post(Event("Done", <<>>)) /\ UNCHANGED calls
     ELSE /\ phase' = "calls"
          /\ calls' = Len(tool_calls(parser))
          /\ UNCHANGED queue
  /\ UNCHANGED <<round, ui, cancel, turns, sent, start, tabs>>

\* The progress callback sees the cancel flag.
Abort ==
  /\ phase = "transfer" /\ cancel
  /\ Closed
  /\ Post(Event("Canceled", <<>>))
  /\ UNCHANGED <<round, calls, ui, cancel, turns, sent, start, tabs>>

\* One tool call: it is announced, then its result is.
RunCall ==
  /\ phase = "calls"
  /\ queue' = queue \o <<Event("ToolInfo", <<>>), Event("ToolResult", << <<round, 0>> >>)>>
  /\ calls' = calls - 1
  /\ phase' = IF calls = 1 THEN "asking" ELSE "calls"
  /\ UNCHANGED <<netVars, parser, round, ui, cancel, turns, logVars>>

-----------------------------------------------------------------------------
(* The UI thread.                                                           *)

Folded(u) ==
  IF u.thinking_idx_ = 0 THEN u.chat_ ELSE set_collapsed(u.chat_, u.thinking_idx_, TRUE)

ShowReasoning(u, text) ==
  LET v == IF u.thinking_idx_ = 0 THEN add_thinking(u.chat_) ELSE u.chat_
      i == IF u.thinking_idx_ = 0 THEN Len(v.entries) ELSE u.thinking_idx_
  IN  [u EXCEPT !.chat_ = append_to(v, i, text), !.thinking_idx_ = i]

ShowDelta(u, text) ==
  LET v == IF u.content_idx_ = 0 THEN add(Folded(u), "* ", <<>>) ELSE u.chat_
      i == IF u.content_idx_ = 0 THEN Len(v.entries) ELSE u.content_idx_
  IN  [u EXCEPT !.chat_ = append_to(v, i, text), !.content_idx_ = i]

\* A mistake: a tool's entries leave the answer entry of the round before current.
ShowTool_KeepsEntry(u, event) ==
  [u EXCEPT !.chat_ = IF event.type = "ToolInfo" THEN add(@, "", event.text)
                      ELSE add_tool_output(@, event.text)]

\* A later answer starts a fresh entry.
ShowTool(u, event) ==
  [u EXCEPT !.chat_ = IF event.type = "ToolInfo" THEN add(@, "", event.text)
                      ELSE add_tool_output(@, event.text),
            !.content_idx_ = 0]

\* A mistake: an error is shown, and the turn stays open.
ShowEnd_ErrorStaysBusy(u, event) ==
  CASE event.type = "Done" -> [u EXCEPT !.chat_ = Folded(u), !.busy_ = FALSE]
    [] event.type = "Canceled" -> [u EXCEPT !.chat_ = add(Folded(u), "", <<>>), !.busy_ = FALSE]
    [] event.type = "Error" -> [u EXCEPT !.chat_ = add(@, "error", <<>>)]

ShowEnd(u, event) ==
  CASE event.type = "Done" -> [u EXCEPT !.chat_ = Folded(u), !.busy_ = FALSE]
    [] event.type = "Canceled" -> [u EXCEPT !.chat_ = add(Folded(u), "", <<>>), !.busy_ = FALSE]
    [] event.type = "Error" -> [u EXCEPT !.chat_ = add(@, "error", <<>>), !.busy_ = FALSE]

\* One event, as the switch of drain_events handles it.
Show(u, event) ==
  CASE event.type = "Reasoning" -> ShowReasoning(u, event.text)
    [] event.type = "Delta" -> ShowDelta(u, event.text)
    [] event.type \in {"ToolInfo", "ToolResult"} -> ShowTool(u, event)
    [] event.type \in {"Done", "Canceled", "Error"} -> ShowEnd(u, event)

Joins(event) == event.type \in {"Done", "Canceled", "Error"}

\* A mistake: what was pushed last is shown first.
DrainEvents_Lifo ==
  /\ queue # <<>>
  /\ ui' = FoldLeft(Show, ui, Reverse(queue))
  /\ queue' = <<>>
  /\ phase' = IF \E i \in DOMAIN queue : Joins(queue[i]) THEN "idle" ELSE phase
  /\ UNCHANGED <<netVars, parser, round, calls, cancel, turns, logVars>>

\* All that is in the queue is drained in one go, between two keys.
DrainEvents ==
  /\ queue # <<>>
  /\ ui' = FoldLeft(Show, ui, queue)
  /\ queue' = <<>>
  /\ phase' = IF \E i \in DOMAIN queue : Joins(queue[i]) THEN "idle" ELSE phase
  /\ UNCHANGED <<netVars, parser, round, calls, cancel, turns, logVars>>

\* A mistake: the entries of the last turn stay current.
submit_KeepsEntries ==
  /\ ~ui.busy_ /\ turns < MaxTurns
  /\ ui' = [ui EXCEPT !.chat_ = add(@, "> ", <<>>), !.busy_ = TRUE]
  /\ cancel' = FALSE /\ phase' = "asking" /\ round' = 0 /\ turns' = turns + 1
  /\ rounds' = <<>> /\ start' = Len(ui'.chat_.entries)
  /\ UNCHANGED <<netVars, parser, calls, queue, sent, reply, tabs>>

\* App::submit.
submit ==
  /\ ~ui.busy_ /\ turns < MaxTurns
  /\ ui' = [chat_ |-> add(ui.chat_, "> ", <<>>), thinking_idx_ |-> 0, content_idx_ |-> 0,
            busy_ |-> TRUE]
  /\ cancel' = FALSE /\ phase' = "asking" /\ round' = 0 /\ turns' = turns + 1
  /\ rounds' = <<>> /\ start' = Len(ui'.chat_.entries)
  /\ UNCHANGED <<netVars, parser, calls, queue, sent, reply, tabs>>

Esc ==
  /\ ui.busy_
  /\ cancel' = TRUE
  /\ ui' = IF cancel THEN ui ELSE [ui EXCEPT !.chat_ = add(@, "", <<>>)]
  /\ UNCHANGED <<netVars, workVars, queue, turns, logVars>>

\* Tab is taken at any time; it does nothing while there is nothing to fold.
Tab ==
  /\ tabs < MaxTabs
  /\ \E i \in DOMAIN ui.chat_.entries : Collapsible(ui.chat_.entries[i])
  /\ ui' = [ui EXCEPT !.chat_ = toggle_last_collapsible(@)]
  /\ tabs' = tabs + 1
  /\ UNCHANGED <<netVars, workVars, queue, cancel, turns, sent, reply, rounds, start>>

\* /clear: what it does to the agent is AppSession's.
Clear ==
  /\ ~ui.busy_
  /\ ui' = [ui EXCEPT !.chat_ = clear(@)]
  /\ start' = 0
  /\ UNCHANGED <<netVars, workVars, queue, cancel, turns, sent, reply, rounds, tabs>>

Next ==
  \/ ServerSends \/ ServerEnds
  \/ BeginRound \/ Receive \/ EndTransfer \/ Abort \/ RunCall
  \/ DrainEvents \/ submit \/ Esc \/ Tab \/ Clear

Spec == Init /\ [][Next]_vars

-----------------------------------------------------------------------------
TypeOK ==
  /\ up \in {"none", "open", "ended", "broken"} /\ status \in Statuses
  /\ phase \in {"idle", "asking", "transfer", "calls", "posted"}
  /\ round \in 0..MaxRounds /\ calls \in Nat
  /\ (phase = "calls") = (calls > 0)
  /\ ui.busy_ = (phase # "idle")
  /\ ui.chat_.scroll = 0
  /\ \A i \in DOMAIN queue : queue[i].type \in
       {"Delta", "Reasoning", "ToolInfo", "ToolResult", "Done", "Canceled", "Error"}

\* "Safe to call repeatedly with any byte boundaries" (ChatResponse.hpp:29): wherever
\* the network cuts the stream, the parser has what the whole lines received so far
\* say, with the fragments of the tool calls put together by their index, and no line
\* is used twice, dropped or read before its end (ChatResponse.cpp:26-51).
ParsedWhole ==
  phase = "transfer" /\ status < 400 =>
    LET said == Reply(SubSeq(reply, 1, Len(reply) - Newlines(wire)))
    IN  \A field \in DOMAIN said : parser[field] = said[field]

IsAnswer(entry) == entry.speaker = "* "
IsThinking(entry) == entry.kind = "Thinking"

\* The texts of this turn's entries of a kind, and of the queued events of a type, joined.
Shown(Test(_)) ==
  LET entries == ui.chat_.entries
  IN  FlattenSeq([i \in DOMAIN entries |->
                    IF i > start /\ Test(entries[i]) THEN entries[i].text ELSE <<>>])

Queued(type) ==
  FlattenSeq([i \in DOMAIN queue |-> IF queue[i].type = type THEN queue[i].text ELSE <<>>])

\* What the parsers of this turn have made.
Made(Field(_)) ==
  FlattenSeq([i \in DOMAIN rounds |-> Field(rounds[i])])
    \o (IF phase = "transfer" THEN Field(parser) ELSE <<>>)

\* Nothing of a reply is lost, repeated or swapped on its way through the queue: the
\* answer's text on the screen, followed by what is queued, is the text the parser has
\* made of this turn's rounds, and so is the reasoning's, also when the turn is
\* cancelled or fails half-way (App.cpp:212-234, 382-405).
TextConserved ==
  start # 0 =>
    /\ Shown(IsAnswer) \o Queued("Delta") = Made(LAMBDA p : p.content)
    /\ Shown(IsThinking) \o Queued("Reasoning") = Made(LAMBDA p : p.reasoning)

RoundsOf(entry) == {entry.text[k][1] : k \in DOMAIN entry.text}

\* An answer entry holds the text of one round, and answers and tool results stand on
\* the screen in the order of their rounds (App.cpp:398-405).
RoundsInOrder ==
  start # 0 =>
    LET entries == ui.chat_.entries
        shown == {i \in DOMAIN entries :
                    i > start /\ (IsAnswer(entries[i]) \/ entries[i].kind = "Tool")}
    IN  \A i, j \in shown : \A r \in RoundsOf(entries[i]), s \in RoundsOf(entries[j]) :
          (i = j => r = s) /\ (i < j => r <= s)

\* While a turn runs, the indices the view is written through are of entries of this
\* turn and of their kind, whatever was cleared before it (App.cpp:207-208, 388-396).
IndicesOfTurn ==
  ui.busy_ =>
    /\ ui.thinking_idx_ # 0 =>
         ui.thinking_idx_ > start /\ IsThinking(ui.chat_.entries[ui.thinking_idx_])
    /\ ui.content_idx_ # 0 =>
         ui.content_idx_ > start /\ IsAnswer(ui.chat_.entries[ui.content_idx_])

=============================================================================
