----------------------------- MODULE AgentLoop ------------------------------
(***************************************************************************)
(* One conversation of Agent (src/src/agent/Agent.cpp) as the worker       *)
(* thread of App::submit drives it: Agent::send, run_tool_loop,            *)
(* ConfirmGate::allow, the outcomes of ApiClient::chat, and the events the *)
(* callbacks push.  The server, the tools' effects and the user are        *)
(* nondeterministic; so is the thread that consumes the events, which      *)
(* AppSession replaces by the real one.                                    *)
(***************************************************************************)
EXTENDS Naturals, Sequences, FiniteSets, ConfirmRules, Conversation

CONSTANTS
  Calls,         \* the tool calls a reply may hold: [id, tool, details, odd];
                 \* odd: the arguments are JSON but not an object of strings
  Replies,       \* the lists of tool calls one reply may hold
  Tools,         \* the names of the registered tools
  Gated,         \* those whose requires_confirmation() is true
  Previewed,     \* those whose confirm_details() reads the arguments' fields
  Lenient,       \* those whose execute() passes the arguments on unread
  Policy,        \* what makeConfirmPolicy built from the configuration
  HasConfirmer,  \* whether the gate was given a confirmer
  MaxIters,      \* max_tool_iterations
  ToolResults,   \* what the tools of this run may return
  Usages,        \* the total_tokens a server may report; 0 when it reports none
  OddChunks,     \* whether the server may send a usage count that is no number
  Models,        \* names for /model
  FirstModel,    \* the configured model
  SystemPrompt,  \* the configured system prompt, 0 when there is none
  MaxPieces,     \* bound: pieces streamed per round
  MaxTurns       \* bound: turns started

ConfirmChoices == {"Yes", "No", "Always"}

EventTypes == {"Delta", "Reasoning", "ToolInfo", "ToolResult", "ConfirmRequest",
               "Done", "Canceled", "Error"}

FinalTypes == {"Done", "Canceled", "Error"}

ASSUME CallsAssumption ==
  Calls \subseteq [id : STRING, tool : STRING, details : Seq(STRING), odd : BOOLEAN]
ASSUME RepliesAssumption == Replies \subseteq Seq(Calls) \ {<<>>}
ASSUME ToolsAssumption ==
  /\ Tools \subseteq STRING
  /\ Gated \subseteq Tools
  /\ Previewed \subseteq Gated
  /\ Lenient \subseteq Tools
ASSUME LimitsAssumption ==
  /\ MaxIters \in Nat \ {0}
  /\ MaxPieces \in Nat
  /\ MaxTurns \in Nat
ASSUME ServerAssumption ==
  /\ ToolResults \subseteq Results
  /\ Usages \subseteq Nat
  /\ OddChunks \in BOOLEAN
ASSUME ConfigAssumption ==
  /\ HasConfirmer \in BOOLEAN
  /\ FirstModel \in Models
  /\ SystemPrompt \in Nat

VARIABLES
  wpc,         \* where the worker thread is
  history,     \* Agent::history_
  mark,        \* send's restore point
  iter,        \* run_tool_loop's iteration counter
  calls,       \* the tool calls of the current round
  k,           \* which of them is being worked on
  tr,          \* the current call's ToolResult
  outcome,     \* the ApiResult of the turn: ok, canceled or neither
  said,        \* the round's content so far
  pieces,      \* pieces streamed in this round (bounded)
  used,        \* the total_tokens of the last successful round
  lastTokens,  \* Agent::last_total_tokens_
  always,      \* ConfirmGate::always_allowed_
  cancel,      \* App::cancel_requested_
  events,      \* App::events_
  reply,       \* the promise of the pending confirmation
  turn,        \* turns started so far; names the texts
  prompt,      \* Agent::cfg_.system_prompt
  cfgModel,    \* Agent::cfg_.model
  sentModel    \* the model named by the last request

loopVars == <<mark, iter, calls, k, tr, outcome, said, pieces, used>>
configVars == <<prompt, cfgModel>>
agentVars == <<wpc, history, loopVars, lastTokens, always, cancel, events, reply,
               turn, configVars, sentModel>>

Phases == {"idle", "send", "check", "stream", "call", "gate", "wait", "exec", "result",
           "settle", "post", "exited", "crashed"}

\* The phases in which send() holds a half-made turn in the history.
InSend == {"check", "stream", "call", "gate", "wait", "exec", "result", "settle", "crashed"}

AgentInit ==
  /\ wpc = "idle"
  /\ history = Seed(SystemPrompt)
  /\ mark = 0
  /\ iter = 0
  /\ calls = <<>>
  /\ k = 1
  /\ tr = NoResult
  /\ outcome = "none"
  /\ said = 0
  /\ pieces = 0
  /\ used = 0
  /\ lastTokens = 0
  /\ always = {}
  /\ cancel = FALSE
  /\ events = <<>>
  /\ reply = "none"
  /\ turn = 0
  /\ prompt = SystemPrompt
  /\ cfgModel = FirstModel
  /\ sentModel = FirstModel

Post(type) == events' = Append(events, [type |-> type, turn |-> turn])

Step(from, to) == wpc = from /\ wpc' = to

-----------------------------------------------------------------------------
(* Agent::send and the head of run_tool_loop's loop.                        *)

Send ==
  /\ Step("send", "check")
  /\ mark' = Len(history)
  /\ history' = Append(history, Plain("user", turn))
  /\ iter' = 0
  /\ outcome' = "none"
  /\ UNCHANGED <<calls, k, tr, said, pieces, used, lastTokens, always, cancel, events,
                 reply, turn, configVars, sentModel>>

\* The round has used up the iterations: leave with the default, failed, result.
\* The loop condition is tested before the cancel flag.
IterationsExceeded ==
  /\ Step("check", "settle")
  /\ iter >= MaxIters
  /\ outcome' = "error"
  /\ UNCHANGED <<history, mark, iter, calls, k, tr, said, pieces, used, lastTokens, always,
                 cancel, events, reply, turn, configVars, sentModel>>

CancelSeen ==
  /\ Step("check", "settle")
  /\ iter < MaxIters
  /\ cancel
  /\ outcome' = "canceled"
  /\ UNCHANGED <<history, mark, iter, calls, k, tr, said, pieces, used, lastTokens, always,
                 cancel, events, reply, turn, configVars, sentModel>>

\* A text that is not UTF-8 makes the request's dump() throw.
Unsendable == \E i \in DOMAIN history : history[i].result = "mangled"

\* A mistake in the loop's bound: one round more.
BeginRound_OneMore ==
  /\ Step("check", "stream")
  /\ iter <= MaxIters
  /\ ~cancel
  /\ ~Unsendable
  /\ sentModel' = FirstModel
  /\ said' = 0
  /\ pieces' = 0
  /\ UNCHANGED <<history, mark, iter, calls, k, tr, outcome, used, lastTokens, always,
                 cancel, events, reply, turn, configVars>>

\* The request names the model of ApiClient's own copy of the configuration,
\* which is FirstModel for the life of the program.
BeginRound ==
  /\ Step("check", "stream")
  /\ iter < MaxIters
  /\ ~cancel
  /\ ~Unsendable
  /\ sentModel' = FirstModel
  /\ said' = 0
  /\ pieces' = 0
  /\ UNCHANGED <<history, mark, iter, calls, k, tr, outcome, used, lastTokens, always,
                 cancel, events, reply, turn, configVars>>

\* Nothing catches the exception on the worker thread: the process ends.
RequestThrows ==
  /\ Step("check", "crashed")
  /\ iter < MaxIters
  /\ ~cancel
  /\ Unsendable
  /\ UNCHANGED <<history, loopVars, lastTokens, always, cancel, events, reply, turn,
                 configVars, sentModel>>

-----------------------------------------------------------------------------
(* ApiClient::chat: what the server and the network can make of a request.  *)

\* A piece of content, possibly the empty string.
StreamContent ==
  /\ wpc = "stream"
  /\ pieces < MaxPieces
  /\ pieces' = pieces + 1
  /\ said' \in {said, turn}
  /\ Post("Delta")
  /\ UNCHANGED <<wpc, history, mark, iter, calls, k, tr, outcome, used, lastTokens, always,
                 cancel, reply, turn, configVars, sentModel>>

StreamReasoning ==
  /\ wpc = "stream"
  /\ pieces < MaxPieces
  /\ pieces' = pieces + 1
  /\ Post("Reasoning")
  /\ UNCHANGED <<wpc, history, mark, iter, calls, k, tr, outcome, said, used, lastTokens,
                 always, cancel, reply, turn, configVars, sentModel>>

\* A mistake: the cancel flag is looked at only when data arrives.
StreamAborted_OnData ==
  /\ Step("stream", "settle")
  /\ cancel
  /\ pieces > 0
  /\ outcome' = "canceled"
  /\ UNCHANGED <<history, mark, iter, calls, k, tr, said, pieces, used, lastTokens, always,
                 cancel, events, reply, turn, configVars, sentModel>>

\* curl asks xfer_cancel_cb at least once a second while the transfer lasts.
StreamAborted ==
  /\ Step("stream", "settle")
  /\ cancel
  /\ outcome' = "canceled"
  /\ UNCHANGED <<history, mark, iter, calls, k, tr, said, pieces, used, lastTokens, always,
                 cancel, events, reply, turn, configVars, sentModel>>

\* No handle, no connection, a broken transfer or an HTTP status that is not 2xx.
StreamFails ==
  /\ Step("stream", "settle")
  /\ outcome' = "error"
  /\ UNCHANGED <<history, mark, iter, calls, k, tr, said, pieces, used, lastTokens, always,
                 cancel, events, reply, turn, configVars, sentModel>>

\* process_chunk's value() throws inside curl's write callback.
StreamThrows ==
  /\ Step("stream", "crashed")
  /\ OddChunks
  /\ UNCHANGED <<history, loopVars, lastTokens, always, cancel, events, reply, turn,
                 configVars, sentModel>>

\* A 2xx response without tool calls ends the loop.  The last poll of the cancel
\* flag may be over, so this can happen with the flag set.
FinalReply ==
  /\ Step("stream", "settle")
  /\ history' = Append(history, Plain("assistant", said))
  /\ outcome' = "ok"
  /\ used' \in Usages
  /\ UNCHANGED <<mark, iter, calls, k, tr, said, pieces, lastTokens, always, cancel, events,
                 reply, turn, configVars, sentModel>>

ToolReply ==
  /\ Step("stream", "call")
  /\ \E requested \in Replies :
       /\ history' = Append(history, Requesting(said, requested))
       /\ calls' = requested
  /\ k' = 1
  /\ UNCHANGED <<mark, iter, tr, outcome, said, pieces, used, lastTokens, always, cancel,
                 events, reply, turn, configVars, sentModel>>

-----------------------------------------------------------------------------
(* The tool calls of a round, one after the other.                          *)

Call == calls[k]

\* on_tool_call; every call has a promise of its own.
AnnounceCall ==
  /\ Step("call", "gate")
  /\ Post("ToolInfo")
  /\ reply' = "none"
  /\ UNCHANGED <<history, loopVars, lastTokens, always, cancel, turn, configVars, sentModel>>

Finishes(result) ==
  /\ tr' = result
  /\ UNCHANGED <<history, mark, iter, calls, k, outcome, said, pieces, used, lastTokens,
                 cancel, turn, configVars, sentModel>>

UnknownTool ==
  /\ Step("gate", "result")
  /\ Call.tool \notin Tools
  /\ Finishes("unknown")
  /\ UNCHANGED <<always, events, reply>>

\* confirm_details of an editing tool reads fields that are not there.
PreviewThrows ==
  /\ Step("gate", "crashed")
  /\ Call.tool \in Previewed
  /\ Call.odd
  /\ UNCHANGED <<history, loopVars, lastTokens, always, cancel, events, reply, turn,
                 configVars, sentModel>>

\* A mistake: an earlier Always is looked up before the policy is asked.
Verdict_AlwaysFirst(call) ==
  LET decision == Decide(Policy, call.tool, call.details)
  IN  IF call.tool \notin Gated \/ call.tool \in always \/ decision = "Allow"
        THEN "run"
        ELSE IF decision = "Prompt" /\ HasConfirmer THEN "ask" ELSE "refuse"

\* ConfirmGate::allow up to the confirmer: let the call run, refuse it, or ask.
Verdict(call) ==
  LET decision == Decide(Policy, call.tool, call.details)
      settled  == call.tool \in always
  IN  CASE call.tool \notin Gated \/ decision = "Allow"   -> "run"
        [] call.tool \in Gated /\ decision = "Deny"       -> "refuse"
        [] call.tool \in Gated /\ decision = "Prompt" /\ settled -> "run"
        [] call.tool \in Gated /\ decision = "Prompt" /\ ~settled ->
             IF HasConfirmer THEN "ask" ELSE "refuse"

Previewable == Call.tool \in Tools /\ ~(Call.tool \in Previewed /\ Call.odd)

GateRuns ==
  /\ Step("gate", "exec")
  /\ Previewable
  /\ Verdict(Call) = "run"
  /\ UNCHANGED <<history, loopVars, lastTokens, always, cancel, events, reply, turn,
                 configVars, sentModel>>

GateRefuses ==
  /\ Step("gate", "result")
  /\ Previewable
  /\ Verdict(Call) = "refuse"
  /\ Finishes("declined")
  /\ UNCHANGED <<always, events, reply>>

\* App::request_confirmation posts the request and blocks on the future.
GateAsks ==
  /\ Step("gate", "wait")
  /\ Previewable
  /\ Verdict(Call) = "ask"
  /\ Post("ConfirmRequest")
  /\ UNCHANGED <<history, loopVars, lastTokens, always, cancel, reply, turn, configVars,
                 sentModel>>

Approved ==
  /\ Step("wait", "exec")
  /\ reply \in {"Yes", "Always"}
  /\ always' = IF reply = "Always" THEN always \cup {Call.tool} ELSE always
  /\ UNCHANGED <<history, loopVars, lastTokens, cancel, events, reply, turn, configVars,
                 sentModel>>

Declined ==
  /\ Step("wait", "result")
  /\ reply = "No"
  /\ Finishes("declined")
  /\ UNCHANGED <<always, events, reply>>

\* execute() of a tool that reads its arguments' fields, on arguments without.
ExecuteThrows ==
  /\ Step("exec", "crashed")
  /\ Call.odd /\ Call.tool \notin Lenient
  /\ UNCHANGED <<history, loopVars, lastTokens, always, cancel, events, reply, turn,
                 configVars, sentModel>>

Execute ==
  /\ Step("exec", "result")
  /\ Call.odd => Call.tool \in Lenient
  /\ \E result \in ToolResults : Finishes(result)
  /\ UNCHANGED <<always, events, reply>>

\* Mistakes: a declined call leaves no result behind; the rounds are not counted.
FinishCall_DropsDeclined ==
  /\ wpc = "result"
  /\ Post("ToolResult")
  /\ history' = IF tr = "declined" THEN history ELSE Append(history, Answer(Call.id, tr))
  /\ tr' = NoResult
  /\ reply' = "none"
  /\ IF k < Len(calls)
       THEN wpc' = "call" /\ k' = k + 1 /\ UNCHANGED <<iter, calls>>
       ELSE wpc' = "check" /\ k' = 1 /\ iter' = iter + 1 /\ calls' = <<>>
  /\ UNCHANGED <<mark, outcome, said, pieces, used, lastTokens, always, cancel, turn,
                 configVars, sentModel>>

FinishCall_Uncounted ==
  /\ wpc = "result"
  /\ Post("ToolResult")
  /\ history' = Append(history, Answer(Call.id, tr))
  /\ tr' = NoResult
  /\ reply' = "none"
  /\ IF k < Len(calls)
       THEN wpc' = "call" /\ k' = k + 1 /\ UNCHANGED calls
       ELSE wpc' = "check" /\ k' = 1 /\ calls' = <<>>
  /\ UNCHANGED <<mark, iter, outcome, said, pieces, used, lastTokens, always, cancel, turn,
                 configVars, sentModel>>

\* on_tool_result, the tool message, and on to the next call or the next round:
\* the calls left of a round are not given up when the turn is cancelled.
FinishCall ==
  /\ wpc = "result"
  /\ Post("ToolResult")
  /\ history' = Append(history, Answer(Call.id, tr))
  /\ tr' = NoResult
  /\ reply' = "none"
  /\ IF k < Len(calls)
       THEN wpc' = "call" /\ k' = k + 1 /\ UNCHANGED <<iter, calls>>
       ELSE wpc' = "check" /\ k' = 1 /\ iter' = iter + 1 /\ calls' = <<>>
  /\ UNCHANGED <<mark, outcome, said, pieces, used, lastTokens, always, cancel, turn,
                 configVars, sentModel>>

-----------------------------------------------------------------------------
(* The end of send and of the worker.                                       *)

\* Mistakes: only the last message is dropped; the outcome is posted twice.
Settle_DropsLast ==
  /\ Step("settle", "post")
  /\ IF outcome = "ok"
       THEN /\ lastTokens' = IF used > 0 THEN used ELSE lastTokens
            /\ UNCHANGED history
       ELSE /\ history' = SubSeq(history, 1, Len(history) - 1)
            /\ UNCHANGED lastTokens
  /\ UNCHANGED <<loopVars, always, cancel, events, reply, turn, configVars, sentModel>>

Settle_Posts ==
  /\ Step("settle", "post")
  /\ IF outcome = "ok" THEN UNCHANGED <<history, events>>
       ELSE history' = SubSeq(history, 1, mark) /\ Post("Error")
  /\ UNCHANGED <<loopVars, lastTokens, always, cancel, reply, turn, configVars, sentModel>>

Settle ==
  /\ Step("settle", "post")
  /\ IF outcome = "ok"
       THEN /\ lastTokens' = IF used > 0 THEN used ELSE lastTokens
            /\ UNCHANGED history
       ELSE /\ history' = SubSeq(history, 1, mark)
            /\ UNCHANGED lastTokens
  /\ UNCHANGED <<loopVars, always, cancel, events, reply, turn, configVars, sentModel>>

\* The lambda's last act.  What send had in its locals is gone.
PostOutcome ==
  /\ Step("post", "exited")
  /\ Post(CASE outcome = "ok" -> "Done"
            [] outcome = "canceled" -> "Canceled"
            [] outcome \notin {"ok", "canceled"} -> "Error")
  /\ mark' = 0 /\ iter' = 0 /\ calls' = <<>> /\ k' = 1 /\ tr' = NoResult
  /\ outcome' = "none" /\ said' = 0 /\ pieces' = 0 /\ used' = 0
  /\ UNCHANGED <<history, lastTokens, always, cancel, reply, turn, configVars, sentModel>>

WorkerNext ==
  \/ Send \/ IterationsExceeded \/ CancelSeen \/ BeginRound \/ RequestThrows
  \/ StreamContent \/ StreamReasoning \/ StreamAborted \/ StreamFails \/ StreamThrows
  \/ FinalReply \/ ToolReply
  \/ AnnounceCall \/ UnknownTool \/ PreviewThrows \/ GateRuns \/ GateRefuses \/ GateAsks
  \/ Approved \/ Declined \/ ExecuteThrows \/ Execute \/ FinishCall
  \/ Settle \/ PostOutcome

-----------------------------------------------------------------------------
(* The thread that owns the Agent: every call it may make, at any time the  *)
(* worker thread lets it.                                                   *)

\* The part of App::submit that concerns the worker.
StartTurn ==
  /\ Step("idle", "send")
  /\ turn < MaxTurns
  /\ turn' = turn + 1
  /\ cancel' = FALSE
  /\ UNCHANGED <<history, loopVars, lastTokens, always, events, reply, configVars, sentModel>>

\* App::join_worker, on a worker that has pushed its last event.
Join ==
  /\ Step("exited", "idle")
  /\ UNCHANGED <<history, loopVars, lastTokens, always, cancel, events, reply, turn,
                 configVars, sentModel>>

\* App joins a worker when it has popped the final event of its turn.
JoinAfterFinal ==
  /\ \A n \in DOMAIN events : events[n].type \notin FinalTypes
  /\ Join

\* try_pop.
Pop ==
  /\ wpc # "crashed"
  /\ events # <<>>
  /\ events' = Tail(events)
  /\ UNCHANGED <<wpc, history, loopVars, lastTokens, always, cancel, reply, turn, configVars,
                 sentModel>>

RequestCancel ==
  /\ wpc # "crashed"
  /\ cancel' = TRUE
  /\ UNCHANGED <<wpc, history, loopVars, lastTokens, always, events, reply, turn, configVars,
                 sentModel>>

\* Fulfil the promise of a confirmation request that has been popped.
Respond(choice) ==
  /\ wpc = "wait"
  /\ reply = "none"
  /\ \A i \in DOMAIN events : events[i].type # "ConfirmRequest"
  /\ reply' = choice
  /\ UNCHANGED <<wpc, history, loopVars, lastTokens, always, cancel, events, turn, configVars,
                 sentModel>>

\* Agent::reset.
Reset ==
  /\ wpc = "idle"
  /\ history' = Seed(prompt)
  /\ UNCHANGED <<wpc, loopVars, lastTokens, always, cancel, events, reply, turn, configVars,
                 sentModel>>

\* Agent::compact_into_summary.
CompactInto(summary) ==
  /\ wpc = "idle"
  /\ history' = Summarised(prompt, summary)
  /\ lastTokens' = 0
  /\ UNCHANGED <<wpc, loopVars, always, cancel, events, reply, turn, configVars, sentModel>>

\* Agent::set_system_prompt.
SetSystemPrompt(text) ==
  /\ wpc = "idle"
  /\ prompt' = text
  /\ UNCHANGED <<wpc, history, loopVars, lastTokens, always, cancel, events, reply, turn,
                 cfgModel, sentModel>>

\* Agent::set_model.
SetModel(model) ==
  /\ wpc = "idle"
  /\ cfgModel' = model
  /\ UNCHANGED <<wpc, history, loopVars, lastTokens, always, cancel, events, reply, turn,
                 prompt, sentModel>>

OwnerNext ==
  \/ StartTurn
  \/ JoinAfterFinal
  \/ Pop
  \/ RequestCancel
  \/ \E choice \in ConfirmChoices : Respond(choice)
  \/ Reset
  \/ \E text \in 1..turn : CompactInto(text) \/ SetSystemPrompt(text)
  \/ \E model \in Models : SetModel(model)

AgentNext == WorkerNext \/ OwnerNext

AgentSpec == AgentInit /\ [][AgentNext]_agentVars

-----------------------------------------------------------------------------
CallIds == {call.id : call \in Calls}

Messages == [role : Roles, text : Nat, calls : Seq(Calls), id : CallIds \cup {NoId},
             result : Results \cup {NoResult}]

TypeOK ==
  /\ wpc \in Phases
  /\ history \in Seq(Messages)
  /\ mark \in 0..Len(history)
  /\ iter \in 0..MaxIters
  /\ calls \in Seq(Calls)
  /\ k \in Nat \ {0}
  /\ tr \in Results \cup {NoResult}
  /\ outcome \in {"none", "ok", "canceled", "error"}
  /\ said \in Nat /\ pieces \in 0..MaxPieces /\ used \in Nat
  /\ lastTokens \in Nat
  /\ always \subseteq Gated
  /\ cancel \in BOOLEAN
  /\ events \in Seq([type : EventTypes, turn : Nat])
  /\ reply \in ConfirmChoices \cup {"none"}
  /\ turn \in 0..MaxTurns
  /\ prompt \in Nat
  /\ cfgModel \in Models /\ sentModel \in Models

ToolPhases == {"call", "gate", "wait", "exec", "result"}

\* Whenever a request may go out, or another thread may look at the history, every
\* tool call in it has its result, in order: whatever mix of unknown, declined,
\* failed and cancelled calls a turn went through, and wherever it stopped
\* (Agent.cpp:40-65, 141-142).
HistoryPaired == wpc \notin ToolPhases \cup {"crashed"} => Paired(history)

\* A gated tool runs only when no deny rule covers the call and an allow rule, a
\* Yes for this very call or an earlier Always lets it; and no message of the
\* history is the result of having run a call a deny rule covers (Confirm.cpp:75-106).
Denied(call) == call.tool \in Gated /\ Decide(Policy, call.tool, call.details) = "Deny"

DeniedNeverRuns ==
  /\ wpc = "exec" /\ Call.tool \in Gated =>
       \/ Decide(Policy, Call.tool, Call.details) = "Allow"
       \/ /\ Decide(Policy, Call.tool, Call.details) = "Prompt"
          /\ Call.tool \in always \/ reply = "Yes"
  /\ \A i \in DOMAIN history : \A j \in DOMAIN history[i].calls :
       Denied(history[i].calls[j]) /\ i + j \in DOMAIN history =>
         history[i + j].result = "declined"

\* A turn asks the server at most max_tool_iterations times, however the rounds
\* end: each successful request leaves one assistant message (Config.hpp:48, Agent.cpp:25).
RoundsBounded ==
  wpc \in InSend =>
    LET rounds == {i \in (mark + 1)..Len(history) : history[i].role = "assistant"}
    IN  Cardinality(rounds) <= MaxIters

\* The queue holds the events of successive turns, the final event of a turn comes
\* after all its others, and a confirmation request is in it only while the worker
\* is blocked on its answer and then it is the last event: nothing a turn does can
\* overtake the news that it is over (App.cpp:75-81, 236-246).
EventsOrdered ==
  /\ \A m, n \in DOMAIN events : m < n =>
       /\ events[m].turn <= events[n].turn
       /\ events[m].type \in FinalTypes => events[m].turn < events[n].turn
       /\ events[m].type # "ConfirmRequest"
  /\ \A n \in DOMAIN events : events[n].type = "ConfirmRequest" =>
       wpc = "wait" /\ reply = "none" /\ n = Len(events)

\* A turn is atomic: the conversation the rest of the program sees grows by a whole
\* exchange or not at all (Agent.hpp:51-53, Agent.cpp:129-148).
Committed == IF wpc \in InSend THEN SubSeq(history, 1, mark) ELSE history

Atomic == INSTANCE AtomicTurn WITH log <- Committed, open <- wpc \in InSend

TurnsAreAtomic == Atomic!ASpec

-----------------------------------------------------------------------------
\* What comments of the source say and the code does not do.

\* "Switch the model used for subsequent requests (e.g. via /model)" (Agent.hpp:78).
RequestsUseSelectedModel ==
  [][wpc = "check" /\ wpc' = "stream" => sentModel' = cfgModel]_agentVars

\* "Never throws" (Agent.hpp:53): no exception leaves the worker thread.
NeverThrows == wpc # "crashed"
=============================================================================
