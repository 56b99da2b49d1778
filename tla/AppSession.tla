----------------------------- MODULE AppSession ------------------------------
(***************************************************************************)
(* App (src/src/app/App.cpp): the UI thread's event loop composed with the *)
(* worker of AgentLoop.  The UI thread starts a turn, drains the event     *)
(* queue when no key arrives for 50 ms, answers confirmation requests in a *)
(* modal dialog, joins the worker when the turn's last event comes and     *)
(* then finishes /init and /compact or compacts on its own.                *)
(*                                                                         *)
(* A step of this module is a step of AgentLoop seen from the UI thread,   *)
(* or leaves AgentLoop's variables alone.  What is shown (chat_, input_)   *)
(* is left out: nothing here depends on it; ChatStream models it.          *)
(***************************************************************************)
EXTENDS AgentLoop, FiniteSetsExt

CONSTANTS
  FullAt,         \* tokens from which context_is_full() holds; 0: never, because
                  \* the window is unknown or auto_compact is off
  Commands,       \* what the user may do at the prompt in this run
  FirstAgentsMd   \* the text of AGENTS.md at startup, 0 when there is no file

Keyboard == {"chat", "retry", "clear", "model", "init", "compact", "skill", "help", "esc"}

ASSUME CommandsAssumption == Commands \subseteq Keyboard
ASSUME FullAtAssumption == FullAt \in Nat
ASSUME AgentsMdAssumption == FirstAgentsMd \in Nat

VARIABLES
  ui,              \* where the UI thread is
  busy,            \* App::busy_
  init_pending,    \* App::init_pending_
  compact_pending, \* App::compact_pending_
  final,           \* the type of the final event being handled
  special,         \* was_init || was_compact
  last_user,       \* last_user_message_ is not empty
  agents_md,       \* the text in ./AGENTS.md, 0 when there is no file, or Part
  kind             \* history variable: what the current turn was started for

pendingVars == <<init_pending, compact_pending>>
uiVars == <<ui, busy, pendingVars, final, special, last_user, agents_md, kind>>
vars == <<agentVars, uiVars>>

\* A file that holds a part of a text, or nothing of it.
Part == -1

UiPhases == {"loop", "help", "overwrite", "drain", "dialog", "join", "finish", "gone"}

Init ==
  /\ AgentInit
  /\ ui = "loop"
  /\ busy = FALSE
  /\ init_pending = FALSE
  /\ compact_pending = FALSE
  /\ final = "none"
  /\ special = FALSE
  /\ last_user = FALSE
  /\ agents_md = FirstAgentsMd
  /\ kind = "none"

Running == wpc # "crashed" /\ ui # "gone"

At(phase) == Running /\ ui = phase

-----------------------------------------------------------------------------
(* drain_events.                                                            *)

\* No key for 50 ms, or a key that means nothing while a reply is in flight.
\* With the queue empty drain_events does nothing.
StartDrain ==
  /\ At("loop")
  /\ events # <<>>
  /\ ui' = "drain"
  /\ UNCHANGED <<agentVars, busy, pendingVars, final, special, last_user, agents_md, kind>>

QueueEmpty ==
  /\ At("drain")
  /\ events = <<>>
  /\ ui' = "loop"
  /\ UNCHANGED <<agentVars, busy, pendingVars, final, special, last_user, agents_md, kind>>

HeadIs(type) == events # <<>> /\ Head(events).type = type

DrainStream ==
  /\ At("drain")
  /\ \E type \in {"Delta", "Reasoning", "ToolInfo", "ToolResult"} : HeadIs(type)
  /\ Pop
  /\ UNCHANGED uiVars

\* The dialog is modal: the UI thread does nothing else until it is answered.
DrainConfirmRequest ==
  /\ At("drain")
  /\ HeadIs("ConfirmRequest")
  /\ Pop
  /\ ui' = "dialog"
  /\ UNCHANGED <<busy, pendingVars, final, special, last_user, agents_md, kind>>

\* A mistake: the dialog closes and the promise is not fulfilled.
AnswerDialog_Drops(choice) ==
  /\ At("dialog")
  /\ choice \in ConfirmChoices
  /\ ui' = "drain"
  /\ UNCHANGED <<agentVars, busy, pendingVars, final, special, last_user, agents_md, kind>>

AnswerDialog(choice) ==
  /\ At("dialog")
  /\ Respond(choice)
  /\ ui' = "drain"
  /\ UNCHANGED <<busy, pendingVars, final, special, last_user, agents_md, kind>>

\* Mistakes: busy_ is cleared before the worker is joined; a confirmation request
\* falls through to the final events.
DrainFinal_NotBusy ==
  /\ At("drain")
  /\ \E type \in FinalTypes : HeadIs(type) /\ final' = type
  /\ Pop
  /\ ui' = "join"
  /\ busy' = FALSE
  /\ UNCHANGED <<pendingVars, special, last_user, agents_md, kind>>

DrainFinal_FallsThrough ==
  /\ At("drain")
  /\ \E type \in FinalTypes \cup {"ConfirmRequest"} : HeadIs(type) /\ final' = type
  /\ Pop
  /\ ui' = "join"
  /\ UNCHANGED <<busy, pendingVars, special, last_user, agents_md, kind>>

\* Done, Canceled and Error all start by joining the worker.
DrainFinal ==
  /\ At("drain")
  /\ \E type \in FinalTypes : HeadIs(type) /\ final' = type
  /\ Pop
  /\ ui' = "join"
  /\ UNCHANGED <<busy, pendingVars, special, last_user, agents_md, kind>>

\* A mistake: a cancelled or failed turn leaves its flag behind.
Joined_KeepsFlags ==
  /\ At("join")
  /\ Join
  /\ busy' = FALSE
  /\ final' = "none"
  /\ ui' = IF final = "Done" THEN "finish" ELSE "drain"
  /\ UNCHANGED <<pendingVars, special, last_user, agents_md, kind>>

Joined ==
  /\ At("join")
  /\ Join
  /\ busy' = FALSE
  /\ final' = "none"
  /\ IF final = "Done"
       THEN ui' = "finish" /\ UNCHANGED pendingVars
       ELSE ui' = "drain" /\ init_pending' = FALSE /\ compact_pending' = FALSE
  /\ UNCHANGED <<special, last_user, agents_md, kind>>

-----------------------------------------------------------------------------
(* The rest of the Done case.                                               *)

\* The content of the last assistant message of the history that has any.
LastSaid ==
  LET spoken == {i \in DOMAIN history : history[i].role = "assistant" /\ history[i].text # 0}
  IN  IF spoken = {} THEN 0 ELSE history[Max(spoken)].text

\* finish_init: no content or no writable file; or AGENTS.md is truncated, the text
\* written to it without a look at the outcome, and the text is the next system
\* prompt whatever of it reached the disk.
FinishInit ==
  /\ At("finish")
  /\ init_pending
  /\ init_pending' = FALSE
  /\ special' = TRUE
  /\ \/ UNCHANGED <<agentVars, agents_md>>
     \/ /\ LastSaid # 0
        /\ agents_md' \in {LastSaid, Part}
        /\ SetSystemPrompt(LastSaid)
  /\ UNCHANGED <<ui, busy, compact_pending, final, last_user, kind>>

\* finish_compact.
FinishCompact ==
  /\ At("finish")
  /\ ~init_pending
  /\ compact_pending
  /\ compact_pending' = FALSE
  /\ special' = TRUE
  /\ IF LastSaid = 0 THEN UNCHANGED agentVars ELSE CompactInto(LastSaid)
  /\ UNCHANGED <<ui, busy, init_pending, final, last_user, agents_md, kind>>

Full == FullAt > 0 /\ lastTokens >= FullAt

\* run_compact goes ahead when the history holds more than system messages.
HasTurns == \E i \in DOMAIN history : history[i].role # "system"

submit(what) ==
  /\ StartTurn
  /\ busy' = TRUE
  /\ kind' = what

\* maybe_auto_compact, after an ordinary turn only.
AutoCompact ==
  /\ At("finish")
  /\ ~init_pending /\ ~compact_pending
  /\ ~special /\ Full /\ HasTurns
  /\ compact_pending' = TRUE
  /\ submit("auto")
  /\ ui' = "drain"
  /\ UNCHANGED <<init_pending, final, special, last_user, agents_md>>

Finished ==
  /\ At("finish")
  /\ ~init_pending /\ ~compact_pending
  /\ special \/ ~Full \/ ~HasTurns
  /\ special' = FALSE
  /\ ui' = "drain"
  /\ UNCHANGED <<agentVars, busy, pendingVars, final, last_user, agents_md, kind>>

-----------------------------------------------------------------------------
(* Keys and commands.                                                       *)

\* Esc while a reply is in flight.  Elsewhere it edits the input line.
Esc ==
  /\ "esc" \in Commands
  /\ At("loop")
  /\ busy
  /\ ~cancel
  /\ RequestCancel
  /\ UNCHANGED uiVars

\* F1 at any time (/help only at the prompt): an overlay until the next key.
ShowHelp ==
  /\ "help" \in Commands
  /\ At("loop")
  /\ ui' = "help"
  /\ UNCHANGED <<agentVars, busy, pendingVars, final, special, last_user, agents_md, kind>>

DismissHelp ==
  /\ At("help")
  /\ ui' = "loop"
  /\ UNCHANGED <<agentVars, busy, pendingVars, final, special, last_user, agents_md, kind>>

\* A command is read only while no reply is in flight.
Typed(command) == command \in Commands /\ At("loop") /\ ~busy

\* Bound: leave room for the turn auto-compaction may add.
Room == turn + (IF FullAt = 0 THEN 1 ELSE 2) <= MaxTurns

\* A line, sent when every file it attaches could be read.
Chat ==
  /\ Typed("chat") /\ Room
  /\ last_user' = TRUE
  /\ submit("chat")
  /\ UNCHANGED <<ui, pendingVars, final, special, agents_md>>

Retry ==
  /\ Typed("retry") /\ Room
  /\ last_user
  /\ submit("chat")
  /\ UNCHANGED <<ui, pendingVars, final, special, last_user, agents_md>>

\* /<skill>: a turn that /retry will not repeat.
RunSkill ==
  /\ Typed("skill") /\ Room
  /\ submit("chat")
  /\ UNCHANGED <<ui, pendingVars, final, special, last_user, agents_md>>

\* A mistake: the user's questions survive.
Clear_KeepsQuestions ==
  /\ Typed("clear")
  /\ history' = SelectSeq(history, LAMBDA msg : msg.role = "user")
  /\ UNCHANGED <<wpc, loopVars, lastTokens, always, cancel, events, reply, turn, configVars,
                 sentModel, uiVars>>

Clear ==
  /\ Typed("clear")
  /\ Reset
  /\ UNCHANGED uiVars

Model(model) ==
  /\ Typed("model")
  /\ SetModel(model)
  /\ UNCHANGED uiVars

\* A mistake: the flag is set before the user is asked.
RunInit_FlagFirst ==
  /\ Typed("init") /\ Room
  /\ init_pending' = TRUE
  /\ IF agents_md # 0
       THEN ui' = "overwrite" /\ UNCHANGED <<agentVars, busy, kind>>
       ELSE submit("init") /\ UNCHANGED ui
  /\ UNCHANGED <<compact_pending, final, special, last_user, agents_md>>

\* /init asks before it overwrites an AGENTS.md.
RunInit ==
  /\ Typed("init") /\ Room
  /\ IF agents_md # 0
       THEN ui' = "overwrite" /\ UNCHANGED <<agentVars, busy, init_pending, kind>>
       ELSE init_pending' = TRUE /\ submit("init") /\ UNCHANGED ui
  /\ UNCHANGED <<compact_pending, final, special, last_user, agents_md>>

AnswerOverwrite(choice) ==
  /\ At("overwrite")
  /\ ui' = "loop"
  /\ IF choice = "No"
       THEN UNCHANGED <<agentVars, busy, init_pending, kind>>
       ELSE init_pending' = TRUE /\ submit("init")
  /\ UNCHANGED <<compact_pending, final, special, last_user, agents_md>>

RunCompact ==
  /\ Typed("compact") /\ Room
  /\ HasTurns
  /\ compact_pending' = TRUE
  /\ submit("compact")
  /\ UNCHANGED <<ui, init_pending, final, special, last_user, agents_md>>

\* /quit, /exit: the loop ends; join_worker finds nothing to join.
Quit ==
  /\ At("loop")
  /\ ~busy
  /\ ui' = "gone"
  /\ UNCHANGED <<agentVars, busy, pendingVars, final, special, last_user, agents_md, kind>>

\* The process is gone, by /quit or by an exception on the worker thread.
Terminated == ~Running /\ UNCHANGED vars

Worker == Running /\ WorkerNext /\ UNCHANGED uiVars

UiNext ==
  \/ StartDrain \/ QueueEmpty \/ DrainStream \/ DrainConfirmRequest
  \/ \E choice \in ConfirmChoices : AnswerDialog(choice) \/ AnswerOverwrite(choice)
  \/ DrainFinal \/ Joined
  \/ FinishInit \/ FinishCompact \/ AutoCompact \/ Finished
  \/ Esc \/ ShowHelp \/ DismissHelp
  \/ Chat \/ Retry \/ RunSkill \/ Clear \/ RunInit \/ RunCompact \/ Quit
  \/ \E model \in Models : Model(model)

Next == Worker \/ UiNext \/ Terminated

Spec == Init /\ [][Next]_vars

-----------------------------------------------------------------------------
(* Fairness.  The worker's own steps happen, tools return, curl asks for    *)
(* the cancel flag; nothing is assumed of the server, which has no time     *)
(* limit.  The UI thread's own steps happen.  The user leaves the keyboard  *)
(* alone for 50 ms again and again, answers dialogs and leaves the help.    *)

WorkerOwn ==
  /\ Running
  /\ \/ Send \/ IterationsExceeded \/ CancelSeen \/ BeginRound \/ RequestThrows
     \/ StreamAborted
     \/ AnnounceCall \/ UnknownTool \/ PreviewThrows \/ GateRuns \/ GateRefuses \/ GateAsks
     \/ Approved \/ Declined \/ ExecuteThrows \/ Execute \/ FinishCall
     \/ Settle \/ PostOutcome
  /\ UNCHANGED uiVars

UiOwn ==
  \/ QueueEmpty \/ DrainStream \/ DrainConfirmRequest \/ DrainFinal \/ Joined
  \/ FinishInit \/ FinishCompact \/ AutoCompact \/ Finished

UserAnswers == \E choice \in ConfirmChoices : AnswerDialog(choice) \/ AnswerOverwrite(choice)

FairSpec ==
  /\ Spec
  /\ WF_vars(WorkerOwn)
  /\ WF_vars(UiOwn)
  /\ SF_vars(StartDrain)
  /\ WF_vars(UserAnswers)
  /\ WF_vars(DismissHelp)

-----------------------------------------------------------------------------
UiTypeOK ==
  /\ ui \in UiPhases
  /\ busy \in BOOLEAN
  /\ init_pending \in BOOLEAN
  /\ compact_pending \in BOOLEAN
  /\ final \in FinalTypes \cup {"none"}
  /\ special \in BOOLEAN
  /\ last_user \in BOOLEAN
  /\ agents_md \in Nat \cup {Part}
  /\ kind \in {"none", "chat", "init", "compact", "auto"}

\* Wherever the UI thread may submit a turn or read and replace the history, the
\* last worker is joined and its events are consumed: worker_ is never assigned
\* over a running thread and the history never shared (App.cpp:236, 411-427, 576-640).
OneWorker ==
  /\ ~busy => wpc = "idle" /\ events = <<>>
  /\ ui \in {"finish", "overwrite", "gone"} => ~busy

\* The current turn is in flight, or done and its completion still to be handled.
Unfinished == busy \/ (ui = "finish" /\ ~special)

\* The flags of a pending /init or /compact are those of the turn in flight, through
\* cancels, errors, refusals and turns the program starts itself: no other turn's
\* reply is taken for an AGENTS.md or a summary (App.cpp:94-95, 411-444).
PendingMatchesTurn ==
  /\ init_pending <=> kind = "init" /\ Unfinished
  /\ compact_pending <=> kind \in {"compact", "auto"} /\ Unfinished

\* The worker is blocked on an answer exactly when the question is in the queue or
\* on the screen, and then the UI thread is not blocked on the worker: neither of
\* the two waits for the other (App.cpp:75-81, 406-413).
PromptMatchesWorker ==
  LET asking == \E n \in DOMAIN events : events[n].type = "ConfirmRequest"
  IN  /\ wpc = "wait" /\ reply = "none" <=> asking \/ ui = "dialog"
      /\ ~(asking /\ ui = "dialog")
      /\ ui = "join" => wpc = "exited"

\* What a turn's end sets off belongs to that turn: auto-compaction follows a chat
\* turn only, so that it cannot set itself off nor run on the heels of /init or
\* /compact; and AGENTS.md and the system prompt change only when an /init turn has
\* run to its end with an answer, the prompt to something the assistant said in this
\* conversation and the file to the same text, or to what a failing write, which
\* nobody looks at, left of it (App.cpp:280-289, 425-441).
EffectsOfTheirTurn ==
  [][/\ kind' = "auto" /\ turn' # turn => kind = "chat"
     /\ agents_md' # agents_md \/ prompt' # prompt =>
          /\ kind = "init" /\ ui = "finish"
          /\ agents_md' \in {prompt', Part}
          /\ \E n \in DOMAIN history : history[n].role = "assistant" /\ history[n].text = prompt'
          /\ history # <<>> /\ history[Len(history)].role = "assistant"]_vars

\* The worker only ever sees AgentLoop's owner: App uses the Agent as allowed.
UsesAgent == AgentSpec

\* Esc ends the turn: a cancelled turn is over some time later, whatever the server
\* does and however many calls are left of the round (App.cpp:495-501).
EscEndsTurn == busy /\ cancel ~> ~busy \/ wpc = "crashed"

\* A worker that waits for an answer gets one.
PromptsAnswered == wpc = "wait" ~> wpc # "wait"

-----------------------------------------------------------------------------
\* "/compact produced no summary; context left unchanged." (App.cpp:360), "replace
\* history with the summary" (App.hpp:75): what replaces the history is what the
\* /compact turn said.
SummaryIsOfCompactTurn ==
  [][compact_pending /\ ui = "finish" /\ history' # history
       => history'[Len(history')].text = turn]_vars
=============================================================================
