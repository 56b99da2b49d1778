# SimpleCoder in TLA+

SimpleCoder is a terminal coding assistant: a curses front end, a worker thread
that talks to an OpenAI-compatible server over libcurl, a tool loop with a
confirmation gate, and clients of MCP tool servers. This directory models the
parts of it in which order, interleaving and failure matter, checks them with
TLC on small instances, and proves some of the results with TLAPS for every
value of the constants. Paths below are relative to the root of the repository's
`src/`; `Agent.cpp:141` stands for `src/agent/Agent.cpp`, line 141, and so on.
`PROJECT.json` names, for every definition, the lines it translates.

## 1. Inventory

| Component | State | Operations | Talks to |
|---|---|---|---|
| Agent, tool loop (`agent/Agent.*`) | history, token counts, configuration, restore point of a turn | `send`, `run_tool_loop`, `reset`, `compact_into_summary`, `set_model`, `set_system_prompt` | client (calls), tools (calls), gate (calls), App (callbacks) |
| Policy and gate (`agent/Confirm.*`) | rule containers; tools answered *Always* | `add_allow`, `add_deny`, `decide`, `allow` | confirmer of the App (blocks) |
| App (`app/App.*`) | busy flag, cancel flag, pending `/init` and `/compact`, view indices, worker thread, last message | `run`, `submit`, `drain_events`, `finish_init`, `finish_compact`, `maybe_auto_compact`, commands | worker through `ThreadQueue`, an atomic flag and a promise |
| ThreadQueue (`util/ThreadQueue.hpp`) | queue under a mutex | `push`, `try_pop` | worker to UI thread |
| ApiClient (`llm/ApiClient.*`) | configuration copy | `chat` with libcurl's write and progress callbacks | server, StreamParser |
| StreamParser (`llm/ChatResponse.*`) | line buffer, content, reasoning, tool calls by index | `feed`, `process_line`, `process_chunk`, `tool_calls` | ApiClient's callbacks |
| MCP client and transport (`mcp/*`) | request ids, tools, last error; read buffer, pipes, child | `start`, `call`, `request`, `notify`, `read_line`, `write_line` | child process through two pipes |
| File tools and diff (`agent/tools/*`, `util/Diff.*`) | the files on the disk | `confirm_details`, `execute`, `unified_diff` | gate, disk |
| ChatView (`ui/ChatView.*`) | entries, folded or not, scroll offset | `add...`, `append_to`, `toggle_last_collapsible`, scrolling, `render` | App |
| InputBar, UTF-8 (`ui/InputBar.*`, `util/Utf8.*`) | bytes and cursor | `handle_key`, `insert_text`, `wrap_layout`, `render` | App |
| ConfirmDialog, TextWrap, Markdown, Banner, Theme, Tui | none that outlives a call | drawing | App |
| Start and end (`main.cpp`), Config, SystemPrompt, Skills | the configuration, the system prompt, the skills, read at start from several places on the disk | `loadConfig`, `writeStarterConfig`, `resolveSystemPrompt`, `loadSkills`, destruction | App, Agent, disk |
| Web tools, Html, HttpClient | one transfer at a time | `fetch_url`, `web_search` | web server, model |
| Commands, Attachments, Base64, Log | none | parsing, file input, output | App |

What is hard about it:

* **Two threads.** The worker runs a turn and blocks on a promise when a tool
  needs an answer; the UI thread drains the worker's events, fulfils the
  promise, and joins the worker when it sees the last event. Esc may come
  anywhere.
* **Rollback.** A turn that fails or is cancelled after several rounds must
  leave a history the server accepts.
* **Flags across turns.** `/init` and `/compact` are a turn followed by a
  completion in the UI thread; auto-compaction starts a turn while another's end
  is handled.
* **Streams.** The network cuts the stream anywhere; fragments of tool calls
  interleave; the text goes to the view through indices kept from earlier events.
* **A peer that does anything.** An MCP server answers late, out of order or
  never, talks in between, stops reading, and dies.
* **Read twice.** A file edit is previewed from one reading of the file and made
  from another; its policy is decided on the text of the preview.
* **What outlives a launch.** Configuration files written in part, an AGENTS.md
  that was lost as it was closed, servers that hold each other's pipes, and names
  that rules of the policy and the model use again.
* **Cut twice.** A page is cut by bytes before its markup is removed and by
  characters after.
* **Bytes and columns.** The prompt is bytes, the user edits characters, and the
  window shows columns.

## 2. Modules

| Module | Models | Uses |
|---|---|---|
| `ConfirmRules` | `Confirm.cpp`: rules, containers, `decide` (operators) | |
| `ConfirmPolicy` | the policy while it is filled | `ConfirmRules` |
| `Conversation` | messages and well-formed histories | |
| `AtomicTurn` | what the tool loop promises: a turn commits as a whole or not at all | `Conversation` |
| `AgentLoop` | `Agent.cpp`, the gate, the outcomes of `ApiClient::chat`, the events of the worker, and its owner as a nondeterministic environment | `ConfirmRules`, `Conversation`, `AtomicTurn` |
| `AgentLoopProofs` | proofs about it | `AgentLoop` |
| `AppSession` | the UI thread of `App.cpp` composed with the worker of `AgentLoop` | `AgentLoop` |
| `AppSessionProofs` | proofs about it, and that it implements `AgentLoop` | `AppSession`, `AgentLoopProofs` |
| `Diff`, `FileTools` | `Diff.cpp`; `write_file` and `str_replace` (operators) | |
| `GatedEdits` | an edit from the call to the disk: policy, preview, answer, execution, with other programs and a failing disk | `ConfirmPolicy`, `FileTools` |
| `GatedEditsProofs` | proofs about it and about `ConfirmPolicy` | `GatedEdits` |
| `StreamParser`, `ChatView` | `ChatResponse.cpp`; `ChatView.cpp` (operators) | |
| `FoldLemmas` | induction along a set of numbers; folds and joined sequences by their runs | |
| `ChatStream` | server, libcurl's callbacks, parser, queue and `drain_events` | `StreamParser`, `ChatView` |
| `ChatStreamProofs` | proofs about it and about the parser | `ChatStream`, `FoldLemmas` |
| `McpSession` | `McpClient` over `StdioTransport` against any server | |
| `McpSessionProofs` | proofs about it | `McpSession` |
| `TextEditor` | an editor of characters: what the prompt promises | |
| `InputBar` | `InputBar.cpp` on bytes (operators) | |
| `Screen` | the key loop of `App::run`, windows, prompt and chat | `InputBar`, `ChatView`, `TextEditor` |
| `ScreenProofs` | proofs about it, and that it implements `TextEditor` | `Screen`, `FoldLemmas` |
| `Config` | `Config.cpp`: settings, merging, the layers (operators), and what the layers mean together, stated without merging | |
| `Skills` | `Skill.cpp` and the words of `Command.cpp` (operators) | |
| `McpServers` | the servers as processes: `open_stdio_transport`, what a child inherits, the destructor | |
| `WebFetch` | `fetch_url`: `HttpClient.cpp`'s transfer and cap, `Html.cpp`, the cut of the text | |
| `Launches` | `main.cpp`, from one launch to the next, over what is on the disk and the servers that outlive it | `Config`, `Skills`, `McpServers`, `WebFetch` |
| `LaunchesProofs` | proofs about it and about `WebFetch` | `Launches`, `FoldLemmas` |

Modules named `MC...` give the constants of another module values for TLC.

How state and actions correspond to the code:

* **AgentLoop.** `wpc` is the worker's place in `Agent::send` and
  `run_tool_loop`: one action per step at which another thread or the server can
  make a difference. `history`, `mark`, `iter`, `k` and `tr` are the locals of
  these functions, `always` is the gate's set, `events` the queue, `reply` the
  promise, `cancel` the atomic flag. What an owner of an `Agent` may do is
  `OwnerNext` (it joins a worker once it has popped the turn's final event);
  `AppSession` replaces it by what `App` does and checks, as `UsesAgent`, that
  this is allowed. A message's text is the number of the turn
  that said it, 0 if it is empty. An exception that leaves the worker is the phase
  `crashed`.
* **AppSession.** `ui` is the UI thread's place in `run` and `drain_events`.
  `kind` is a history variable: what the current turn was started for. `FinishInit`
  leaves AGENTS.md as it was (it cannot be opened, and then the prompt stays too),
  whole, or as a part (`Part`): nobody looks at the writing (`App.cpp:285-289`).
* **GatedEdits.** `phase` is the worker's place between the call and the
  `ToolResult`. Texts are sequences of characters, and the first words of
  `confirm_details`' text, `path: <path>`, are what the policy's prefixes are
  compared with. `OthersWrite` is any other program.
* **ChatStream.** `wire` is what libcurl has not delivered, cut at any piece;
  `ui` is what `drain_events` writes. `sent`, `reply`, `rounds` and `start` are
  history variables that say what should come out. What the server may write is the
  constant `Lines`, of which only `LinesAssumption` is asked: a line gives a field at
  most once, whatever its indices, identifiers and finish reasons.
* **McpSession.** `toChild` and `fromChild` are the pipes, `buf_` is `buf`; a
  line is its text and its newline so that a read may end between them, and a
  request several pieces so that writing one may block.
* **Screen.** One action per key of `App::run`. Every action ends with a frame,
  as the loop does: windows are resized to the prompt and the scroll offset is
  clamped.
* **Launches.** `phase` is where the program is: not running, in the constructor
  of `App`, in `App::run`, or in its destructors. A process of a server is named
  by its launch, because it may outlive that. `writers` says who holds the write
  end of each server's standard input; `open_stdio_transport` sets no close-on-exec
  flag, so that a child has every end the program had open when it was forked.
  A document is its sequence of settings, a Markdown file its lines, a page its
  tokens. The name of a tool or a server is a sequence of pieces, `"_"` a piece of
  its own, so that putting names together (`Exposed`) may give one name twice, as it
  does in the code. `scene` is what a behaviour begins with: the disk, the
  environment, the file of servers, the pages, what the user may write and the model
  answer. `Writes` has every end of a write of the starter configuration: the file
  cannot be opened, a part is left and noticed, or all or a part is there and
  announced, since the stream is looked at before it is closed. `inited` and
  `meanings` are history variables: what `/init` made the prompt, if all of it has
  reached the disk, and what the names of tools have meant. Turns, and what is said
  through the servers' pipes, are the other modules'.

Abstract specifications. `AtomicTurn` has a log of whole exchanges, and
`AgentLoop` implements it with the history outside a turn and the restore point's
prefix inside one. `TextEditor` has a sequence of characters and a position,
and `Screen` implements it with the decoded bytes.

## 3. What is checked

| Run | Question |
|---|---|
| `agent_loop` | Two turns against any server and any mix of ungated, prompted, denied, allowed, unknown and malformed calls, Esc anywhere: is the history well formed (`HistoryPaired`), does a denied call never run (`DeniedNeverRuns`), are rounds bounded (`RoundsBounded`), are the events in order (`EventsOrdered`), is the turn atomic (`TurnsAreAtomic`)? |
| `app_session` | Three turns of both threads with every command and Esc: one worker at a time (`OneWorker`), pending flags belong to their turn (`PendingMatchesTurn`), neither thread waits for the other (`PromptMatchesWorker`, and deadlock), compaction does not set itself off, and AGENTS.md, but for a part of it that a failing write leaves, and the prompt are what the assistant said in an `/init` turn (`EffectsOfTheirTurn`), the App keeps to what an Agent allows (`UsesAgent`); with fairness, Esc ends the turn (`EscEndsTurn`) and questions are answered (`PromptsAnswered`). |
| `gated_edits` | Does the policy decide as its rules say (`DecisionFollowsRules`)? Does the preview say what the edit will do, `(no changes)` only when there are none but a newline at the end (`PreviewIsKept`), does the edit change one place (`EditsOnePlace`), and does no denied call get further (`OnlyApprovedEdits`)? |
| `chat_stream` | Up to four messages and lines over two rounds and two turns, with finish reasons, skipped lines and fragments of calls in either order of their indices, cut, failing, cancelled, folded, cleared: does the parser have what the whole lines say (`ParsedWhole`, against a reference that never sees a cut), is every text on the screen once and in order (`TextConserved`, `RoundsInOrder`), and in this turn's entries (`IndicesOfTurn`)? |
| `mcp_session` | The handshake, two pages of tools and two calls: is no answer lost (`AnswerNotLost`) or given to another call (`AnswersItsCall`), is the list of tools whole (`ToolsComplete`), does waiting end (`ReadingEnds`)? |
| `screen` | All keys on prompts of up to five bytes of characters of one, two and three: do bytes implement characters (`EditsCharacters`), is what is drawn of the rows the buffer, and does each fit the window (`RowsAreBuffer`), is the cursor shown, at a place of its own (`CursorShown`), does the wheel always move (`WheelMoves`)? |
| `launches` | Two launches from eight kinds of disk, each with one thing to tell: do the layers mean what they say together, from the user's file to the environment, AGENTS.md and skills of one name included (`LayersInOrder`)? Does a starter configuration help the next launch, and is no configuration written over (`StarterHelps`)? Do names of tools mean the same in both launches, whichever servers start, if the servers' names do not clash and `allow_web` is the same (`NamesStable`)? Does the model learn that a page was cut (`FetchIsHonest`)? Do the servers end, with the program or after it, and does waiting for them, unless the program is stuck for ever (`ServersEnd`)? |

Each passing run also checks its module's type invariant.

**Bounds, and why they are enough.** Each is a constant that a guard names.

* `MaxTurns` (turns): two show a turn that starts from a history another turn
  left, committed or rolled back; three let an auto-compaction follow a turn and
  be followed by one. `MaxIters` is 2 in `agent_loop`, so that the limit is hit
  after a round with tools, and 1 in `app_session`, where the round is
  `agent_loop`'s concern. `MaxPieces`: one piece of a kind is enough, since
  pieces only add up. One model is enough for what `agent_loop` asks; `agent_model`
  has two.
* `MaxTraffic`, `WireSize`, `Parts`: a line is its text and a newline, and four
  pieces let a receive hold a whole line, parts of two, or the end of one. A
  round needs three lines to have fragments of two tool calls interleaved.
  `MaxTabs`: one fold is enough to fold what the code then writes to.
* `Pages = 2` has a page that is not the last, `MaxCalls = 2` a late answer that
  meets another call, `MaxLines = 6` all answers and one line of the server's own.
  A pipe of 3 is shorter than two requests of 2, so that a write blocks.
* `MaxSize` (bytes of prompt and entries of chat), `MaxEntries`: two characters
  of the widest kind, or three rows of short ones in windows of two rows; the
  program shows up to six rows, an instance of the same formula
  (`kMaxInputRows`).
* `MaxSessionRules = 1` (rules with which a session of edits starts; the
  policy itself is checked with every set of rules) and `MaxCalls = 2`: one rule
  of each kind, and an answer *Always* followed by a call it must not let through.
  `Context = 1` and `MaxLines = 3` are 3 and 4000 in the program; the texts have
  lines beyond the context and more lines than the maximum.
* `MaxLaunches = 2`: what a launch leaves behind matters to the next. Two servers
  are enough for one to hold the other's pipe and for one to start without the
  other; a disk with one server has tools whose names are their own. `MaxPolls` is
  1 for the 20 looks of the destructor, `IntLimit` 8 for 2^31: a configuration has
  the number 8, which becomes -8. The two servers are `a` and `a_`, whose tools `_b`
  and `b` both are `a___b`; one server of one launch ignores SIGTERM (outside
  `Obedient`), and one of another has a handshake without end (outside `Answering`).
  `MaxBytes`, `HeadBytes`, `DefaultMaxChars` and `MaxMaxChars` stand in the same
  order as 2 MiB, 1024, 20000 and 200000, but for the cap of bytes, which is
  above that of characters here too and below the longest page, so that either
  cuts first.

**Fairness.** `AppSession!FairSpec` assumes that the worker's own steps and the UI
thread's own steps happen (threads are scheduled), that tools return, that libcurl
asks for the cancel flag (it calls the progress callback about once a second whether
or not data comes), that a user leaves dialogs and the help screen, and, strongly,
that the user leaves the keyboard alone for 50 ms again and again, because events
are drained only when `wgetch` times out (`App.cpp:472-479`). Nothing is assumed of
the server: a request has no time limit of its own. `EscEndsTurn` allows the end
that `agent_throws` shows, an exception in the worker. `McpSession!FairSpec` assumes
only that the client takes its steps, including the time-out of `poll`; the server
may do nothing, and falls silent after `MaxLines` lines. `Launches!Spec` assumes
that the program goes on with starting and ending its servers. A handshake ends only
when the server has exited or is one of `Answering`, which read what they are sent
and answer it or fall silent: the time limit is of one wait (`Transport.cpp:105`), a
write has none (`:82`), and a list of tools may have pages without end
(`McpClient.cpp:63-96`). A server that has been sent SIGTERM exits only if it is one
of `Obedient`, and at the end of its standard input if it is one of `Polite`; the
others may do nothing, and commands in the background live as long as they like.
`ServersEnd` says what follows when the program is not `Stuck` for ever in such a
handshake or wait; the run has behaviours in which it is. Deadlock is not checked
where the program really stops: in `agent_loop` when the bounded turns are used up
or the worker has crashed, in `mcp_session` when the client has failed or has
nothing left to call.

## 4. Where the code departs from its own texts

Each is a run that TLC finds violated.

* `agent_model`, `RequestsUseSelectedModel`: `/model` assigns the agent's copy of
  the configuration (`Agent.hpp:79`); requests are built from the client's
  (`ApiClient.cpp:137`).
* `agent_throws`, `NeverThrows`: arguments that are JSON but no object of strings
  make a tool throw, and nothing on the worker thread catches (`Agent.cpp:52-59`).
* `app_compact`, `SummaryIsOfCompactTurn`: a `/compact` with an empty reply
  replaces the conversation by an older answer (`App.cpp:353`).
* `mcp_killed`, `SurvivesServer`: writing to a dead server raises SIGPIPE
  (`Transport.cpp:82`).
* `edit_denies`, `DeniesTargets`: a rule like `deny = write_file:/etc` matches no
  call, because the compared text begins with `path: ` (`WriteFileTool.cpp:66`,
  against the starter configuration, `Config.cpp:288-289`).

Met while modelling, in the models, and not stated as properties: an empty first
content delta makes the answer's entry before the reasoning, which then stays
unfolded (`App.cpp:391`, against `README.md:31-32`); `find` starts its second
search behind the first match, so that overlapping occurrences count as one
(`StrReplaceTool.cpp:59`); a stream without its end mark is a whole reply
(`ApiClient.cpp:197`); a cancel after the last look at the flag is lost
(`Agent.cpp:26`); `/clear` keeps the token gauge that decides about
auto-compaction (`App.cpp:373`); the MCP time limit is per wait and does not hold
for writing (`Transport.cpp:105`, `:82`); a request of the server's own with the
id of the client's is taken for the response (`Transport.cpp:65`); a write that
fails when the stream is closed is reported as success (`WriteFileTool.cpp:42`);
an edit of the last newline alone is shown as `(no changes)`
(`WriteFileTool.cpp:70`, `Diff.cpp:23`); a number that fits a long and not an int
may leave no iterations at all (`Config.cpp:128`, against `Config.hpp:47`); a
starter configuration of which a part was written beside the binary, before the
fallback succeeded, is read first at the next launch (`Config.cpp:312-314`);
closing a server's standard input is no end of file for it while a later server or
a background command lives (`Transport.cpp:36`), so that ending takes 100 ms and
SIGTERM for each; a reply that is two fences and a newline keeps the second
(`SystemPrompt.cpp:74`, where `e - 3` wraps around); a skill with the name of a
command, or a space in its name, cannot be run as `/<name>` (`Command.cpp:37-45`,
although `/skill` lists it so, `App.cpp:311-312`); tools of two servers may have one
name (`McpClient.cpp:203`), which then always means the first one's; a starter
configuration that is lost as its stream is closed is announced as created
(`Config.cpp:304-306`), and an AGENTS.md of which only a part was written as written
(`App.cpp:285-289`); a lone server's `fetch_url` is hidden when `allow_web` is on
(`Agent.cpp:86-90`); and a server that ignores SIGTERM is waited for without a limit
(`Transport.cpp:47`).

## 5. What is proved

`GatedEditsProofs`, of the policy alone, assuming nothing of the rules:
`DecidesAsWritten` and `DenialIsFinal`. The invariant `Filed` says that the containers hold exactly the
bare tools and the pairs of the rules that were added; both follow from it and
from `CoverIsMatch`, which relates rules to containers.

`AgentLoopProofs`, from the named assumptions of `AgentLoop` (sets of calls,
replies and tools are what their names say, at least one iteration):

* `Invariance`: `IInv == TypeOK /\ Control /\ Shape` is inductive. None of the
  properties is inductive alone. `Control` ties the place of the worker to
  its variables (the iteration counter, what the policy said of the current
  call). `Shape` says how far the history is: the request being worked on is
  the last one and has as many results behind it as calls have been
  finished, results belong to the requests they follow, and everything up to the
  restore point is complete. Without the last, rolling back could leave
  a request unanswered.
* `TypeCorrect`, `PairedAlways` (`HistoryPaired`), `DeniedNever`
  (`DeniedNeverRuns`): consequences of it.
* `Implements` (`TurnsAreAtomic`): initial states map to initial states and every
  step to a step of `AtomicTurn` or a stutter, with one lemma for appending
  inside a turn, one for the end of a turn, and one for all steps that leave the
  history alone.
* `OrderedAlways` (`EventsOrdered`). The order of the queue alone is not inductive;
  `EventInv` adds to `IInv` that no event is from a turn to come, that none says the
  running turn is over, and that the promise is new when the gate may ask, so that a
  request in the queue never has an answer yet.
* `BoundedAlways` (`RoundsBounded`): `RoundsCounted`, from `IInv`, ties the
  assistant's messages behind the restore point to the iteration counter, one more
  while a round's tools run.

`AppSessionProofs`, from no more than the assumptions of the two modules:
`OneWorkerAlways`, `NoMutualWait` (`PromptMatchesWorker`) and `PendingAlways`
(`PendingMatchesTurn`). They need each other, in one invariant `AppInv`: the worker
has exited and the queue is empty when the UI thread joins (`JoinReady`) because a
final event is the last of the queue and its worker is gone (`FinalLast`), and a
question is popped before it is answered because it, too, is the last.

The same module proves `AppImplements`, `Spec => UsesAgent`. Every step of the session
is a step of `AgentLoop` or leaves its variables alone. Two calls need the invariants:
`Join` (`JoinReady`), and those that take a text from the history
(`SetSystemPrompt`, `CompactInto`), for which `TextsOfTurns` says that whatever the
assistant said it said in a turn; that `Max` finds the last such message is proved
from the library's well-founded order of the numbers. So all that is proved of
`AgentLoop` holds of the program; `AppPaired` states it of `HistoryPaired`. From the
two sides together (`TogetherAlways`) follow also `UiTypesAlways` (`UiTypeOK`) and the
action property `EffectsAlways` (`EffectsOfTheirTurn`): what a turn's end sets off is
what the turn was started for, because `kind` agrees with the pending flags and the
UI thread is in `finish` only behind a joined worker.

`GatedEditsProofs`, of edits, from `Filed` and, for what concerns texts, the assumption that
contents and strings are sequences (`TextsAreSequences`):

* `ApprovedAlways` (`OnlyApprovedEdits`). `EditInv` remembers for as long as a call
  is under way what the policy said of it; the policy is settled before the first
  call.
* `FollowedAlways`: `FollowInv` follows a call from the file its preview read,
  `seen`, to the file it left. While nobody interfered, that file is still the one on
  the disk, the plan is `execute` of it, and a call that ended has left either that
  file or the plan's text. None of the properties says where `seen` and the disk agree,
  which is why they are not inductive.
* `EditTypes` (`EditTypeOK`), `EditsOnePlaceAlways` (`EditsOnePlace`): the text
  that `replaced` makes is what is before the first occurrence, the new string and what
  is behind it, where `find` has found no other; `ReplacedOnce` is that fact about
  `find` and sequences, with the least element of a set of positions from the library's
  well-founded order.
* `ForetoldAlways`: the half of `PreviewIsKept` that is control. The checks of
  `confirm_details` are a second copy of those of `execute`, and both agree on every
  call; the diff that was shown is `unified_diff` of the file read and the file left.
* `PreviewKeptAlways` (`PreviewIsKept`) adds the half that is data: `unified_diff` of
  any two texts explains the change with the fewest lines (`DiffExplains`). Both
  tables of `lcs_ops`, the lengths and the walk, are functions of a corner that recurse
  to corners nearer to the end of the two files; `RecursionExists` shows by induction on
  that rank that there is such a function, and what CHOOSE picks is one
  (`DpIs`, `OpsAre`). The same induction then goes over the corners: the walk from a
  corner explains the lines that are left there and keeps as many as the length says
  (`WalkExplains`), and no two sets of lines that are alike have more
  (`NoneLonger`), so that a change of fewer lines would leave more than can be alike.
  `HunksShow` carries this from the walk to the hunks: what is elided is never a change.
  The lines are those of `split_lines`, which does not see whether the last one has
  its newline: two texts with the same lines are the same but for that
  (`SameButEnd`), and a change of it alone is shown as `(no changes)`.

`McpSessionProofs`, for any numbers of pages, calls and lines and any sizes of
requests and pipes:

* `AnswersAlways` (`AnswersItsCall`) and `CompleteAlways` (`ToolsComplete`).
  `AnswerInv` follows a request through the server to the lines of its answer:
  nothing on its way names a request not yet made, and what names the current one
  speaks of its subject. `ListInv` adds that the pages that came are the first ones,
  in order, and that a page is asked for only while one is missing.
* `NotLostAlways` (`AnswerNotLost`). The property is not inductive: a read
  may cut a line from its newline, and taking a line drops all before its newline.
  `StreamInv` says that what is still to be read, the buffer and the pipe together, is
  whole lines wherever reads have cut it, but for the last one of a server that has
  died, and that the answer is a whole one of them. A lemma for each way the stream may
  change (grow, lose its first line, lose its end) keeps both.
* `SessionTypes` (`TypeOK`), with the bounds of the pipes and of the pieces of a
  request.

`LaunchesProofs`, for any disks, servers, tools and numbers of launches, from the
assumptions of `Launches` about its constants: a disk has the three places the program
looks in, no server is called what the model calls the program, `default_tools` makes
one tool of a name, files are sequences of settings, lowering a name twice is lowering it
once, and nothing in `exampleConfig` is rejected and it has a `base_url`
(which TLC evaluates for `MCStarter`, the settings of `Config.cpp:219-301`).

* `LayersAlwaysInOrder` (`LayersInOrder`). Merging is a fold over the settings of one
  file inside another's result; `Tells` says of a configuration that it is what the
  settings read so far mean, each key by its last one, and `ReadTells` that one more
  setting keeps it so. It is carried along the run of the fold (`MergeTells`) and from
  layer to layer (`LayersTell`); `FailedMeansNot` is the other direction, that a launch
  which fails has a setting that is rejected or no `base_url`. For skills the same is
  done with the files of a directory: what is registered under a word is the first
  file of its name (`DirRegisters`, `LoadedSkillsMean`). `LayersInv` ties what `/init`
  wrote to the disk: `inited` is empty or the file is all of it.
* `StarterAlwaysHelps` (`StarterHelps`), from `DiskInv` (the disk keeps its places),
  the cases of `writeStarterConfig`, and `AcceptedLoads`: layers in which nothing is
  rejected and the nearest `base_url` is not empty load. The starter's is the nearest
  in force, since there was no configuration before; only a part that does not parse,
  beside it, can spoil that, and is what the property leaves aside.
* `NamesAlwaysStable` (`NamesStable`). `ToolsInv`: a tool has the name that the scene's
  list of servers gives it, nothing changes the scene, and the program's own stay in
  front, each name once, so that the first of a name is never a server's.
  `MeaningsInv` keeps this for what has been found in earlier launches. That two such
  names are alike only when they are of one tool is `ExposedTells`: of two sequences
  that begin alike one begins the other (`Clash`), or the servers are the same and the
  rest can be cancelled (`Cancels`).
* `LaunchTypes` (`LaunchTypeOK`): a started process is of a launch there has been,
  pipes and transfers end with the program. It needs `StartingInv`, that the servers
  still to start are the scene's.
* `FetchAlwaysHonest` (`FetchIsHonest`), of pages of any length. `html_to_text` is three
  folds; for each a lemma says what it makes of the beginning of a page: `DropsBegin`,
  the beginning of what it makes of the page; `DecodesAlmost` and `CollapsesAlmost`, the
  same but for a last entity that the cap took the `;` from (`Almost`), which is what
  `WithoutCutEntity` leaves aside. That a page is HTML is told from its first
  `HeadBytes`, which are no more than `MaxBytes`, so that the cut page is read as the
  whole one is (`TextBegins`). `FetchInv` says that while a page is received the body
  is its beginning, up to what was sent, and no longer than the cap. It needs that the
  limits of the text are positive and that pages are sequences of tokens
  (`FetchBoundsAssumption`, `PagesAssumption`).

`ChatStreamProofs`, for any bytes, lines, indices and rounds:

* `IndicesAlwaysOfTurn` (`IndicesOfTurn`) and `StreamTypes` (`TypeOK`). A step of
  `ChatStream` is a fold over a queue, inside it a recursion over lines and over the
  calls of a line. The library's induction takes an operator, which the provers cannot
  instantiate; `Climb` (`FoldLemmas`) is the same principle for a *set of numbers*: a set that holds 0
  and with n also n + 1, up to a bound, holds the bound. With it `FoldExists` and
  `FlattenRun` say of `FoldLeft` and of `FlattenSeq` that they have a run of
  intermediate results, and an invariant is carried along the run.
* In `StreamInv`, while a turn is open the two indices that `App` keeps into the chat's
  entries are 0 or of entries behind the turn's message and of their kind
  (`PointsIn`), and the event that ends a turn is the last of the queue, so that
  nothing is shown through them when the next message has been sent or the chat
  cleared (`LastEvent`). One lemma for every case of `drain_events` shows that entries
  stay what they are and that an index moves to a new entry of its kind only.
* `TextAlwaysConserved` (`TextConserved`). In `TextInv` the chat tells two texts
  (`UiTells`): no entry is both an answer and a thought, and the two indices, when they
  are not 0, are of the *last* entry of their kind, so that appending to an entry
  appends to what the chat says; and with what is queued behind them these texts are
  those of the rounds and of the running parser. One lemma for every case of
  `drain_events` (`ShowTells`) and one for the parser (`Announces`: what it announces is
  what it makes), each carried along the run of its fold, and lemmas about joined
  sequences (`FlattenConcat`, `FlattenGrow`).
* `RoundsAlwaysInOrder` (`RoundsInOrder`). A word is marked with its round when the
  server writes it, and then is on the wire, in the parser's buffer, in the queue and
  on the screen: `RoundsInv` is about all four. There is a pair of numbers `r <= s`
  (`Following`) such that the screen is of rounds up to `r`, the queue and the open
  entry go from `r` to `s`, and `s` is no more than the round that is running
  (`Reached`); and all bytes on the way are of that one (`BytesInRound`). The property
  alone says nothing of the queue, so that a step that drains it could not keep it.
* `ParsedAlwaysWhole` (`ParsedWhole`). `WholeInv` says of a transfer under way that
  the lines of the reply are those the parser has taken, of which it has the meaning
  (`Means`: a fold of `process_line` against the reference `Reply`, which sees whole
  lines at once), and those still coming, whose bytes are its buffer followed by the
  wire, but for an end without a newline when the server has ended early
  (`Streamed`). `TakeStreamed` is one turn of `feed`'s loop: what lies before the
  first newline of the buffer is exactly the first line still coming. `FeedQuiet`
  says that `feed` leaves no newline behind, so that the newlines on the wire count the
  lines still to come, which is how `ParsedWhole` knows what has been received. It is
  proved for every set of lines that give each field at most once (`LinesAssumption`):
  what they hold, in which order, and whether lines that are skipped are among them, is
  left open.

`ScreenProofs`, for prompts and chats of any length and terminals of any size, from
`ScreenAssumption` (a window is at least six columns wide):

* The invariant `ScreenInv` (`ScreenSafe`): there is a text whose spelling the buffer
  is and a number of characters behind which the cursor stands (`Stands`), and after
  a frame the chat is scrolled no further than it is long. `Offsets` is where each
  character of a text begins in its spelling; it rises, and a byte is a continuation
  exactly when no offset is there (`BoundaryAt`). With it each helper of `Utf8.cpp`
  and `InputBar.cpp` that walks over bytes is one that counts characters: `PrevAt`,
  `NextAt`, `WalkAt`, `CountAt`, `StartAt`, `EndAt`. `ScreenTypes` (`TypeOK`) follows.
* `ScreenEdits` (`EditsCharacters`), the refinement of `TextEditor`: a lemma for each
  key (`InsertStands`, ..., `UpStands`, `DownStands`) says which text and place stand
  behind it, and `TextEditor`'s action of that name has the same ones. The mapping
  decodes the buffer; that decoding a spelling gives the text back is the link.
* `ScreenWheel` (`WheelMoves`), from the invariant's bound of the scroll offset: it is
  why an offset that grew beyond the top would have to be turned back first. That the
  height of the chat is a sum over its entries, and what folding does to it, is
  `FoldLemmas`' run of a fold.
* `ScreenRows` (`RowsAreBuffer`). `Rows` recurses from a position to a later one.
  `Begins` says of its result, by induction from the end of the buffer downwards, that
  there are characters at which the rows begin, that each row ends where the next one
  begins or before the newline between them (`RowShape`), and that the last one ends the
  text. What is drawn of a row, up to its end and not to the next row's beginning, and
  the newline if there is one, join to the whole (`SlicesJoin`).
* `ScreenCursor` (`CursorShown`): these beginnings rise (`Rises`), so that a character
  is in one row (`RowFound`), the one `wrap_layout` finds (`HoldsAt`), in the column
  that its distance from the row's beginning gives; from the place and the row scrolled
  to, the character can be told again (`PlacesApart`), and the places are as many as
  the positions.

Only model-checked: the liveness properties (`EscEndsTurn`, `PromptsAnswered`,
`ReadingEnds`, `ServersEnd`), which rest on fairness and ENABLED.

## 6. What is not modelled, and why

* Curses output, colours, Markdown and the wording of messages: no property is
  about them. Text wrapping of the chat is abstracted: a word is a line.
* JSON and HTTP: a message is a record, a line of the stream one of the kinds the
  parser tells apart. Odd shapes that make the JSON library throw are values.
* The other tools read the disk or run one command: a nondeterministic result. A
  command runs to its end, whatever Esc says (`RunBashTool.cpp:44`);
  `EscEndsTurn` assumes that it has one.
* Between opening a file for writing and writing it, other programs do not write
  it: the two are one step, that may fail half-way.
* The two processes' sides of a handshake in `Launches`: that it may have no end is
  all there is of it; `McpSession` has what is said. When the working directory is the
  binary's, one file is two layers; they differ here.
* Tokens of a page are whole: that a cap falls inside a tag's name or a character
  changes nothing that `FetchIsHonest` tells apart, but may leave bytes that are no
  UTF-8 (`FetchUrlTool.cpp:66`, `Html.cpp:85`), whose end is `NeverThrows`'.
* `web_search` is one request and the formatting of its answer.
* The data race on the token counters that the status line reads
  (`App.cpp:118`): it changes a displayed number for one frame.
* Base64, attachments, the log, the start-up probes of the server: pure functions,
  file input or single requests, without state.
* Splitting lines of configuration and of frontmatter into keys and values is
  parsing. `ThreadQueue::pop` and `shutdown`, and `ChatView::append_delta`, have no
  caller.

## 7. Plan

Done, in the order of importance: the tool loop and its atomicity; the App
around it; the policy and edits; MCP; streaming; the screen; start, end and what
outlives a launch, with the web's pages; and the proofs of section 5, which now
cover every invariant of `AgentLoop`, `AppSession`, `McpSession`, `GatedEdits` and
`Launches`, and all of `ChatStream` and of `Screen`.

Next:

1. Attachments: a message of which one file cannot be read is not sent.
2. The height of entries with `TextWrap` in `ChatView`, and the scrolling of
   `ConfirmDialog`'s details.
