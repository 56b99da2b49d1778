----------------------------- MODULE McpSession ------------------------------
(***************************************************************************)
(* One MCP server and its client: McpClient (src/src/mcp/McpClient.cpp)    *)
(* over StdioTransport (src/src/mcp/Transport.cpp).  The client runs the   *)
(* handshake, lists the tools page by page and then makes calls, one at a  *)
(* time.  The server is any process: it answers in any order, late or      *)
(* never, sends notifications, requests of its own and stray output, and   *)
(* may die anywhere, also in the middle of a line.                         *)
(*                                                                         *)
(* A line on the way to the client is two pieces, its text and its newline,*)
(* so that a read may end between them.  A request is RequestSize pieces,  *)
(* so that writing one may block half-way.                                 *)
(***************************************************************************)
EXTENDS Naturals, Sequences, FiniteSets, SequencesExt

CONSTANTS
  Pages,        \* pages of the server's tools/list
  RequestSize,  \* pieces of a request
  PipeSize,     \* pieces a pipe holds
  ForeignIds,   \* ids the server may give its own requests
  MaxCalls,     \* bound: tools/call requests made
  MaxLines      \* bound: lines the server writes, after which it is silent

ASSUME SizesAssumption ==
  /\ Pages \in Nat \ {0}
  /\ RequestSize \in Nat \ {0}
  /\ PipeSize \in Nat \ {0, 1}
  /\ ForeignIds \subseteq Nat \ {0}
  /\ MaxCalls \in Nat
  /\ MaxLines \in Nat

VARIABLES
  pc,          \* new, write, read, ready, failed, or killed by a signal
  method,      \* what the current message asks for
  id,          \* McpClient::id_
  cursor,      \* the tools/list cursor: how many pages have been seen
  tools,       \* McpClient::tools_, as the pages they came on
  left,        \* pieces of the current message still to be written
  calls,       \* calls made so far
  result,      \* what the last call returned
  last_error,  \* StdioTransport::last_error_
  fooled,      \* history: a request of the server's own was taken for a response
  buf,         \* StdioTransport::buf_
  toChild,     \* the pipe to the server
  fromChild,   \* the pipe from the server
  alive,       \* the server runs
  asked,       \* requests the server has read and not answered
  answered,    \* ids of those it has answered
  lines        \* lines the server has written

clientVars == <<pc, method, id, cursor, tools, left, calls, result, last_error, fooled, buf>>
serverVars == <<alive, asked, answered, lines>>
vars == <<clientVars, toChild, fromChild, serverVars>>

Methods == {"initialize", "initialized", "tools/list", "tools/call"}

\* answer, error: the two kinds of response; request: one of the server's own;
\* note: a notification; noise: not JSON.
Kinds == {"answer", "error", "request", "note", "noise"}

\* body: of an answer, the page of tools or the number of the call it answers.
Line(kind, i, body) == [kind |-> kind, id |-> i, body |-> body]
Text(line) == [line |-> line, newline |-> FALSE]
Newline == [line |-> Line("noise", 0, 0), newline |-> TRUE]

NoAnswer == [from |-> "none", body |-> 0]

Init ==
  /\ pc = "new" /\ method = "initialize" /\ id = 0 /\ cursor = 0 /\ tools = <<>>
  /\ left = 0 /\ calls = 0 /\ result = NoAnswer /\ last_error = ""
  /\ fooled = FALSE /\ buf = <<>>
  /\ toChild = <<>> /\ fromChild = <<>>
  /\ alive = TRUE /\ asked = {} /\ answered = {} /\ lines = 0

-----------------------------------------------------------------------------
(* Writing.                                                                 *)

Begin(what) ==
  /\ pc' = "write"
  /\ method' = what
  /\ left' = RequestSize

\* A request gets the next id; a notification has none.
Request(what) == Begin(what) /\ id' = id + 1

\* McpClient::start.
Start ==
  /\ pc = "new"
  /\ Request("initialize")
  /\ UNCHANGED <<cursor, tools, calls, result, last_error, fooled, buf, toChild, fromChild, serverVars>>

\* McpClient::call, from McpTool::execute.
Call ==
  /\ pc = "ready"
  /\ calls < MaxCalls
  /\ calls' = calls + 1
  /\ result' = NoAnswer
  /\ Request("tools/call")
  /\ UNCHANGED <<cursor, tools, last_error, fooled, buf, toChild, fromChild, serverVars>>

Piece ==
  [id |-> IF method = "initialized" THEN 0 ELSE id, method |-> method,
   body |-> IF method = "tools/call" THEN calls ELSE cursor, last |-> left = 1]

\* One write(2), which takes what there is room for.  It blocks, without a time
\* limit, while the pipe is full.
WriteSome ==
  /\ pc = "write" /\ alive /\ left > 0
  /\ Len(toChild) < PipeSize
  /\ toChild' = Append(toChild, Piece)
  /\ left' = left - 1
  /\ UNCHANGED <<pc, method, id, cursor, tools, calls, result, last_error, fooled, buf,
                 fromChild, serverVars>>

\* Nobody ignores SIGPIPE: writing to a server that is gone ends the program.
WriteBroken ==
  /\ pc = "write" /\ ~alive /\ left > 0
  /\ pc' = "killed"
  /\ UNCHANGED <<method, id, cursor, tools, left, calls, result, last_error, fooled, buf,
                 toChild, fromChild, serverVars>>

\* The notification needs no reply: on to the first page.
Notified ==
  /\ pc = "write" /\ left = 0
  /\ method = "initialized"
  /\ Request("tools/list")
  /\ UNCHANGED <<cursor, tools, calls, result, last_error, fooled, buf, toChild, fromChild, serverVars>>

Written ==
  /\ pc = "write" /\ left = 0
  /\ method # "initialized"
  /\ pc' = "read"
  /\ UNCHANGED <<method, id, cursor, tools, left, calls, result, last_error, fooled, buf,
                 toChild, fromChild, serverVars>>

-----------------------------------------------------------------------------
(* Reading: StdioTransport::request's loop around read_line.                *)

HasLine == \E i \in DOMAIN buf : buf[i].newline

\* A mistake: a response is taken whatever its id.
Ours_AnyResponse(line) == line.kind \in {"answer", "error"} \/ line.id = id

\* The line's id is the request's: what else the line is, is not looked at.
Ours(line) == line.kind # "noise" /\ line.id = id

\* A mistake: a page that is not the first replaces the tools.
ListPage_Replaces(line) ==
  IF line.kind # "answer" THEN pc' = "ready" /\ UNCHANGED <<method, id, cursor, tools, left>>
  ELSE /\ tools' = <<line.body>>
       /\ IF line.body = Pages
            THEN pc' = "ready" /\ cursor' = cursor /\ UNCHANGED <<method, id, left>>
            ELSE Request("tools/list") /\ cursor' = line.body

\* A mistake: the last page's empty cursor is taken for one more page.
ListPage_OneMore(line) ==
  IF line.kind # "answer" THEN pc' = "ready" /\ UNCHANGED <<method, id, cursor, tools, left>>
  ELSE /\ tools' = Append(tools, line.body)
       /\ Request("tools/list") /\ cursor' = line.body

\* A page of tools; a cursor asks for the next.  A request of the server's own has
\* no result, so it reads as an empty last page.
ListPage(line) ==
  IF line.kind # "answer" THEN pc' = "ready" /\ UNCHANGED <<method, id, cursor, tools, left>>
  ELSE /\ tools' = Append(tools, line.body)
       /\ IF line.body = Pages
            THEN pc' = "ready" /\ cursor' = cursor /\ UNCHANGED <<method, id, left>>
            ELSE Request("tools/list") /\ cursor' = line.body

\* What start() and call() do with a response.
Receive(line) ==
  \/ /\ method = "initialize" /\ line.kind # "error"
     /\ Begin("initialized")
     /\ UNCHANGED <<id, cursor, tools, result>>
  \/ /\ method = "tools/list" /\ line.kind # "error"
     /\ ListPage(line)
     /\ UNCHANGED result
  \/ /\ method # "tools/call" /\ line.kind = "error"
     /\ pc' = "failed"
     /\ UNCHANGED <<method, id, cursor, tools, left, result>>
  \/ /\ method = "tools/call"
     /\ pc' = "ready"
     /\ result' = [from |-> line.kind, body |-> line.body]
     /\ UNCHANGED <<method, id, cursor, tools, left>>

Skip == UNCHANGED <<pc, method, id, cursor, tools, left, result>>

Consider(line) ==
  /\ IF Ours(line) THEN Receive(line) ELSE Skip
  /\ fooled' = (fooled \/ (Ours(line) /\ line.kind = "request"))

\* A mistake: what follows a line in the buffer is thrown away with it.
TakeLine_ClearsBuffer ==
  /\ pc = "read" /\ HasLine
  /\ Consider(Head(buf).line)
  /\ buf' = <<>>
  /\ UNCHANGED <<calls, last_error, toChild, fromChild, serverVars>>

\* The first complete line of the buffer.
TakeLine ==
  /\ pc = "read" /\ HasLine
  /\ Consider(Head(buf).line)
  /\ buf' = SubSeq(buf, 3, Len(buf))
  /\ UNCHANGED <<calls, last_error, toChild, fromChild, serverVars>>

\* One read(2) of whatever has arrived.
ReadChunk ==
  /\ pc = "read" /\ ~HasLine
  /\ \E n \in 1..Len(fromChild) :
       /\ buf' = buf \o SubSeq(fromChild, 1, n)
       /\ fromChild' = SubSeq(fromChild, n + 1, Len(fromChild))
  /\ UNCHANGED <<pc, method, id, cursor, tools, left, calls, result, last_error, fooled,
                 toChild, serverVars>>

\* The request failed: start() gives up, call() reports it.
Fail(cause) ==
  /\ pc' = IF method = "tools/call" THEN "ready" ELSE "failed"
  /\ result' = IF method = "tools/call" THEN [from |-> cause, body |-> 0] ELSE result
  /\ UNCHANGED <<method, id, cursor, tools, left>>

\* A mistake: a time-out is taken for an interrupted poll and waited out again.
PollTimeout_Waits ==
  /\ pc = "read" /\ ~HasLine /\ fromChild = <<>> /\ alive
  /\ UNCHANGED vars

\* poll() saw nothing for kReadTimeoutMs.
PollTimeout ==
  /\ pc = "read" /\ ~HasLine /\ fromChild = <<>> /\ alive
  /\ last_error' = "timeout"
  /\ Fail("timeout")
  /\ UNCHANGED <<calls, fooled, buf, toChild, fromChild, serverVars>>

\* End of file.  A last line without its newline still counts, if it is JSON;
\* otherwise the error is the one an earlier request left, if any.
EndOfFile ==
  /\ pc = "read" /\ ~HasLine /\ fromChild = <<>> /\ ~alive
  /\ buf' = <<>>
  /\ IF buf # <<>> /\ Head(buf).line.kind # "noise"
       THEN Consider(Head(buf).line)
       ELSE Fail(IF last_error = "" THEN "closed" ELSE last_error) /\ UNCHANGED fooled
  /\ UNCHANGED <<calls, last_error, toChild, fromChild, serverVars>>

ClientNext ==
  \/ Start \/ Call \/ WriteSome \/ WriteBroken \/ Notified \/ Written
  \/ TakeLine \/ ReadChunk \/ PollTimeout \/ EndOfFile

-----------------------------------------------------------------------------
(* The server, which is not part of the program.                            *)

\* It reads the next piece of its standard input.
ServerReads ==
  /\ alive /\ toChild # <<>>
  /\ toChild' = Tail(toChild)
  /\ asked' = IF Head(toChild).last /\ Head(toChild).id # 0
                THEN asked \cup {[id |-> Head(toChild).id, method |-> Head(toChild).method,
                                  body |-> Head(toChild).body]}
                ELSE asked
  /\ UNCHANGED <<clientVars, fromChild, alive, answered, lines>>

\* It writes a line, when there is room for it.
Emits(line) ==
  /\ alive /\ lines < MaxLines
  /\ Len(fromChild) + 2 <= PipeSize
  /\ fromChild' = fromChild \o <<Text(line), Newline>>
  /\ lines' = lines + 1

\* Tools after a cursor, or the outcome of the call that was asked for.
AnswerTo(query) ==
  Line("answer", query.id, IF query.method = "tools/list" THEN query.body + 1 ELSE query.body)

ServerAnswers ==
  \E query \in asked :
    /\ Emits(AnswerTo(query)) \/ Emits(Line("error", query.id, 0))
    /\ asked' = asked \ {query}
    /\ answered' = answered \cup {query.id}
    /\ UNCHANGED <<clientVars, toChild, alive>>

ServerChatters ==
  /\ \/ Emits(Line("note", 0, 0))
     \/ Emits(Line("noise", 0, 0))
     \/ \E i \in ForeignIds : Emits(Line("request", i, 0))
  /\ UNCHANGED <<clientVars, toChild, alive, asked, answered>>

\* It dies, perhaps leaving the text of an answer, or part of it, without a newline.
ServerDies ==
  /\ alive
  /\ alive' = FALSE
  /\ \/ UNCHANGED <<fromChild, answered>>
     \/ /\ fromChild' = Append(fromChild, Text(Line("noise", 0, 0)))
        /\ UNCHANGED answered
     \/ \E query \in asked : fromChild' = Append(fromChild, Text(AnswerTo(query)))
                             /\ answered' = answered \cup {query.id}
  /\ UNCHANGED <<clientVars, toChild, asked, lines>>

ServerNext == ServerReads \/ ServerAnswers \/ ServerChatters \/ ServerDies

Next == ClientNext \/ ServerNext

Spec == Init /\ [][Next]_vars

\* The program runs on; a poll() that nothing answers times out.  Nothing is assumed
\* of the server.
FairSpec == Spec /\ WF_vars(ClientNext)

-----------------------------------------------------------------------------
Bodies == 0..(Pages + MaxCalls)
Lines == [kind : Kinds, id : Nat, body : Bodies]
Pieces == [line : Lines, newline : BOOLEAN]

TypeOK ==
  /\ pc \in {"new", "write", "read", "ready", "failed", "killed"}
  /\ method \in Methods
  /\ id \in 0..(Pages + MaxCalls + 1)
  /\ cursor \in 0..Pages
  /\ tools \in Seq(1..Pages)
  /\ left \in 0..RequestSize
  /\ calls \in 0..MaxCalls
  /\ result \in [from : Kinds \cup {"none", "timeout", "closed"}, body : Bodies]
  /\ last_error \in {"", "timeout"}
  /\ fooled \in BOOLEAN
  /\ buf \in Seq(Pieces) /\ fromChild \in Seq(Pieces)
  /\ Len(toChild) <= PipeSize
  /\ alive \in BOOLEAN
  /\ answered \subseteq 1..id
  /\ lines \in 0..MaxLines

\* What the client has still to read: whole lines, but for the last when the server
\* has died, wherever the reads have cut it.
Unread == buf \o fromChild

\* The answer to the request being waited for is not lost: once the server has sent
\* it, it is in the buffer or in the pipe until the client takes it, whatever late
\* answers, notifications and stray lines were skipped on the way and wherever the
\* reads cut the stream (Transport.cpp:51-72, 94-133).
AnswerNotLost ==
  pc = "read" /\ id \in answered =>
    \E i \in DOMAIN Unread :
      /\ ~Unread[i].newline
      /\ Unread[i].line.kind \in {"answer", "error"}
      /\ Unread[i].line.id = id

\* A call never returns the outcome of another: when one timed out and the server
\* still carries it out, its late answer is skipped by the calls after it
\* (Transport.cpp:62-69, McpClient.cpp:100-115).
AnswersItsCall == result.from = "answer" => result.body = calls

\* A server that is up offers all its tools, page by page, each once, in order: no
\* interleaving of late pages, errors and cuts exposes a part of the list
\* (McpClient.cpp:61-97, 196-206).  Only a request of the server's own under the id of
\* a tools/list request, which reads as a last page, may cut the list short.
ToolsComplete ==
  pc = "ready" \/ method = "tools/call" =>
    /\ tools = [n \in 1..Len(tools) |-> n]
    /\ Len(tools) = Pages \/ fooled

\* Waiting for a response ends, with the response, an error or a time-out, once the
\* server falls silent, as it does here after MaxLines lines: each wait has the time
\* limit of its own that Transport.cpp:24-25 gives it.
ReadingEnds == pc = "read" ~> pc # "read"

-----------------------------------------------------------------------------
\* "Invoke a remote tool. Never throws; failures land in McpCallResult."
\* (McpClient.hpp:45).
SurvivesServer == pc # "killed"
=============================================================================
