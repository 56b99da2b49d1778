-------------------------- MODULE McpSessionProofs --------------------------
(***************************************************************************)
(* Proofs about McpSession, for servers with any number of pages, any      *)
(* sizes of requests and pipes, and any number of calls and lines: a call  *)
(* never returns the outcome of another, a server that is up offers the    *)
(* tools of all its pages, the answer that is waited for is not lost, and  *)
(* the state keeps its types and bounds.                                   *)
(*                                                                         *)
(* The first inductive invariant follows a request from the client's       *)
(* pieces through the server to the lines of its answer: none of them      *)
(* names a request that has not been made, and those that name the current *)
(* one, when it is a call, speak of that call.  A new request weakens what *)
(* is said of all that is on its way, since nothing there bears its id     *)
(* yet.  The second one, StreamInv, follows what the client has still to   *)
(* read: it is whole lines wherever reads cut it, so that taking a line    *)
(* never takes a piece of the next.                                        *)
(***************************************************************************)
EXTENDS McpSession, SequenceTheorems, TLAPS

\* The id of the current request, of those that are told apart by more than it.
IsAsked(i) == i = id /\ method \in {"tools/list", "tools/call"}

\* What it is about: the pages seen, or the number of the call.
Subject == IF method = "tools/call" THEN calls ELSE cursor

GoodWrites ==
  {w \in [id : Nat, method : Methods, body : Nat, last : BOOLEAN] :
     w.id <= id /\ (IsAsked(w.id) => w.method = method /\ w.body = Subject)}

GoodQueries ==
  {q \in [id : Nat, method : Methods, body : Nat] :
     q.id <= id /\ (IsAsked(q.id) => q.method = method /\ q.body = Subject)}

Outcome == IF method = "tools/list" THEN Subject + 1 ELSE Subject

GoodLines ==
  {line \in [kind : Kinds, id : Nat, body : Nat] :
     /\ line.kind = "answer" => line.id <= id /\ (IsAsked(line.id) => line.body = Outcome)
     /\ line.kind = "note" => line.id = 0}

GoodPieces == [line : GoodLines, newline : BOOLEAN]

Counters ==
  /\ id \in Nat /\ calls \in Nat /\ cursor \in Nat
  /\ method \in Methods
  /\ method \in {"tools/list", "tools/call"} => id > 0
  /\ last_error \in {"", "timeout"}

OnItsWay ==
  /\ toChild \in Seq(GoodWrites)
  /\ asked \subseteq GoodQueries
  /\ fromChild \in Seq(GoodPieces)
  /\ buf \in Seq(GoodPieces)

AnswerInv == Counters /\ OnItsWay /\ AnswersItsCall

-----------------------------------------------------------------------------
(* Sequences.                                                               *)

LEMMA SeqWidens ==
  ASSUME NEW S, NEW T, S \subseteq T, NEW s \in Seq(S)
  PROVE  s \in Seq(T)
OBVIOUS

LEMMA SeqParts ==
  ASSUME NEW S, NEW s \in Seq(S), NEW t \in Seq(S), NEW e \in S
  PROVE  /\ s \o t \in Seq(S)
         /\ Append(s, e) \in Seq(S)
         /\ s # <<>> => Head(s) \in S /\ Tail(s) \in Seq(S)
         /\ \A m \in Nat \ {0}, n \in 0..Len(s) : SubSeq(s, m, n) \in Seq(S)
OBVIOUS

-----------------------------------------------------------------------------
(* How the client's steps move the id.                                      *)

\* Another request, or the same one still.
IdMoves ==
  /\ id' \in Nat
  /\ \/ id' = id + 1
     \/ /\ id' = id
        /\ method' \in {"tools/list", "tools/call"} => UNCHANGED <<method, calls, cursor>>

\* What is on its way stays as good as it was.
LEMMA GoodStays ==
  ASSUME Counters, IdMoves
  PROVE  /\ GoodWrites \subseteq GoodWrites' /\ GoodQueries \subseteq GoodQueries'
         /\ GoodLines \subseteq GoodLines' /\ GoodPieces \subseteq GoodPieces'
<1>1. \A i \in Nat : i <= id =>
        i <= id' /\ (IsAsked(i)' => IsAsked(i) /\ UNCHANGED <<method, calls, cursor>>)
  <2> SUFFICES ASSUME NEW i \in Nat, i <= id
               PROVE  /\ i <= id'
                      /\ IsAsked(i)' => IsAsked(i) /\ UNCHANGED <<method, calls, cursor>>
    OBVIOUS
  <2>1. CASE id' = id + 1
    <3>1. id \in Nat
      BY DEF Counters
    <3>2. i <= id' /\ i # id'
      BY <2>1, <3>1
    <3> QED
      BY <3>2 DEF IsAsked
  <2>2. CASE /\ id' = id
             /\ method' \in {"tools/list", "tools/call"} => UNCHANGED <<method, calls, cursor>>
    BY <2>2 DEF IsAsked
  <2> QED
    BY <2>1, <2>2 DEF IdMoves
<1>2. ASSUME NEW w \in GoodWrites PROVE w \in GoodWrites'
  BY <1>1 DEF GoodWrites, Subject
<1>3. ASSUME NEW q \in GoodQueries PROVE q \in GoodQueries'
  BY <1>1 DEF GoodQueries, Subject
<1>4. ASSUME NEW line \in GoodLines PROVE line \in GoodLines'
  BY <1>1 DEF GoodLines, Outcome, Subject
<1>5. GoodLines \subseteq GoodLines'
  BY <1>4
<1>6. GoodPieces \subseteq GoodPieces'
  BY <1>5 DEF GoodPieces
<1> QED
  BY <1>2, <1>3, <1>5, <1>6

LEMMA WayStays ==
  ASSUME Counters, OnItsWay, IdMoves
  PROVE  /\ toChild \in Seq(GoodWrites') /\ asked \subseteq GoodQueries'
         /\ fromChild \in Seq(GoodPieces') /\ buf \in Seq(GoodPieces')
BY GoodStays, SeqWidens DEF OnItsWay

-----------------------------------------------------------------------------
(* The client's steps.                                                      *)

LEMMA RequestMoves ==
  ASSUME Counters, NEW what \in Methods, Request(what)
  PROVE  /\ id' = id + 1 /\ id' \in Nat /\ id' > 0
         /\ method' = what /\ method' \in Methods
         /\ IdMoves
<1>1. id' = id + 1 /\ method' = what /\ id \in Nat
  BY DEF Request, Begin, Counters
<1>2. id' \in Nat /\ id' > 0
  BY <1>1
<1> QED
  BY <1>1, <1>2 DEF IdMoves

\* What a line that is looked at does to the client.
LEMMA ConsiderKeeps ==
  ASSUME Counters, AnswersItsCall, NEW line \in GoodLines, Consider(line),
         calls' = calls, last_error' = last_error
  PROVE  Counters' /\ IdMoves /\ AnswersItsCall'
<1>0. /\ line.id \in Nat /\ line.body \in Nat /\ line.kind \in Kinds
      /\ line.kind = "answer" /\ IsAsked(line.id) => line.body = Outcome
  BY DEF GoodLines
<1>1. CASE Ours(line) /\ method = "initialize" /\ line.kind # "error"
           /\ Begin("initialized") /\ UNCHANGED <<id, cursor, tools, result>>
  BY <1>1 DEF Counters, IdMoves, Begin, AnswersItsCall, Methods
<1>2. CASE Ours(line) /\ method = "tools/list" /\ ListPage(line) /\ UNCHANGED result
  <2>1. CASE UNCHANGED <<method, id, cursor>>
    BY <1>2, <2>1 DEF Counters, IdMoves, AnswersItsCall
  <2>2. CASE Request("tools/list") /\ cursor' \in {line.body, cursor}
    <3>1. id' \in Nat /\ id' > 0 /\ method' \in Methods /\ IdMoves
      BY <2>2, RequestMoves DEF Methods
    <3>2. cursor' \in Nat
      BY <1>0, <2>2 DEF Counters
    <3>3. Counters'
      BY <3>1, <3>2 DEF Counters
    <3> QED
      BY <1>2, <3>1, <3>3 DEF AnswersItsCall
  <2>3. CASE line.kind # "answer"
    BY <1>2, <2>1, <2>3 DEF ListPage
  <2>4. CASE line.kind = "answer" /\ line.body = Pages
    BY <1>2, <2>1, <2>4 DEF ListPage
  <2>5. CASE line.kind = "answer" /\ line.body # Pages
    BY <1>2, <2>2, <2>5 DEF ListPage
  <2> QED
    BY <2>3, <2>4, <2>5
<1>3. CASE UNCHANGED <<method, id, cursor, result>>
  BY <1>3 DEF Counters, IdMoves, AnswersItsCall
<1>4. CASE /\ Ours(line) /\ method = "tools/call"
           /\ result' = [from |-> line.kind, body |-> line.body]
           /\ UNCHANGED <<method, id, cursor, tools, left>>
  <2>1. line.kind = "answer" => line.body = calls
    BY <1>0, <1>4 DEF Ours, IsAsked, Outcome, Subject
  <2> QED
    BY <1>4, <2>1 DEF Counters, IdMoves, AnswersItsCall
<1> QED
  BY <1>1, <1>2, <1>3, <1>4 DEF Consider, Receive, Skip

\* A request that fails returns no answer.
LEMMA FailKeeps ==
  ASSUME Counters, AnswersItsCall, NEW cause \in {"timeout", "closed"}, Fail(cause),
         calls' = calls, last_error' \in {"", "timeout"}
  PROVE  Counters' /\ IdMoves /\ AnswersItsCall'
<1>1. method' = method /\ id' = id /\ cursor' = cursor
  BY DEF Fail
<1>2. result' = result \/ result'.from = cause
  BY DEF Fail
<1> QED
  BY <1>1, <1>2 DEF Counters, IdMoves, AnswersItsCall

\* A line of the buffer is a good line.
LEMMA HeadIsGood ==
  ASSUME OnItsWay, buf # <<>>
  PROVE  Head(buf).line \in GoodLines
<1>1. Head(buf) \in GoodPieces
  BY SeqParts DEF OnItsWay
<1> QED
  BY <1>1 DEF GoodPieces

LEMMA ClientKeeps == AnswerInv /\ ClientNext => AnswerInv'
<1> SUFFICES ASSUME Counters, OnItsWay, AnswersItsCall, ClientNext PROVE AnswerInv'
  BY DEF AnswerInv
<1>typ. id \in Nat /\ calls \in Nat /\ cursor \in Nat /\ method \in Methods
  BY DEF Counters
<1> DEFINE NoWrite == UNCHANGED <<toChild, fromChild, asked, buf>>
<1>way. ASSUME IdMoves, NoWrite PROVE OnItsWay'
  BY <1>way, WayStays DEF OnItsWay
<1>1. CASE Start \/ Notified
  <2>1. PICK what \in {"initialize", "tools/list"} : Request(what)
    BY <1>1 DEF Start, Notified
  <2>2. id' \in Nat /\ id' > 0 /\ method' \in Methods /\ IdMoves
    BY <2>1, RequestMoves DEF Methods
  <2>3. UNCHANGED <<calls, cursor, last_error, result>> /\ NoWrite
    BY <1>1 DEF Start, Notified, serverVars
  <2> QED
    BY <1>way, <2>2, <2>3 DEF AnswerInv, Counters, AnswersItsCall
<1>2. CASE Call
  <2>1. Request("tools/call") /\ calls' = calls + 1 /\ result' = NoAnswer
    BY <1>2 DEF Call
  <2>2. id' \in Nat /\ id' > 0 /\ method' \in Methods /\ IdMoves
    BY <2>1, RequestMoves DEF Methods
  <2>3. UNCHANGED <<cursor, last_error>> /\ NoWrite
    BY <1>2 DEF Call, serverVars
  <2>4. calls' \in Nat
    BY <1>typ, <2>1
  <2>5. Counters'
    BY <2>2, <2>3, <2>4 DEF Counters
  <2>6. AnswersItsCall'
    BY <2>1 DEF AnswersItsCall, NoAnswer
  <2> QED
    BY <1>way, <2>2, <2>3, <2>5, <2>6 DEF AnswerInv
<1>3. CASE WriteSome
  <2>1. /\ toChild' = Append(toChild, Piece)
        /\ UNCHANGED <<method, id, cursor, calls, last_error, result, buf, fromChild, asked>>
    BY <1>3 DEF WriteSome, serverVars
  <2>2. Piece \in GoodWrites
    <3>1. /\ Piece.id \in {0, id} /\ Piece.method = method /\ Piece.last \in BOOLEAN
          /\ Piece.body = IF method = "tools/call" THEN calls ELSE cursor
          /\ Piece \in [id : Nat, method : Methods, body : Nat, last : BOOLEAN]
      BY <1>typ DEF Piece
    <3>2. Piece.id <= id
      BY <1>typ, <3>1
    <3>3. IsAsked(Piece.id) => Piece.method = method /\ Piece.body = Subject
      BY <3>1 DEF Subject
    <3> QED
      BY <3>1, <3>2, <3>3 DEF GoodWrites
  <2>3. IdMoves
    BY <2>1 DEF IdMoves, Counters
  <2>4. toChild' \in Seq(GoodWrites')
    <3>1. Piece \in GoodWrites'
      BY <2>2, <2>3, GoodStays
    <3> QED
      BY <2>1, <2>3, <3>1, WayStays, SeqParts
  <2>5. OnItsWay'
    BY <2>1, <2>3, <2>4, WayStays DEF OnItsWay
  <2> QED
    BY <2>1, <2>5 DEF AnswerInv, Counters, AnswersItsCall
<1>4. CASE WriteBroken \/ Written
  <2>1. UNCHANGED <<method, id, cursor, calls, last_error, result>> /\ NoWrite
    BY <1>4 DEF WriteBroken, Written, serverVars
  <2>2. IdMoves
    BY <2>1 DEF IdMoves, Counters
  <2> QED
    BY <1>way, <2>1, <2>2 DEF AnswerInv, Counters, AnswersItsCall
<1>5. CASE TakeLine
  <2>1. /\ buf # <<>> /\ Consider(Head(buf).line) /\ buf' = SubSeq(buf, 3, Len(buf))
        /\ UNCHANGED <<calls, last_error, toChild, fromChild, asked>>
    BY <1>5 DEF TakeLine, HasLine, serverVars
  <2>2. Counters' /\ IdMoves /\ AnswersItsCall'
    BY <2>1, HeadIsGood, ConsiderKeeps
  <2>3. buf' \in Seq(GoodPieces')
    <3>1. buf \in Seq(GoodPieces') /\ Len(buf) \in 0..Len(buf)
      BY <2>2, WayStays
    <3> QED
      BY <2>1, <3>1, SeqParts
  <2> QED
    BY <2>1, <2>2, <2>3, WayStays DEF AnswerInv, OnItsWay
<1>6. CASE ReadChunk
  <2>1. PICK n \in 1..Len(fromChild) :
          /\ buf' = buf \o SubSeq(fromChild, 1, n)
          /\ fromChild' = SubSeq(fromChild, n + 1, Len(fromChild))
    BY <1>6 DEF ReadChunk
  <2>2. UNCHANGED <<method, id, cursor, calls, last_error, result, toChild, asked>>
    BY <1>6 DEF ReadChunk, serverVars
  <2>3. IdMoves
    BY <2>2 DEF IdMoves, Counters
  <2>4. buf \in Seq(GoodPieces') /\ fromChild \in Seq(GoodPieces')
    BY <2>3, WayStays
  <2>5. SubSeq(fromChild, 1, n) \in Seq(GoodPieces') /\ fromChild' \in Seq(GoodPieces')
    BY <2>1, <2>4
  <2>6. buf' \in Seq(GoodPieces')
    BY <2>1, <2>4, <2>5
  <2> QED
    BY <2>2, <2>3, <2>5, <2>6, WayStays DEF AnswerInv, OnItsWay, Counters, AnswersItsCall
<1>7. CASE PollTimeout
  <2>1. Fail("timeout") /\ last_error' = "timeout" /\ calls' = calls /\ NoWrite
    BY <1>7 DEF PollTimeout, serverVars
  <2>2. Counters' /\ IdMoves /\ AnswersItsCall'
    BY <2>1, FailKeeps
  <2> QED
    BY <1>way, <2>1, <2>2 DEF AnswerInv
<1>8. CASE EndOfFile
  <2>1. buf' = <<>> /\ UNCHANGED <<calls, last_error, toChild, fromChild, asked>>
    BY <1>8 DEF EndOfFile, serverVars
  <2>2. Counters' /\ IdMoves /\ AnswersItsCall'
    <3>1. CASE buf # <<>> /\ Consider(Head(buf).line)
      BY <2>1, <3>1, HeadIsGood, ConsiderKeeps
    <3>2. CASE \E cause \in {"timeout", "closed"} : Fail(cause)
      <4>1. last_error' \in {"", "timeout"}
        BY <2>1 DEF Counters
      <4> QED
        BY <2>1, <3>2, <4>1, FailKeeps
    <3>3. \/ buf # <<>> /\ Consider(Head(buf).line)
          \/ Fail(IF last_error = "" THEN "closed" ELSE last_error)
      BY <1>8 DEF EndOfFile
    <3>4. (IF last_error = "" THEN "closed" ELSE last_error) \in {"timeout", "closed"}
      BY DEF Counters
    <3> QED
      BY <3>1, <3>2, <3>3, <3>4
  <2>3. buf' \in Seq(GoodPieces')
    BY <2>1
  <2> QED
    BY <2>1, <2>2, <2>3, WayStays DEF AnswerInv, OnItsWay
<1> QED
  BY <1>1, <1>2, <1>3, <1>4, <1>5, <1>6, <1>7, <1>8 DEF ClientNext

-----------------------------------------------------------------------------
(* The server's steps.                                                      *)

\* What a server writes of its own accord is no answer.
LEMMA NoAnswerIsGood ==
  ASSUME NEW kind \in Kinds \ {"answer"}, NEW i \in Nat, kind = "note" => i = 0
  PROVE  Line(kind, i, 0) \in GoodLines
BY DEF Line, GoodLines

LEMMA AnswerIsGood ==
  ASSUME OnItsWay, NEW query \in asked
  PROVE  AnswerTo(query) \in GoodLines
<1>1. /\ query \in [id : Nat, method : Methods, body : Nat] /\ query.id <= id
      /\ IsAsked(query.id) => query.method = method /\ query.body = Subject
  BY DEF OnItsWay, GoodQueries
<1>2. query.id \in Nat /\ query.body \in Nat /\ query.body + 1 \in Nat
  BY <1>1
<1>3. /\ AnswerTo(query).id = query.id
      /\ AnswerTo(query) \in [kind : Kinds, id : Nat, body : Nat]
      /\ AnswerTo(query).kind = "answer"
      /\ AnswerTo(query).body =
           IF query.method = "tools/list" THEN query.body + 1 ELSE query.body
  BY <1>2 DEF AnswerTo, Line, Kinds
<1> QED
  BY <1>1, <1>3 DEF GoodLines, Outcome

LEMMA PieceIsGood ==
  ASSUME NEW line \in GoodLines
  PROVE  Text(line) \in GoodPieces /\ Newline \in GoodPieces
<1>1. Line("noise", 0, 0) \in GoodLines
  BY NoAnswerIsGood DEF Kinds
<1> QED
  BY <1>1 DEF Text, Newline, GoodPieces

LEMMA ServerKeeps == AnswerInv /\ ServerNext => AnswerInv'
<1> SUFFICES ASSUME Counters, OnItsWay, AnswersItsCall, ServerNext PROVE AnswerInv'
  BY DEF AnswerInv
<1>1. UNCHANGED clientVars
  BY DEF ServerNext, ServerReads, ServerAnswers, ServerChatters, ServerDies
<1>2. Counters' /\ IdMoves /\ AnswersItsCall' /\ buf' = buf
  BY <1>1 DEF clientVars, Counters, IdMoves, AnswersItsCall
<1>3. SUFFICES /\ toChild' \in Seq(GoodWrites') /\ asked' \subseteq GoodQueries'
               /\ fromChild' \in Seq(GoodPieces')
  BY <1>2, WayStays DEF AnswerInv, OnItsWay
<1>4. ASSUME NEW line \in GoodLines, Emits(line) PROVE fromChild' \in Seq(GoodPieces')
  <2>1. Text(line) \in GoodPieces' /\ Newline \in GoodPieces'
    BY <1>2, PieceIsGood, GoodStays
  <2>2. <<Text(line), Newline>> \in Seq(GoodPieces')
    BY <2>1
  <2>3. fromChild \in Seq(GoodPieces')
    BY <1>2, WayStays
  <2> QED
    BY <1>4, <2>2, <2>3 DEF Emits
<1>5. CASE ServerReads
  <2>1. /\ toChild # <<>> /\ toChild' = Tail(toChild) /\ fromChild' = fromChild
        /\ \/ asked' = asked
           \/ asked' = asked \cup {[id |-> Head(toChild).id, method |-> Head(toChild).method,
                                    body |-> Head(toChild).body]}
    BY <1>5 DEF ServerReads
  <2>2. Head(toChild) \in GoodWrites /\ toChild' \in Seq(GoodWrites)
    BY <2>1, SeqParts DEF OnItsWay
  <2>3. [id |-> Head(toChild).id, method |-> Head(toChild).method,
         body |-> Head(toChild).body] \in GoodQueries
    BY <2>2 DEF GoodWrites, GoodQueries
  <2>4. asked' \subseteq GoodQueries
    BY <2>1, <2>3 DEF OnItsWay
  <2> QED
    BY <1>2, <2>1, <2>2, <2>4, GoodStays, SeqWidens, WayStays
<1>6. CASE ServerAnswers
  <2>1. PICK query \in asked :
          /\ Emits(AnswerTo(query)) \/ Emits(Line("error", query.id, 0))
          /\ asked' = asked \ {query} /\ toChild' = toChild
    BY <1>6 DEF ServerAnswers
  <2>2. query.id \in Nat
    BY DEF OnItsWay, GoodQueries
  <2>3. AnswerTo(query) \in GoodLines /\ Line("error", query.id, 0) \in GoodLines
    BY <2>2, AnswerIsGood, NoAnswerIsGood DEF Kinds
  <2> QED
    BY <1>2, <1>4, <2>1, <2>3, WayStays
<1>7. CASE ServerChatters
  <2>1. UNCHANGED <<toChild, asked>>
    BY <1>7 DEF ServerChatters
  <2>2. \E kind \in {"note", "noise", "request"}, i \in Nat :
          (kind = "note" => i = 0) /\ Emits(Line(kind, i, 0))
    BY <1>7, SizesAssumption DEF ServerChatters
  <2>3. fromChild' \in Seq(GoodPieces')
    BY <1>4, <2>2, NoAnswerIsGood DEF Kinds
  <2> QED
    BY <1>2, <2>1, <2>3, WayStays
<1>8. CASE ServerDies
  <2>1. UNCHANGED <<toChild, asked>>
    BY <1>8 DEF ServerDies
  <2>2. fromChild \in Seq(GoodPieces')
    BY <1>2, WayStays
  <2>3. fromChild' = fromChild
          \/ \E line \in GoodLines : fromChild' = Append(fromChild, Text(line))
    BY <1>8, AnswerIsGood, NoAnswerIsGood DEF ServerDies, Kinds
  <2>4. \A line \in GoodLines : Text(line) \in GoodPieces'
    BY <1>2, PieceIsGood, GoodStays
  <2>5. fromChild' \in Seq(GoodPieces')
    BY <2>2, <2>3, <2>4, SeqParts
  <2> QED
    BY <1>2, <2>1, <2>5, WayStays
<1> QED
  BY <1>5, <1>6, <1>7, <1>8 DEF ServerNext

\* Whatever is in the pipe with the id of the pending call is its own answer
\* (Transport.cpp:62-69, McpClient.cpp:100-115).
THEOREM AnswerInvariance == Spec => []AnswerInv
<1>1. Init => AnswerInv
  <2> SUFFICES ASSUME Init PROVE AnswerInv
    OBVIOUS
  <2>1. Counters
    <3>1. id = 0 /\ calls = 0 /\ cursor = 0 /\ method = "initialize" /\ last_error = ""
      BY DEF Init
    <3> QED
      BY <3>1 DEF Counters, Methods
  <2>2. OnItsWay
    <3>1. buf = <<>> /\ toChild = <<>> /\ fromChild = <<>> /\ asked = {}
      BY DEF Init
    <3> QED
      BY <3>1 DEF OnItsWay
  <2>3. AnswersItsCall
    BY DEF Init, AnswersItsCall, NoAnswer
  <2> QED
    BY <2>1, <2>2, <2>3 DEF AnswerInv
<1>2. AnswerInv /\ [Next]_vars => AnswerInv'
  <2> SUFFICES ASSUME AnswerInv, UNCHANGED vars PROVE AnswerInv'
    BY ClientKeeps, ServerKeeps DEF Next
  <2>1. UNCHANGED <<id, method, cursor, calls, last_error, result, buf, toChild, fromChild, asked>>
    BY DEF vars, clientVars, serverVars
  <2>2. Counters' /\ IdMoves /\ AnswersItsCall'
    BY <2>1 DEF AnswerInv, Counters, IdMoves, AnswersItsCall
  <2> QED
    BY <2>1, <2>2, WayStays DEF AnswerInv, OnItsWay
<1> QED
  BY <1>1, <1>2, PTL DEF Spec

\* A call never returns the outcome of another, however late the answers to earlier
\* calls come and whatever else the server writes: AnswersItsCall for servers,
\* pipes and sessions of any size (Transport.cpp:62-69, McpClient.cpp:100-115).
THEOREM AnswersAlways == Spec => []AnswersItsCall
<1>1. AnswerInv => AnswersItsCall
  BY DEF AnswerInv
<1> QED
  BY <1>1, AnswerInvariance, PTL

-----------------------------------------------------------------------------
(* The list of tools.                                                       *)

\* The pages that have come are the first ones, in order.
PagesInOrder ==
  /\ tools \in Seq(Nat)
  /\ Len(tools) <= Pages
  /\ \A n \in 1..Len(tools) : tools[n] = n

\* A page is asked for behind those that have come, while one is missing.
Listing ==
  /\ pc = "new" => method = "initialize"
  /\ method \in {"initialize", "initialized"} => tools = <<>> /\ cursor = 0 /\ pc # "ready"
  /\ method = "tools/list" /\ pc \in {"write", "read"} =>
       cursor = Len(tools) /\ Len(tools) < Pages
  /\ pc = "ready" \/ method = "tools/call" => Len(tools) = Pages \/ fooled

ListInv == PagesInOrder /\ Listing

\* A step that has nothing to do with the list.
Aside ==
  /\ UNCHANGED <<method, cursor, tools>>
  /\ fooled => fooled'
  /\ pc' = "new" => pc = "new"
  /\ pc' \in {"write", "read"} => pc \in {"write", "read"}
  /\ pc' = "ready" => pc = "ready" \/ method = "tools/call"

LEMMA AsideKeeps == ListInv /\ Aside => ListInv'
  BY DEF ListInv, PagesInOrder, Listing, Aside

\* The page that is waited for, or a request of the server's in its place.
LEMMA PageKeeps ==
  ASSUME ListInv, pc = "read", method = "tools/list", id > 0, id \in Nat,
         NEW line \in GoodLines, Ours(line), line.kind # "error", ListPage(line),
         fooled' = (fooled \/ (Ours(line) /\ line.kind = "request"))
  PROVE  ListInv'
<1>1. cursor = Len(tools) /\ Len(tools) < Pages /\ Len(tools) \in Nat /\ tools \in Seq(Nat)
  BY DEF ListInv, Listing, PagesInOrder
<1>2. CASE line.kind # "answer"
  <2>1. line.id = id /\ line.kind \in {"request", "note"} /\ (line.kind = "note" => line.id = 0)
    BY <1>2 DEF Ours, GoodLines, Kinds
  <2>2. line.kind = "request"
    BY <2>1
  <2>3. fooled'
    BY <2>2
  <2>4. pc' = "ready" /\ UNCHANGED <<method, cursor, tools>>
    BY <1>2 DEF ListPage
  <2> QED
    BY <2>3, <2>4 DEF ListInv, PagesInOrder, Listing
<1>3. CASE line.kind = "answer"
  <2>1. line.body = Len(tools) + 1
    BY <1>1, <1>3 DEF Ours, GoodLines, IsAsked, Outcome, Subject
  <2>2. tools' = Append(tools, Len(tools) + 1)
    BY <1>3, <2>1 DEF ListPage
  <2>3. /\ tools' \in Seq(Nat) /\ Len(tools') = Len(tools) + 1
        /\ \A n \in 1..Len(tools) : tools'[n] = tools[n]
        /\ tools'[Len(tools) + 1] = Len(tools) + 1
    BY <1>1, <2>2
  <2>4. PagesInOrder'
    BY <1>1, <2>3, SizesAssumption DEF ListInv, PagesInOrder
  <2>5. CASE line.body = Pages
    <3>1. pc' = "ready" /\ method' = method /\ Len(tools') = Pages
      BY <1>3, <2>1, <2>3, <2>5 DEF ListPage
    <3> QED
      BY <2>4, <3>1 DEF ListInv, Listing
  <2>6. CASE line.body # Pages
    <3>1. pc' = "write" /\ method' = "tools/list" /\ cursor' = Len(tools')
      BY <1>3, <2>1, <2>3, <2>6 DEF ListPage, Request, Begin
    <3>2. Len(tools') < Pages
      BY <1>1, <2>1, <2>3, <2>6, SizesAssumption
    <3> QED
      BY <2>4, <3>1, <3>2 DEF ListInv, Listing
  <2> QED
    BY <2>5, <2>6
<1> QED
  BY <1>2, <1>3

LEMMA LineKeeps ==
  ASSUME ListInv, Counters, pc = "read", NEW line \in GoodLines, Consider(line)
  PROVE  ListInv'
<1>1. CASE Ours(line) /\ method = "tools/list" /\ line.kind # "error" /\ ListPage(line)
  <2>1. id > 0 /\ id \in Nat
    BY <1>1 DEF Counters
  <2> QED
    BY <1>1, <2>1, PageKeeps DEF Consider
<1>2. CASE method = "initialize" /\ Begin("initialized") /\ UNCHANGED <<cursor, tools>>
  BY <1>2 DEF Begin, ListInv, PagesInOrder, Listing
<1>3. fooled => fooled'
  BY DEF Consider
<1>4. CASE /\ UNCHANGED <<method, cursor, tools>>
           /\ pc' = pc \/ pc' = "failed" \/ (pc' = "ready" /\ method = "tools/call")
  BY <1>3, <1>4, AsideKeeps DEF Aside
<1> QED
  BY <1>1, <1>2, <1>4 DEF Consider, Receive, Skip

LEMMA StepLists == AnswerInv /\ ListInv /\ [Next]_vars => ListInv'
<1> SUFFICES ASSUME Counters, OnItsWay, ListInv, [Next]_vars PROVE ListInv'
  BY DEF AnswerInv
<1>1. CASE Start \/ Call
  BY <1>1 DEF Start, Call, Request, Begin, ListInv, PagesInOrder, Listing
<1>2. CASE Notified
  <2>1. /\ tools = <<>> /\ cursor = 0 /\ UNCHANGED <<tools, cursor>>
        /\ pc' = "write" /\ method' = "tools/list"
    BY <1>2 DEF Notified, Request, Begin, ListInv, Listing
  <2>2. Len(tools') = 0 /\ 0 < Pages
    BY <2>1, SizesAssumption
  <2>3. PagesInOrder'
    BY <2>1 DEF ListInv, PagesInOrder
  <2> QED
    BY <2>1, <2>2, <2>3 DEF ListInv, Listing
<1>3. CASE TakeLine
  <2>1. buf # <<>> /\ Consider(Head(buf).line) /\ pc = "read"
    BY <1>3 DEF TakeLine, HasLine
  <2> QED
    BY <2>1, HeadIsGood, LineKeeps
<1>4. CASE EndOfFile
  <2>1. CASE buf # <<>> /\ Consider(Head(buf).line)
    BY <1>4, <2>1, HeadIsGood, LineKeeps DEF EndOfFile
  <2>2. CASE (\E cause : Fail(cause)) /\ UNCHANGED fooled
    BY <2>2, AsideKeeps DEF Fail, Aside
  <2> QED
    BY <1>4, <2>1, <2>2 DEF EndOfFile
<1>5. CASE WriteSome \/ WriteBroken \/ Written \/ ReadChunk \/ PollTimeout
  BY <1>5, AsideKeeps DEF WriteSome, WriteBroken, Written, ReadChunk, PollTimeout, Fail, Aside
<1>6. CASE ServerNext \/ UNCHANGED vars
  <2>1. UNCHANGED clientVars
    BY <1>6 DEF ServerNext, ServerReads, ServerAnswers, ServerChatters, ServerDies, vars
  <2> QED
    BY <2>1, AsideKeeps DEF clientVars, Aside
<1> QED
  BY <1>1, <1>2, <1>3, <1>4, <1>5, <1>6 DEF Next, ClientNext

LEMMA ListStarts == Init => ListInv
<1> SUFFICES ASSUME Init PROVE ListInv
  OBVIOUS
<1>1. pc = "new" /\ method = "initialize" /\ tools = <<>> /\ cursor = 0
  BY DEF Init
<1>2. Len(tools) = 0 /\ tools \in Seq(Nat) /\ 0 <= Pages
  BY <1>1, SizesAssumption
<1> QED
  BY <1>1, <1>2 DEF ListInv, PagesInOrder, Listing

\* A server that is up offers all its tools, each once and in order, whatever came
\* late, was skipped or was cut: ToolsComplete for any number of pages
\* (McpClient.cpp:61-97, 196-206).
THEOREM CompleteAlways == Spec => []ToolsComplete
<1>1. Init => ListInv
  BY ListStarts
<1>2. AnswerInv /\ ListInv /\ [Next]_vars => ListInv'
  BY StepLists
<1>3. ListInv => ToolsComplete
  <2> SUFFICES ASSUME PagesInOrder, Listing PROVE ToolsComplete
    BY DEF ListInv
  <2>1. tools = [n \in 1..Len(tools) |-> n]
    BY DEF PagesInOrder
  <2> QED
    BY <2>1 DEF Listing, ToolsComplete
<1> QED
  BY <1>1, <1>2, <1>3, AnswerInvariance, PTL DEF Spec

-----------------------------------------------------------------------------
(* The answer that is waited for.                                           *)

\* A stream is lines: a text, its newline, and so on, the last one complete while its
\* writer is up.
Whole(stream, up) ==
  /\ stream # <<>> => ~stream[1].newline
  /\ \A n, m \in 1..Len(stream) : m = n + 1 => (stream[m].newline <=> ~stream[n].newline)
  /\ up /\ stream # <<>> => stream[Len(stream)].newline

\* The client is at a request, or past writing it.
Waiting == pc = "read" \/ (pc = "write" /\ method # "initialized")

IsAnswer(piece, i) ==
  ~piece.newline /\ piece.line.kind \in {"answer", "error"} /\ piece.line.id = i

AnswerWaits ==
  Waiting /\ id \in answered => \E n \in 1..Len(Unread) : IsAnswer(Unread[n], id)

IdsMade == answered \subseteq 1..id /\ \A query \in asked : query.id > 0

StreamInv == Whole(Unread, alive) /\ AnswerWaits /\ IdsMade

LEMMA UnreadPieces == OnItsWay => Unread \in Seq(GoodPieces)
BY DEF OnItsWay, Unread

\* A read moves pieces without changing what is left to read.
LEMMA Cut ==
  ASSUME NEW S, NEW s \in Seq(S), NEW t \in Seq(S), NEW n \in 1..Len(t)
  PROVE  (s \o SubSeq(t, 1, n)) \o SubSeq(t, n + 1, Len(t)) = s \o t
<1>1. PICK a \in Seq(S), b \in Seq(S) : a = SubSeq(t, 1, n) /\ b = SubSeq(t, n + 1, Len(t))
  <2>1. SubSeq(t, 1, n) \in Seq(S) /\ SubSeq(t, n + 1, Len(t)) \in Seq(S)
    OBVIOUS
  <2> QED
    BY <2>1, Zenon
<1>2. Len(t) \in Nat /\ 1 \in 1..Len(t) + 1 /\ n \in 0..Len(t) /\ Len(t) \in n..Len(t)
  OBVIOUS
<1>3. a \o b = SubSeq(t, 1, Len(t))
  BY <1>1, <1>2, ConcatAdjacentSubSeq
<1>4. SubSeq(t, 1, Len(t)) = t
  BY SubSeqFull
<1>5. \A u, v \in Seq(S) : (s \o u) \o v = s \o (u \o v)
  OBVIOUS
<1>6. (s \o a) \o b = s \o (a \o b)
  BY <1>5, Zenon
<1>7. (s \o a) \o b = s \o t
  BY <1>3, <1>4, <1>6, Zenon
<1> QED
  BY <1>1, <1>7

\* Taking the first line of a buffer takes it from what is left to read.
LEMMA Dropped ==
  ASSUME NEW S, NEW s \in Seq(S), NEW t \in Seq(S), Len(s) >= 2
  PROVE  /\ Head(s) = (s \o t)[1]
         /\ Len(s \o t) \in Nat /\ Len(s \o t) >= 2
         /\ Len(SubSeq(s, 3, Len(s)) \o t) = Len(s \o t) - 2
         /\ \A n \in 1..Len(s \o t) - 2 : (SubSeq(s, 3, Len(s)) \o t)[n] = (s \o t)[n + 2]
<1> DEFINE rest == SubSeq(s, 3, Len(s))
<1>0. Len(s) \in Nat
  OBVIOUS
<1>1. Len(s) \in Nat /\ Len(t) \in Nat /\ Len(s \o t) = Len(s) + Len(t)
  OBVIOUS
<1>2. /\ rest \in Seq(S) /\ Len(rest) = Len(s) - 2
      /\ \A n \in 1..Len(s) - 2 : rest[n] = s[n + 2]
  <2>1. \A i \in 3..Len(s) : s[i] \in S
    OBVIOUS
  <2>2. /\ rest \in Seq(S)
        /\ Len(rest) = IF 3 <= Len(s) THEN Len(s) - 3 + 1 ELSE 0
        /\ \A i \in 1..Len(s) - 3 + 1 : rest[i] = s[3 + i - 1]
    BY <1>1, <2>1, SubSeqProperties
  <2> HIDE DEF rest
  <2>3. Len(rest) = Len(s) - 2
    <3>1. PICK k \in Nat : k = Len(s)
      BY <1>0
    <3>2. k = 2 \/ 3 <= k
      BY <3>1
    <3> QED
      BY <2>2, <3>1, <3>2
  <2>4. ASSUME NEW n \in 1..Len(s) - 2 PROVE rest[n] = s[n + 2]
    <3>1. n \in 1..Len(s) - 3 + 1 /\ 3 + n - 1 = n + 2
      BY <1>1
    <3> QED
      BY <2>2, <3>1
  <2> QED
    BY <2>2, <2>3, <2>4
<1> HIDE DEF rest
<1>3. /\ Len(rest \o t) = Len(s) - 2 + Len(t)
      /\ \A n \in 1..Len(s) - 2 + Len(t) :
           (rest \o t)[n] = IF n <= Len(s) - 2 THEN s[n + 2] ELSE t[n - (Len(s) - 2)]
  <2>1. /\ Len(rest \o t) = Len(rest) + Len(t)
        /\ \A n \in 1..Len(rest) + Len(t) :
             (rest \o t)[n] = IF n <= Len(rest) THEN rest[n] ELSE t[n - Len(rest)]
    BY <1>2, ConcatProperties
  <2>2. ASSUME NEW n \in 1..Len(s) - 2 + Len(t)
        PROVE  (rest \o t)[n] = IF n <= Len(s) - 2 THEN s[n + 2] ELSE t[n - (Len(s) - 2)]
    <3>1. CASE n <= Len(s) - 2
      <4>1. n \in 1..Len(s) - 2
        BY <1>1, <3>1
      <4> QED
        BY <1>2, <2>1, <3>1, <4>1
    <3>2. CASE ~(n <= Len(s) - 2)
      BY <1>2, <2>1, <3>2
    <3> QED
      BY <3>1, <3>2
  <2> QED
    BY <1>2, <2>1, <2>2
<1>4. \A n \in 1..Len(s) + Len(t) :
        (s \o t)[n] = IF n <= Len(s) THEN s[n] ELSE t[n - Len(s)]
  BY ConcatProperties
<1>5. ASSUME NEW n \in 1..Len(s \o t) - 2 PROVE (rest \o t)[n] = (s \o t)[n + 2]
  <2>1. /\ n \in 1..Len(s) - 2 + Len(t) /\ n + 2 \in 1..Len(s) + Len(t)
        /\ n - (Len(s) - 2) = n + 2 - Len(s) /\ (n <= Len(s) - 2 <=> n + 2 <= Len(s))
    BY <1>1
  <2> QED
    BY <1>3, <1>4, <2>1
<1>6. Head(s) = (s \o t)[1]
  BY <1>1, <1>4
<1>7. Len(s \o t) \in Nat /\ Len(s \o t) >= 2 /\ Len(rest \o t) = Len(s \o t) - 2
  BY <1>1, <1>3
<1> QED
  BY <1>5, <1>6, <1>7 DEF rest

\* Lines taken from the front, added behind and cut short by the writer's end.
LEMMA WholeDropped ==
  ASSUME NEW S, NEW u \in Seq(S), NEW v \in Seq(S), NEW up, Whole(u, up),
         Len(u) >= 2, Len(v) = Len(u) - 2, \A n \in 1..Len(u) - 2 : v[n] = u[n + 2]
  PROVE  Whole(v, up)
<1>1. PICK k \in Nat : k = Len(u)
  OBVIOUS
<1>2. k >= 2 /\ Len(v) = k - 2 /\ \A n \in 1..k - 2 : v[n] = u[n + 2] /\ n + 2 \in 1..k
  BY <1>1
<1>3. \A n, m \in 1..k : m = n + 1 => (u[m].newline <=> ~u[n].newline)
  BY <1>1 DEF Whole
<1>4. ASSUME v # <<>> PROVE ~v[1].newline
  <2>1. k > 2
    BY <1>2, <1>4
  <2>2. 1 \in 1..k - 2 /\ 1 \in 1..k /\ 2 \in 1..k /\ 3 \in 1..k
    BY <2>1
  <2>3. ~u[1].newline
    BY <1>1, <2>1 DEF Whole
  <2>4. u[2].newline
    BY <1>3, <2>2, <2>3
  <2>5. ~u[3].newline
    BY <1>3, <2>2, <2>4
  <2> QED
    BY <1>2, <2>2, <2>5
<1>5. ASSUME NEW n \in 1..k - 2, NEW m \in 1..k - 2, m = n + 1
      PROVE  v[m].newline <=> ~v[n].newline
  <2>1. n + 2 \in 1..k /\ m + 2 \in 1..k /\ m + 2 = (n + 2) + 1
    BY <1>2, <1>5
  <2>2. u[m + 2].newline <=> ~u[n + 2].newline
    BY <1>3, <2>1
  <2> QED
    BY <1>2, <2>2
<1>6. ASSUME up, v # <<>> PROVE v[Len(v)].newline
  <2>1. k - 2 \in 1..k - 2 /\ (k - 2) + 2 = k
    BY <1>2, <1>6
  <2>2. u[k].newline
    BY <1>1, <1>2, <1>6 DEF Whole
  <2> QED
    BY <1>2, <2>1, <2>2
<1> QED
  BY <1>2, <1>4, <1>5, <1>6 DEF Whole

LEMMA WholeCut ==
  ASSUME NEW S, NEW u \in Seq(S), NEW a \in S, Whole(u, TRUE), ~a.newline
  PROVE  Whole(Append(u, a), FALSE)
<1>1. PICK k \in Nat : k = Len(u)
  OBVIOUS
<1>2. PICK v \in Seq(S) : v = Append(u, a)
  <2>1. Append(u, a) \in Seq(S)
    OBVIOUS
  <2> QED
    BY <2>1, Zenon
<1>3. Len(v) = k + 1 /\ v[k + 1] = a /\ \A n \in 1..k : v[n] = u[n]
  BY <1>1, <1>2
<1>4. ~v[1].newline
  BY <1>1, <1>3 DEF Whole
<1>5. ASSUME NEW n \in 1..k + 1, NEW m \in 1..k + 1, m = n + 1
      PROVE  v[m].newline <=> ~v[n].newline
  <2>1. n \in 1..k /\ (m \in 1..k \/ m = k + 1)
    BY <1>5
  <2>2. CASE m \in 1..k
    BY <1>1, <1>3, <1>5, <2>1, <2>2 DEF Whole
  <2>3. CASE m = k + 1
    <3>1. n = k /\ k > 0
      BY <1>5, <2>1, <2>3
    <3>2. u[k].newline
      BY <1>1, <3>1 DEF Whole
    <3> QED
      BY <1>3, <2>1, <2>3, <3>1, <3>2
  <2> QED
    BY <2>1, <2>2, <2>3
<1> QED
  BY <1>2, <1>3, <1>4, <1>5 DEF Whole

LEMMA WholeAdded ==
  ASSUME NEW S, NEW u \in Seq(S), NEW a \in S, NEW b \in S,
         Whole(u, TRUE), ~a.newline, b.newline
  PROVE  Whole(Append(Append(u, a), b), TRUE)
<1>1. PICK v \in Seq(S) : v = Append(u, a)
  <2>1. Append(u, a) \in Seq(S)
    OBVIOUS
  <2> QED
    BY <2>1, Zenon
<1>2. PICK k \in Nat : k = Len(v)
  OBVIOUS
<1>3. PICK w \in Seq(S) : w = Append(v, b)
  <2>1. Append(v, b) \in Seq(S)
    OBVIOUS
  <2> QED
    BY <2>1, Zenon
<1>4. Len(w) = k + 1 /\ w[k + 1] = b /\ \A n \in 1..k : w[n] = v[n]
  BY <1>2, <1>3
<1>5. k > 0 /\ v[k] = a
  BY <1>1, <1>2
<1>6. Whole(v, FALSE)
  BY <1>1, WholeCut
<1>7. ~w[1].newline
  BY <1>2, <1>4, <1>5, <1>6 DEF Whole
<1>8. ASSUME NEW n \in 1..k + 1, NEW m \in 1..k + 1, m = n + 1
      PROVE  w[m].newline <=> ~w[n].newline
  <2>1. n \in 1..k /\ (m \in 1..k \/ (m = k + 1 /\ n = k))
    BY <1>8
  <2>2. CASE m \in 1..k
    BY <1>2, <1>4, <1>6, <1>8, <2>1, <2>2 DEF Whole
  <2>3. CASE m = k + 1 /\ n = k
    BY <1>4, <1>5, <2>1, <2>3
  <2> QED
    BY <2>1, <2>2, <2>3
<1> QED
  BY <1>1, <1>3, <1>4, <1>7, <1>8 DEF Whole

-----------------------------------------------------------------------------
(* The client keeps what it waits for.                                      *)

\* The step that neither reads nor answers: at the same request, or at a new one,
\* whose id no answer bears.
Awaits ==
  /\ id \in Nat /\ UNCHANGED <<asked, answered>>
  /\ id' = id + 1 \/ (id' = id /\ (Waiting' => Waiting))

LEMMA IdsStay == IdsMade /\ Awaits => IdsMade' /\ (id' \in answered' => id' = id)
<1> SUFFICES ASSUME IdsMade, Awaits PROVE IdsMade' /\ (id' \in answered' => id' = id)
  OBVIOUS
<1>1. id \in Nat /\ (id' = id + 1 \/ id' = id) /\ answered' = answered /\ asked' = asked
  BY DEF Awaits
<1>2. 1..id \subseteq 1..id' /\ (id' \in 1..id => id' = id)
  BY <1>1
<1> QED
  BY <1>1, <1>2 DEF IdsMade

LEMMA QuietStream ==
  ASSUME StreamInv, Awaits, Unread' = Unread, alive' = alive
  PROVE  StreamInv'
<1>1. IdsMade' /\ (id' \in answered' => id' = id)
  BY IdsStay DEF StreamInv
<1>2. AnswerWaits'
  <2> SUFFICES ASSUME Waiting', id' \in answered'
               PROVE  \E n \in 1..Len(Unread) : IsAnswer(Unread[n], id')
    BY DEF AnswerWaits, IsAnswer
  <2>1. id' = id /\ id \in answered /\ id' # id + 1
    BY <1>1 DEF Awaits
  <2>2. Waiting
    BY <2>1 DEF Awaits
  <2> QED
    BY <2>1, <2>2 DEF StreamInv, AnswerWaits
<1>3. Whole(Unread, alive)'
  BY DEF StreamInv, Whole
<1> QED
  BY <1>1, <1>2, <1>3 DEF StreamInv

\* A line that is not the answer is skipped; one that is ends the wait.
LEMMA ConsiderWaits ==
  ASSUME pc = "read", id \in Nat, NEW line, Consider(line)
  PROVE  \/ ~Ours(line) /\ id' = id /\ Waiting
         \/ id' = id + 1
         \/ id' = id /\ ~Waiting'
<1>1. CASE ~Ours(line)
  BY <1>1 DEF Consider, Skip, Waiting
<1>2. CASE Ours(line) /\ method = "tools/list" /\ ListPage(line)
  BY <1>2 DEF ListPage, Request, Waiting
<1>3. CASE Begin("initialized") /\ id' = id
  BY <1>3 DEF Begin, Waiting
<1>4. CASE pc' \in {"failed", "ready"} /\ id' = id
  BY <1>4 DEF Waiting
<1> QED
  BY <1>1, <1>2, <1>3, <1>4 DEF Consider, Receive

\* What it waits for is not in a line that is skipped.
LEMMA SkippedIsNot ==
  ASSUME NEW piece, ~Ours(piece.line)
  PROVE  ~IsAnswer(piece, id)
BY DEF Ours, IsAnswer

LEMMA TakesLine ==
  ASSUME Counters, OnItsWay, StreamInv, TakeLine
  PROVE  StreamInv'
<1> DEFINE S == GoodPieces
<1>0. id \in Nat /\ buf \in Seq(S) /\ fromChild \in Seq(S) /\ Unread \in Seq(S)
  BY UnreadPieces DEF Counters, OnItsWay
<1>1. /\ pc = "read" /\ HasLine /\ Consider(Head(buf).line) /\ buf' = SubSeq(buf, 3, Len(buf))
      /\ UNCHANGED <<fromChild, alive, asked, answered>>
  BY DEF TakeLine, serverVars
<1> HIDE DEF S
<1>2. Len(buf) >= 2
  <2>1. PICK i \in 1..Len(buf) : buf[i].newline
    BY <1>0, <1>1 DEF HasLine
  <2>2. i \in 1..Len(Unread) /\ Unread[i] = buf[i] /\ Unread # <<>>
    BY <1>0 DEF Unread
  <2>3. i # 1
    BY <2>1, <2>2 DEF StreamInv, Whole
  <2> QED
    BY <1>0, <2>3
<1>3. /\ Head(buf) = Unread[1]
      /\ Len(Unread) \in Nat /\ Len(Unread) >= 2 /\ Len(Unread') = Len(Unread) - 2
      /\ \A n \in 1..Len(Unread) - 2 : Unread'[n] = Unread[n + 2]
  BY <1>0, <1>1, <1>2, Dropped, SMTT(15) DEF Unread
<1>4. Unread' \in Seq(S)
  <2>1. SubSeq(buf, 3, Len(buf)) \in Seq(S)
    BY <1>0
  <2> QED
    BY <1>0, <1>1, <2>1 DEF Unread
<1>5. Whole(Unread', alive')
  <2>1. Whole(Unread, alive)
    BY DEF StreamInv
  <2>2. Whole(Unread', alive)
    BY <1>0, <1>3, <1>4, <2>1, WholeDropped
  <2> QED
    BY <1>1, <2>2
<1>6. Awaits /\ (Waiting' /\ id' = id => ~Ours(Head(buf).line))
  <2>1. \/ ~Ours(Head(buf).line) /\ id' = id /\ Waiting
        \/ id' = id + 1
        \/ id' = id /\ ~Waiting'
    BY <1>0, <1>1, ConsiderWaits
  <2> QED
    BY <1>0, <1>1, <2>1 DEF Awaits
<1>7. IdsMade' /\ (id' \in answered' => id' = id)
  BY <1>6, IdsStay DEF StreamInv
<1>8. AnswerWaits'
  <2> SUFFICES ASSUME Waiting', id' \in answered'
               PROVE  \E n \in 1..Len(Unread') : IsAnswer(Unread'[n], id)
    BY <1>7 DEF AnswerWaits, IsAnswer
  <2>1. id' = id /\ id' # id + 1 /\ id \in answered
    BY <1>0, <1>1, <1>7
  <2>2. Waiting /\ ~Ours(Head(buf).line)
    BY <1>6, <2>1 DEF Awaits
  <2>3. PICK n \in 1..Len(Unread) : IsAnswer(Unread[n], id)
    BY <2>1, <2>2 DEF StreamInv, AnswerWaits
  <2>4. n # 1
    BY <1>3, <2>2, <2>3, SkippedIsNot
  <2>5. n # 2
    <3>1. Unread[2].newline
      BY <1>0, <1>3 DEF StreamInv, Whole
    <3> QED
      BY <2>3, <3>1 DEF IsAnswer
  <2>6. PICK m \in 1..Len(Unread) - 2 : n = m + 2
    <3>1. n - 2 \in 1..Len(Unread) - 2 /\ n = (n - 2) + 2
      BY <1>3, <2>4, <2>5
    <3> QED
      BY <3>1, Zenon
  <2> QED
    BY <1>3, <2>3, <2>6
<1> QED
  BY <1>5, <1>7, <1>8 DEF StreamInv

LEMMA ReadsChunk ==
  ASSUME Counters, OnItsWay, StreamInv, ReadChunk
  PROVE  StreamInv'
<1> DEFINE S == GoodPieces
<1>1. buf \in Seq(S) /\ fromChild \in Seq(S) /\ id \in Nat
  BY DEF OnItsWay, Counters
<1> HIDE DEF S
<1>2. PICK n \in 1..Len(fromChild) :
        /\ buf' = buf \o SubSeq(fromChild, 1, n)
        /\ fromChild' = SubSeq(fromChild, n + 1, Len(fromChild))
  BY DEF ReadChunk
<1>3. Unread' = Unread
  BY <1>1, <1>2, Cut DEF Unread
<1>4. Awaits /\ alive' = alive
  BY <1>1 DEF ReadChunk, serverVars, Awaits, Waiting
<1> QED
  BY <1>3, <1>4, QuietStream

\* At the end of the stream nothing is left to wait for but the line that is cut short.
LEMMA EndsFile ==
  ASSUME Counters, OnItsWay, StreamInv, EndOfFile
  PROVE  StreamInv'
<1> DEFINE S == GoodPieces
<1>1. buf \in Seq(S) /\ id \in Nat
  BY DEF OnItsWay, Counters
<1> HIDE DEF S
<1>2. /\ pc = "read" /\ ~HasLine /\ fromChild = <<>> /\ ~alive /\ buf' = <<>>
      /\ UNCHANGED <<fromChild, alive, asked, answered>>
  BY DEF EndOfFile, serverVars
<1>3. Unread = buf /\ Unread' = <<>>
  BY <1>1, <1>2 DEF Unread
<1>4. Whole(Unread', alive')
  <2>1. ~alive'
    BY <1>2
  <2> QED
    BY <1>3, <2>1 DEF Whole
<1>5. /\ Awaits
      /\ Waiting' /\ id' = id => buf # <<>> /\ Head(buf).line.kind # "noise" /\ ~Ours(Head(buf).line)
  <2>1. CASE buf # <<>> /\ Head(buf).line.kind # "noise" /\ Consider(Head(buf).line)
    <3>1. \/ ~Ours(Head(buf).line) /\ id' = id /\ Waiting
          \/ id' = id + 1
          \/ id' = id /\ ~Waiting'
      BY <1>1, <1>2, <2>1, ConsiderWaits
    <3> QED
      BY <1>1, <1>2, <2>1, <3>1 DEF Awaits
  <2>2. CASE \E cause : Fail(cause)
    <3>1. id' = id /\ pc' \in {"ready", "failed"}
      BY <2>2 DEF Fail
    <3> QED
      BY <1>1, <1>2, <3>1 DEF Awaits, Waiting
  <2> QED
    BY <2>1, <2>2 DEF EndOfFile
<1>6. IdsMade' /\ (id' \in answered' => id' = id)
  BY <1>5, IdsStay DEF StreamInv
<1>7. ASSUME Waiting', id' \in answered' PROVE FALSE
  <2>1. id' = id /\ id' # id + 1 /\ id \in answered
    BY <1>1, <1>2, <1>6, <1>7
  <2>2. Waiting /\ buf # <<>> /\ ~Ours(Head(buf).line)
    BY <1>5, <1>7, <2>1 DEF Awaits
  <2>3. PICK n \in 1..Len(buf) : IsAnswer(buf[n], id)
    BY <1>3, <2>1, <2>2 DEF StreamInv, AnswerWaits
  <2>4. n # 1
    <3>1. Head(buf) = buf[1]
      BY <1>1, <2>2
    <3> QED
      BY <2>2, <2>3, <3>1, SkippedIsNot
  <2>5. 1 \in 1..Len(buf) /\ 2 \in 1..Len(buf)
    BY <1>1, <2>4
  <2>6. ~buf[1].newline
    BY <1>3, <2>2 DEF StreamInv, Whole
  <2>7. buf[2].newline
    BY <1>3, <2>5, <2>6 DEF StreamInv, Whole
  <2> QED
    BY <1>1, <1>2, <2>5, <2>7 DEF HasLine
<1> QED
  BY <1>4, <1>6, <1>7 DEF StreamInv, AnswerWaits

LEMMA ClientAwaits == Counters /\ OnItsWay /\ StreamInv /\ ClientNext => StreamInv'
<1> SUFFICES ASSUME Counters, OnItsWay, StreamInv, ClientNext PROVE StreamInv'
  OBVIOUS
<1>0. id \in Nat
  BY DEF Counters
<1> DEFINE Still == UNCHANGED <<buf, fromChild, alive, asked, answered>>
<1>1. ASSUME Still, id' = id + 1 \/ (id' = id /\ (Waiting' => Waiting)) PROVE StreamInv'
  <2>1. Unread' = Unread /\ alive' = alive
    BY <1>1 DEF Unread
  <2>2. Awaits
    BY <1>0, <1>1 DEF Awaits
  <2> QED
    BY <2>1, <2>2, QuietStream
<1>2. CASE Start \/ Call \/ Notified
  BY <1>1, <1>2 DEF Start, Call, Notified, Request, serverVars
<1>3. CASE WriteBroken \/ Written \/ PollTimeout
  BY <1>1, <1>3 DEF WriteBroken, Written, PollTimeout, Fail, Waiting, serverVars
<1>4. CASE WriteSome
  BY <1>1, <1>4 DEF WriteSome, Waiting, serverVars
<1> QED
  BY <1>2, <1>3, <1>4, TakesLine, ReadsChunk, EndsFile DEF ClientNext

-----------------------------------------------------------------------------
(* The server adds to what is left to read, and answers only what was asked. *)

\* A text behind the buffer is a text behind all that is unread.
LEMMA Behind ==
  ASSUME NEW S, NEW s \in Seq(S), NEW t \in Seq(S), NEW a \in S
  PROVE  s \o Append(t, a) = Append(s \o t, a)
OBVIOUS

\* What the server's writing does to what is unread: a line, or the text of one.
Grows(line) ==
  /\ Len(Unread) < Len(Unread') /\ Unread \in Seq(GoodPieces)
  /\ \A n \in 1..Len(Unread) : Unread'[n] = Unread[n]
  /\ Unread'[Len(Unread) + 1] = Text(line)
  /\ Whole(Unread, alive)'

LEMMA EmitGrows ==
  ASSUME OnItsWay, StreamInv, NEW line \in GoodLines, Emits(line), UNCHANGED <<buf, alive>>
  PROVE  Grows(line)
<1> DEFINE S == GoodPieces
           a == Text(line)
           b == Newline
<1>1. buf \in Seq(S) /\ fromChild \in Seq(S) /\ a \in S /\ b \in S /\ Unread \in Seq(S)
  BY UnreadPieces, PieceIsGood DEF OnItsWay
<1>2. ~a.newline /\ b.newline
  BY DEF Text, Newline
<1>3. fromChild' = fromChild \o <<a, b>> /\ buf' = buf /\ alive /\ alive'
  BY DEF Emits
<1> HIDE DEF S, a, b
<1>4. fromChild' = Append(Append(fromChild, a), b)
  BY <1>1, <1>3
<1>5. Append(fromChild, a) \in Seq(S)
  BY <1>1
<1>6. Unread' = Append(Append(Unread, a), b)
  BY <1>1, <1>3, <1>4, <1>5, Behind DEF Unread
<1>7. Whole(Append(Append(Unread, a), b), TRUE)
  <2>1. Whole(Unread, TRUE)
    BY <1>3 DEF StreamInv, Whole
  <2> QED
    BY <1>1, <1>2, <2>1, WholeAdded
<1>8. Whole(Unread', alive')
  BY <1>3, <1>6, <1>7 DEF Whole
<1>9. /\ Len(Unread) < Len(Unread')
      /\ \A n \in 1..Len(Unread) : Unread'[n] = Unread[n]
      /\ Unread'[Len(Unread) + 1] = a
  BY <1>1, <1>6
<1> QED
  BY <1>1, <1>8, <1>9 DEF S, a, Grows

LEMMA DeathGrows ==
  ASSUME OnItsWay, StreamInv, alive, ~alive', NEW line \in GoodLines,
         fromChild' = Append(fromChild, Text(line)), buf' = buf
  PROVE  Grows(line)
<1> DEFINE S == GoodPieces
           a == Text(line)
<1>1. buf \in Seq(S) /\ fromChild \in Seq(S) /\ a \in S /\ Unread \in Seq(S)
  BY UnreadPieces, PieceIsGood DEF OnItsWay
<1>2. ~a.newline
  BY DEF Text
<1> HIDE DEF S, a
<1>3. Unread' = Append(Unread, a)
  <2>1. fromChild' = Append(fromChild, a)
    BY DEF a
  <2> QED
    BY <1>1, <2>1, Behind DEF Unread
<1>4. Whole(Append(Unread, a), FALSE)
  <2>1. Whole(Unread, TRUE)
    BY DEF StreamInv, Whole
  <2> QED
    BY <1>1, <1>2, <2>1, WholeCut
<1>5. Whole(Unread', alive')
  BY <1>3, <1>4 DEF Whole
<1>6. /\ Len(Unread) < Len(Unread')
      /\ \A n \in 1..Len(Unread) : Unread'[n] = Unread[n]
      /\ Unread'[Len(Unread) + 1] = a
  BY <1>1, <1>3
<1> QED
  BY <1>1, <1>5, <1>6 DEF S, a, Grows

LEMMA GrowthAwaits ==
  ASSUME Counters, StreamInv, NEW line \in GoodLines, Grows(line), UNCHANGED clientVars,
         asked' \subseteq asked,
         \/ answered' = answered
         \/ /\ line.kind \in {"answer", "error"} /\ line.id \in 1..id
            /\ answered' = answered \cup {line.id}
  PROVE  StreamInv'
<1>1. id' = id /\ Waiting' = Waiting /\ id \in Nat
  BY DEF clientVars, Waiting, Counters
<1>2. IdsMade'
  BY <1>1 DEF StreamInv, IdsMade
<1>3. ASSUME Waiting, id \in answered'
      PROVE  \E n \in 1..Len(Unread') : IsAnswer(Unread'[n], id)
  <2>1. CASE id \in answered
    <3>1. PICK n \in 1..Len(Unread) : IsAnswer(Unread[n], id)
      BY <1>3, <2>1 DEF StreamInv, AnswerWaits
    <3>2. n \in 1..Len(Unread')
      BY DEF Grows
    <3>3. Unread'[n] = Unread[n]
      BY DEF Grows
    <3> QED
      BY <3>1, <3>2, <3>3
  <2>2. CASE id \notin answered
    <3>1. line.id = id /\ line.kind \in {"answer", "error"}
      BY <1>3, <2>2
    <3>2. Len(Unread) + 1 \in 1..Len(Unread')
      BY DEF Grows
    <3>3. IsAnswer(Unread'[Len(Unread) + 1], id)
      BY <3>1 DEF Grows, IsAnswer, Text
    <3> QED
      BY <3>2, <3>3
  <2> QED
    BY <2>1, <2>2
<1>4. AnswerWaits'
  BY <1>1, <1>3 DEF AnswerWaits, IsAnswer
<1> QED
  BY <1>2, <1>4 DEF StreamInv, Grows

LEMMA ServerAwaits == Counters /\ OnItsWay /\ StreamInv /\ ServerNext => StreamInv'
<1> SUFFICES ASSUME Counters, OnItsWay, StreamInv, ServerNext PROVE StreamInv'
  OBVIOUS
<1>1. UNCHANGED clientVars /\ UNCHANGED <<buf, id>> /\ Waiting' = Waiting /\ id \in Nat
  BY DEF ServerNext, ServerReads, ServerAnswers, ServerChatters, ServerDies, clientVars,
         Waiting, Counters
<1>2. CASE ServerReads
  <2>1. /\ toChild # <<>> /\ UNCHANGED <<fromChild, alive, answered>>
        /\ \/ asked' = asked
           \/ /\ Head(toChild).id # 0
              /\ asked' = asked \cup {[id |-> Head(toChild).id, method |-> Head(toChild).method,
                                       body |-> Head(toChild).body]}
    BY <1>2 DEF ServerReads
  <2>2. Head(toChild).id \in Nat
    <3>1. Head(toChild) \in GoodWrites
      BY <2>1, SeqParts DEF OnItsWay
    <3> QED
      BY <3>1 DEF GoodWrites
  <2>3. Head(toChild).id # 0 => Head(toChild).id > 0
    BY <2>2
  <2>4. \A query \in asked' : query.id > 0
    BY <2>1, <2>3 DEF StreamInv, IdsMade
  <2>5. Unread' = Unread
    BY <1>1, <2>1 DEF Unread
  <2>6. Whole(Unread, alive)' /\ AnswerWaits' /\ answered' \subseteq 1..id'
    BY <1>1, <2>1, <2>5 DEF StreamInv, Whole, AnswerWaits, IsAnswer, IdsMade
  <2> QED
    BY <2>4, <2>6 DEF StreamInv, IdsMade
<1>3. CASE ServerAnswers
  <2>1. PICK query \in asked :
          /\ Emits(AnswerTo(query)) \/ Emits(Line("error", query.id, 0))
          /\ asked' = asked \ {query} /\ answered' = answered \cup {query.id} /\ alive' = alive
    BY <1>3 DEF ServerAnswers
  <2>2. query.id \in 1..id /\ query.id \in Nat
    <3>1. query.id \in Nat /\ query.id <= id
      BY DEF OnItsWay, GoodQueries
    <3>2. query.id > 0
      BY DEF StreamInv, IdsMade
    <3> QED
      BY <1>1, <3>1, <3>2
  <2>3. AnswerTo(query) \in GoodLines /\ Line("error", query.id, 0) \in GoodLines
    BY <2>2, AnswerIsGood, NoAnswerIsGood DEF Kinds
  <2>4. PICK line \in GoodLines :
          Emits(line) /\ line.kind \in {"answer", "error"} /\ line.id = query.id
    BY <2>1, <2>3 DEF AnswerTo, Line
  <2>5. Grows(line)
    BY <1>1, <2>1, <2>4, EmitGrows
  <2> QED
    BY <1>1, <2>1, <2>2, <2>4, <2>5, GrowthAwaits
<1>4. CASE ServerChatters
  <2>1. UNCHANGED <<alive, asked, answered>>
    BY <1>4 DEF ServerChatters
  <2>2. \E kind \in {"note", "noise", "request"}, i \in Nat :
          (kind = "note" => i = 0) /\ Emits(Line(kind, i, 0))
    BY <1>4, SizesAssumption DEF ServerChatters
  <2>3. PICK line \in GoodLines : Emits(line)
    BY <2>2, NoAnswerIsGood DEF Kinds
  <2> QED
    BY <1>1, <2>1, <2>3, EmitGrows, GrowthAwaits
<1>5. CASE ServerDies
  <2>1. alive /\ ~alive' /\ UNCHANGED asked
    BY <1>5 DEF ServerDies
  <2>2. CASE UNCHANGED <<fromChild, answered>>
    <3>1. Unread' = Unread
      BY <1>1, <2>2 DEF Unread
    <3> QED
      BY <1>1, <2>1, <2>2, <3>1 DEF StreamInv, Whole, AnswerWaits, IsAnswer, IdsMade
  <2>3. CASE fromChild' = Append(fromChild, Text(Line("noise", 0, 0))) /\ UNCHANGED answered
    <3>1. Line("noise", 0, 0) \in GoodLines
      BY NoAnswerIsGood DEF Kinds
    <3> QED
      BY <1>1, <2>1, <2>3, <3>1, DeathGrows, GrowthAwaits
  <2>4. CASE \E query \in asked : fromChild' = Append(fromChild, Text(AnswerTo(query)))
                                  /\ answered' = answered \cup {query.id}
    <3>1. PICK query \in asked : fromChild' = Append(fromChild, Text(AnswerTo(query)))
                                 /\ answered' = answered \cup {query.id}
      BY <2>4
    <3>2. query.id \in 1..id
      <4>1. query.id \in Nat /\ query.id <= id
        BY DEF OnItsWay, GoodQueries
      <4>2. query.id > 0
        BY DEF StreamInv, IdsMade
      <4> QED
        BY <1>1, <4>1, <4>2
    <3>3. /\ AnswerTo(query) \in GoodLines
          /\ AnswerTo(query).kind = "answer" /\ AnswerTo(query).id = query.id
      BY AnswerIsGood DEF AnswerTo, Line
    <3>4. Grows(AnswerTo(query))
      BY <1>1, <2>1, <3>1, <3>3, DeathGrows
    <3> QED
      BY <1>1, <2>1, <3>1, <3>2, <3>3, <3>4, GrowthAwaits
  <2> QED
    BY <1>5, <2>2, <2>3, <2>4 DEF ServerDies
<1> QED
  BY <1>2, <1>3, <1>4, <1>5 DEF ServerNext

THEOREM StreamInvariance == Spec => []StreamInv
<1>1. Init => StreamInv
  <2> SUFFICES ASSUME Init PROVE StreamInv
    OBVIOUS
  <2>1. buf = <<>> /\ fromChild = <<>> /\ asked = {} /\ answered = {}
    BY DEF Init
  <2>2. Unread = <<>>
    BY <2>1 DEF Unread
  <2>3. Whole(Unread, alive)
    BY <2>2 DEF Whole
  <2> QED
    BY <2>1, <2>3 DEF StreamInv, AnswerWaits, IdsMade
<1>2. AnswerInv /\ StreamInv /\ [Next]_vars => StreamInv'
  <2> SUFFICES ASSUME AnswerInv, StreamInv, UNCHANGED vars PROVE StreamInv'
    BY ClientAwaits, ServerAwaits DEF Next, AnswerInv
  <2>1. Awaits /\ Unread' = Unread /\ alive' = alive
    BY DEF AnswerInv, Counters, vars, clientVars, serverVars, Awaits, Waiting, Unread
  <2> QED
    BY <2>1, QuietStream
<1> QED
  BY <1>1, <1>2, AnswerInvariance, PTL DEF Spec

\* The answer to the request that is waited for is not lost, whatever is skipped
\* before it, wherever the reads cut the stream and wherever the server dies:
\* AnswerNotLost for pipes and sessions of any size (Transport.cpp:51-72, 94-133).
THEOREM NotLostAlways == Spec => []AnswerNotLost
<1>1. AnswerInv /\ StreamInv => AnswerNotLost
  <2> SUFFICES ASSUME AnswerInv, StreamInv, pc = "read", id \in answered
               PROVE  \E i \in DOMAIN Unread :
                        /\ ~Unread[i].newline
                        /\ Unread[i].line.kind \in {"answer", "error"}
                        /\ Unread[i].line.id = id
    BY DEF AnswerNotLost
  <2>1. PICK n \in 1..Len(Unread) : IsAnswer(Unread[n], id)
    BY DEF StreamInv, AnswerWaits, Waiting
  <2>2. n \in DOMAIN Unread
    BY UnreadPieces DEF AnswerInv
  <2> QED
    BY <2>1, <2>2 DEF IsAnswer
<1> QED
  BY <1>1, AnswerInvariance, StreamInvariance, PTL

-----------------------------------------------------------------------------
(* The bounds of the state.                                                 *)

SmallWrites ==
  {w \in [id : Nat, method : Methods, body : Nat, last : BOOLEAN] :
     w.body <= Pages + MaxCalls /\ (w.method = "tools/list" => w.body < Pages)}

SmallQueries ==
  {q \in [id : Nat, method : Methods, body : Nat] :
     q.body <= Pages + MaxCalls /\ (q.method = "tools/list" => q.body < Pages)}

\* One id for the handshake, one for each page and one for each call.
IdBound ==
  /\ pc = "new" => id = 0
  /\ method \in {"initialize", "initialized"} => id <= 1
  /\ method = "tools/list" /\ pc \in {"write", "read"} => id <= Len(tools) + 2
  /\ id <= Pages + 1 + calls

Results == [from : Kinds \cup {"none", "timeout", "closed"}, body : Bodies]

ClientBounds ==
  /\ pc \in {"new", "write", "read", "ready", "failed", "killed"}
  /\ left \in 0..RequestSize
  /\ result \in Results
  /\ fooled \in BOOLEAN
  /\ calls <= MaxCalls /\ cursor <= Pages
  /\ IdBound

WayBounds ==
  /\ toChild \in Seq(SmallWrites) /\ Len(toChild) <= PipeSize
  /\ asked \subseteq SmallQueries
  /\ buf \in Seq(Pieces) /\ fromChild \in Seq(Pieces)
  /\ alive \in BOOLEAN
  /\ lines \in 0..MaxLines

BoundInv == ClientBounds /\ WayBounds

LEMMA Sizes ==
  /\ Pages \in Nat /\ Pages > 0 /\ MaxCalls \in Nat /\ MaxLines \in Nat
  /\ RequestSize \in Nat /\ RequestSize > 0
  /\ PipeSize \in Nat
  /\ 0 \in Bodies
  /\ RequestSize \in 0..RequestSize
BY SizesAssumption DEF Bodies

LEMMA SeqNarrows ==
  ASSUME NEW S, NEW T, NEW s \in Seq(S), \A n \in 1..Len(s) : s[n] \in T
  PROVE  s \in Seq(T)
OBVIOUS

\* A page that comes is the one behind those that have come.
LEMMA NextPage ==
  ASSUME Counters, ListInv, pc = "read", method = "tools/list",
         NEW line \in GoodLines, Ours(line), line.kind = "answer"
  PROVE  /\ line.body = Len(tools) + 1 /\ Len(tools) \in Nat /\ Len(tools) < Pages
         /\ tools \in Seq(Nat)
<1>1. cursor = Len(tools) /\ Len(tools) < Pages /\ tools \in Seq(Nat)
  BY DEF ListInv, Listing, PagesInOrder
<1>2. line.body = cursor + 1
  BY DEF Ours, GoodLines, IsAsked, Outcome, Subject
<1> QED
  BY <1>1, <1>2

LEMMA BeginBounds ==
  ASSUME NEW what, Begin(what)
  PROVE  pc' = "write" /\ method' = what /\ left' \in 0..RequestSize
BY Sizes DEF Begin

LEMMA ConsiderBounds ==
  ASSUME Counters, ListInv, ClientBounds, pc = "read",
         NEW line \in GoodLines, line \in Lines, Consider(line), UNCHANGED calls
  PROVE  ClientBounds'
<1>0. id \in Nat /\ calls \in Nat /\ cursor \in Nat
  BY DEF Counters
<1>1. fooled' \in BOOLEAN
  BY DEF Consider
<1>2. CASE UNCHANGED <<method, id, cursor, tools, left>> /\ result' \in Results
           /\ pc' \in {"read", "ready", "failed"}
  BY <1>1, <1>2 DEF ClientBounds, IdBound
<1>3. CASE method = "initialize" /\ Begin("initialized") /\ UNCHANGED <<id, cursor, tools, result>>
  BY <1>1, <1>3, BeginBounds DEF ClientBounds, IdBound
<1>4. CASE /\ Ours(line) /\ method = "tools/list" /\ line.kind = "answer" /\ line.body # Pages
           /\ ListPage(line) /\ UNCHANGED result
  <2>1. line.body = Len(tools) + 1 /\ Len(tools) \in Nat /\ Len(tools) < Pages /\ tools \in Seq(Nat)
    BY <1>4, NextPage
  <2>2. /\ tools' = Append(tools, line.body) /\ Request("tools/list") /\ cursor' = line.body
    BY <1>4 DEF ListPage
  <2>3. Len(tools') = Len(tools) + 1
    BY <2>1, <2>2
  <2>4. PICK k \in Nat : k = Len(tools)
    BY <2>1
  <2>5. id <= k + 2 /\ k + 1 < Pages
    BY <1>4, <2>1, <2>4, Sizes DEF ClientBounds, IdBound
  <2>6. id' = id + 1 /\ pc' = "write" /\ method' = "tools/list" /\ left' \in 0..RequestSize
    BY <2>2, BeginBounds DEF Request
  <2>7. id' <= k + 1 + 2 /\ id' <= Pages + 1 + calls /\ cursor' <= Pages
    BY <1>0, <2>1, <2>2, <2>4, <2>5, <2>6, Sizes
  <2>8. IdBound'
    BY <2>3, <2>4, <2>6, <2>7 DEF IdBound
  <2> QED
    BY <1>1, <1>4, <2>6, <2>7, <2>8 DEF ClientBounds
<1>5. CASE /\ Ours(line) /\ method = "tools/list" /\ line.kind = "answer" /\ line.body = Pages
           /\ ListPage(line) /\ UNCHANGED result
  <2>1. pc' = "ready" /\ UNCHANGED <<method, id, cursor, left>>
    BY <1>5 DEF ListPage
  <2> QED
    BY <1>1, <1>5, <2>1 DEF ClientBounds, IdBound
<1>6. result \in Results /\ [from |-> line.kind, body |-> line.body] \in Results
  BY DEF ClientBounds, Results, Lines
<1>7. ListPage(line) /\ line.kind # "answer" => pc' = "ready" /\ UNCHANGED <<method, id, cursor, tools, left>>
  BY DEF ListPage
<1>8. CASE Skip
  BY <1>2, <1>6, <1>8 DEF Skip
<1>9. CASE Ours(line) /\ method = "tools/list" /\ ListPage(line) /\ UNCHANGED result
  BY <1>2, <1>4, <1>5, <1>6, <1>7, <1>9
<1> QED
  BY <1>2, <1>3, <1>6, <1>8, <1>9 DEF Consider, Receive

LEMMA FailBounds ==
  ASSUME ClientBounds, pc = "read", NEW cause \in {"timeout", "closed"}, Fail(cause),
         UNCHANGED <<calls, fooled>>
  PROVE  ClientBounds'
<1>1. UNCHANGED <<method, id, cursor, tools, left>> /\ pc' \in {"ready", "failed"}
  BY DEF Fail
<1>2. [from |-> cause, body |-> 0] \in Results
  BY Sizes DEF Results
<1>3. result' \in Results
  BY <1>2 DEF Fail, ClientBounds
<1> QED
  BY <1>1, <1>3 DEF ClientBounds, IdBound

LEMMA HeadIsLine ==
  ASSUME WayBounds, buf # <<>>
  PROVE  Head(buf).line \in Lines
<1>1. Head(buf) \in Pieces
  BY SeqParts DEF WayBounds
<1> QED
  BY <1>1 DEF Pieces

LEMMA ClientStepBounds ==
  AnswerInv /\ ListInv /\ BoundInv /\ ClientNext => ClientBounds'
<1> SUFFICES ASSUME Counters, OnItsWay, ListInv, ClientBounds, WayBounds, ClientNext
             PROVE  ClientBounds'
  BY DEF AnswerInv, BoundInv
<1>0. id \in Nat /\ calls \in Nat /\ cursor \in Nat
  BY DEF Counters
<1>b. id <= Pages + 1 + calls
  BY DEF ClientBounds, IdBound
<1>1. CASE Start
  <2>1. id = 0 /\ Request("initialize") /\ UNCHANGED <<cursor, tools, calls, result, fooled>>
    BY <1>1 DEF Start, ClientBounds, IdBound
  <2>2. id' = 1 /\ pc' = "write" /\ method' = "initialize" /\ left' \in 0..RequestSize
    BY <2>1, BeginBounds DEF Request
  <2>3. id' <= Pages + 1 + calls
    BY <1>0, <2>2, Sizes
  <2>4. IdBound'
    BY <2>1, <2>2, <2>3 DEF IdBound
  <2> QED
    BY <2>1, <2>2, <2>4 DEF ClientBounds
<1>2. CASE Notified
  <2>1. /\ method = "initialized" /\ Request("tools/list")
        /\ UNCHANGED <<cursor, tools, calls, result, fooled>>
    BY <1>2 DEF Notified
  <2>2. id' = id + 1 /\ pc' = "write" /\ method' = "tools/list" /\ left' \in 0..RequestSize
    BY <2>1, BeginBounds DEF Request
  <2>3. tools = <<>> /\ id <= 1
    BY <2>1 DEF ListInv, Listing, ClientBounds, IdBound
  <2>4. id' <= Pages + 1 + calls /\ id' <= 2
    BY <1>0, <2>2, <2>3, Sizes
  <2>5. Len(tools') = 0
    BY <2>1, <2>3
  <2>6. IdBound'
    BY <2>1, <2>2, <2>4, <2>5 DEF IdBound
  <2> QED
    BY <2>1, <2>2, <2>6 DEF ClientBounds
<1>3. CASE Call
  <2>1. /\ calls < MaxCalls /\ calls' = calls + 1 /\ result' = NoAnswer /\ Request("tools/call")
        /\ UNCHANGED <<cursor, tools, fooled>>
    BY <1>3 DEF Call
  <2>2. id' = id + 1 /\ pc' = "write" /\ method' = "tools/call" /\ left' \in 0..RequestSize
    BY <2>1, BeginBounds DEF Request
  <2>3. id' <= Pages + 1 + calls' /\ calls' <= MaxCalls
    BY <1>0, <1>b, <2>1, <2>2, Sizes
  <2>4. IdBound'
    BY <2>2, <2>3 DEF IdBound
  <2>5. result' \in Results
    BY <2>1, Sizes DEF NoAnswer, Results
  <2> QED
    BY <2>1, <2>2, <2>3, <2>4, <2>5 DEF ClientBounds
<1>4. CASE WriteSome
  <2>1. left > 0 /\ left' = left - 1
        /\ UNCHANGED <<pc, method, id, cursor, tools, calls, result, fooled>>
    BY <1>4 DEF WriteSome
  <2>2. left' \in 0..RequestSize
    <3>1. left \in 0..RequestSize
      BY DEF ClientBounds
    <3> QED
      BY <2>1, <3>1, Sizes
  <2> QED
    BY <2>1, <2>2 DEF ClientBounds, IdBound
<1>5. CASE WriteBroken \/ Written
  <2>1. /\ pc = "write" /\ pc' \in {"killed", "read"}
        /\ UNCHANGED <<method, id, cursor, tools, left, calls, result, fooled>>
    BY <1>5 DEF WriteBroken, Written
  <2> QED
    BY <2>1 DEF ClientBounds, IdBound
<1>6. CASE TakeLine
  <2>1. buf # <<>> /\ Consider(Head(buf).line) /\ pc = "read" /\ UNCHANGED calls
    BY <1>6 DEF TakeLine, HasLine
  <2> QED
    BY <2>1, HeadIsGood, HeadIsLine, ConsiderBounds
<1>7. CASE ReadChunk
  BY <1>7 DEF ReadChunk, ClientBounds, IdBound
<1>8. CASE PollTimeout
  <2>1. pc = "read" /\ Fail("timeout") /\ UNCHANGED <<calls, fooled>>
    BY <1>8 DEF PollTimeout
  <2> QED
    BY <2>1, FailBounds
<1>9. CASE EndOfFile
  <2>1. CASE buf # <<>> /\ Consider(Head(buf).line)
    BY <1>9, <2>1, HeadIsGood, HeadIsLine, ConsiderBounds DEF EndOfFile
  <2>2. CASE Fail(IF last_error = "" THEN "closed" ELSE last_error) /\ UNCHANGED fooled
    <3>1. (IF last_error = "" THEN "closed" ELSE last_error) \in {"timeout", "closed"}
      BY DEF Counters
    <3>2. pc = "read" /\ UNCHANGED calls
      BY <1>9 DEF EndOfFile
    <3> QED
      BY <2>2, <3>1, <3>2, FailBounds
  <2> QED
    BY <1>9, <2>1, <2>2 DEF EndOfFile
<1> QED
  BY <1>1, <1>2, <1>3, <1>4, <1>5, <1>6, <1>7, <1>8, <1>9 DEF ClientNext

LEMMA PieceIsSmall ==
  ASSUME Counters, ListInv, ClientBounds, pc = "write"
  PROVE  Piece \in SmallWrites
<1>1. /\ id \in Nat /\ calls \in Nat /\ cursor \in Nat /\ method \in Methods
      /\ calls <= MaxCalls /\ cursor <= Pages
  BY DEF Counters, ClientBounds
<1>2. /\ Piece.method = method
      /\ Piece.body = IF method = "tools/call" THEN calls ELSE cursor
      /\ Piece \in [id : Nat, method : Methods, body : Nat, last : BOOLEAN]
  BY <1>1 DEF Piece
<1>3. Piece.body <= Pages + MaxCalls
  <2>1. calls <= Pages + MaxCalls /\ cursor <= Pages + MaxCalls
    BY <1>1, Sizes
  <2> QED
    BY <1>2, <2>1
<1>4. method = "tools/list" => cursor < Pages
  BY DEF ListInv, Listing
<1> QED
  BY <1>2, <1>3, <1>4 DEF SmallWrites

LEMMA ClientStepWay ==
  AnswerInv /\ ListInv /\ BoundInv /\ ClientNext => WayBounds'
<1> SUFFICES ASSUME Counters, ListInv, ClientBounds, WayBounds, ClientNext
             PROVE  WayBounds'
  BY DEF AnswerInv, BoundInv
<1>1. UNCHANGED <<asked, alive, lines>>
  BY DEF ClientNext, Start, Call, WriteSome, WriteBroken, Notified, Written, TakeLine, ReadChunk,
         PollTimeout, EndOfFile, serverVars
<1>2. CASE UNCHANGED <<toChild, fromChild, buf>>
  BY <1>1, <1>2 DEF WayBounds
<1>3. CASE WriteSome
  <2>1. /\ pc = "write" /\ Len(toChild) < PipeSize /\ toChild' = Append(toChild, Piece)
        /\ UNCHANGED <<fromChild, buf>>
    BY <1>3 DEF WriteSome
  <2>2. toChild' \in Seq(SmallWrites) /\ Len(toChild') = Len(toChild) + 1 /\ Len(toChild) \in Nat
    <3>1. toChild \in Seq(SmallWrites) /\ Piece \in SmallWrites
      BY <2>1, PieceIsSmall DEF WayBounds
    <3> HIDE DEF SmallWrites
    <3> QED
      BY <2>1, <3>1
  <2>3. Len(toChild') <= PipeSize
    BY <2>1, <2>2, Sizes
  <2> QED
    BY <1>1, <2>1, <2>2, <2>3 DEF WayBounds
<1>4. CASE UNCHANGED <<toChild, fromChild>> /\ buf' \in Seq(Pieces)
  BY <1>1, <1>4 DEF WayBounds
<1>5. CASE TakeLine
  <2>1. buf' = SubSeq(buf, 3, Len(buf)) /\ UNCHANGED <<toChild, fromChild>> /\ buf \in Seq(Pieces)
    BY <1>5 DEF TakeLine, WayBounds
  <2>2. buf' \in Seq(Pieces)
    BY <2>1, SeqParts
  <2> QED
    BY <1>4, <2>1, <2>2
<1>6. CASE EndOfFile
  <2>1. buf' = <<>> /\ UNCHANGED <<toChild, fromChild>>
    BY <1>6 DEF EndOfFile
  <2>2. buf' \in Seq(Pieces)
    BY <2>1
  <2> QED
    BY <1>4, <2>1, <2>2
<1>7. CASE ReadChunk
  <2>1. PICK n \in 1..Len(fromChild) :
          /\ buf' = buf \o SubSeq(fromChild, 1, n)
          /\ fromChild' = SubSeq(fromChild, n + 1, Len(fromChild))
    BY <1>7 DEF ReadChunk
  <2>2. toChild' = toChild /\ buf \in Seq(Pieces) /\ fromChild \in Seq(Pieces)
    BY <1>7 DEF ReadChunk, WayBounds
  <2> HIDE DEF Pieces
  <2>3. SubSeq(fromChild, 1, n) \in Seq(Pieces) /\ fromChild' \in Seq(Pieces)
    BY <2>1, <2>2
  <2>4. buf' \in Seq(Pieces)
    BY <2>1, <2>2, <2>3
  <2> QED
    BY <1>1, <2>2, <2>3, <2>4 DEF WayBounds
<1>8. Start \/ Call \/ WriteBroken \/ Notified \/ Written \/ PollTimeout
        => UNCHANGED <<toChild, fromChild, buf>>
  BY DEF Start, Call, WriteBroken, Notified, Written, PollTimeout
<1> QED
  BY <1>2, <1>3, <1>5, <1>6, <1>7, <1>8 DEF ClientNext

LEMMA LineIsSmall ==
  /\ \A kind \in Kinds, i \in Nat : Line(kind, i, 0) \in Lines
  /\ \A query \in SmallQueries : AnswerTo(query) \in Lines
<1>1. ASSUME NEW kind \in Kinds, NEW i \in Nat, NEW body \in Bodies PROVE Line(kind, i, body) \in Lines
  BY DEF Line, Lines
<1>2. ASSUME NEW query \in SmallQueries PROVE AnswerTo(query) \in Lines
  <2>1. query.id \in Nat /\ query.body \in Nat /\ query.body <= Pages + MaxCalls
        /\ (query.method = "tools/list" => query.body < Pages)
    BY DEF SmallQueries
  <2>2. (IF query.method = "tools/list" THEN query.body + 1 ELSE query.body) \in Bodies
    BY <2>1, Sizes DEF Bodies
  <2> QED
    BY <1>1, <2>1, <2>2 DEF AnswerTo, Kinds
<1> QED
  BY <1>1, <1>2, Sizes

LEMMA PieceIsPiece ==
  ASSUME NEW line \in Lines
  PROVE  Text(line) \in Pieces /\ Newline \in Pieces
<1>1. Line("noise", 0, 0) \in Lines
  BY LineIsSmall DEF Kinds
<1> QED
  BY <1>1 DEF Text, Newline, Pieces

LEMMA ServerBounds == BoundInv /\ ServerNext => BoundInv'
<1> SUFFICES ASSUME ClientBounds, WayBounds, ServerNext PROVE WayBounds'
  <2>1. ASSUME ClientBounds, ServerNext PROVE ClientBounds'
    <3>1. UNCHANGED clientVars
      BY <2>1 DEF ServerNext, ServerReads, ServerAnswers, ServerChatters, ServerDies
    <3> QED
      BY <2>1, <3>1 DEF clientVars, ClientBounds, IdBound
  <2> QED
    BY <2>1 DEF BoundInv
<1>1. buf' = buf
  BY DEF ServerNext, ServerReads, ServerAnswers, ServerChatters, ServerDies, clientVars
<1>2. ASSUME NEW line \in Lines, Emits(line), UNCHANGED <<toChild, alive>>, asked' \subseteq asked
      PROVE  WayBounds'
  <2>1. lines' \in 0..MaxLines
    <3>1. lines \in 0..MaxLines /\ lines < MaxLines /\ lines' = lines + 1
      BY <1>2 DEF WayBounds, Emits
    <3> QED
      BY <3>1, Sizes
  <2>2. fromChild' \in Seq(Pieces)
    <3>1. /\ fromChild \in Seq(Pieces) /\ Text(line) \in Pieces /\ Newline \in Pieces
          /\ fromChild' = fromChild \o <<Text(line), Newline>>
      BY <1>2, PieceIsPiece DEF WayBounds, Emits
    <3> HIDE DEF Pieces
    <3>2. <<Text(line), Newline>> \in Seq(Pieces)
      BY <3>1
    <3> QED
      BY <3>1, <3>2
  <2> QED
    BY <1>1, <1>2, <2>1, <2>2 DEF WayBounds
<1>3. CASE ServerReads
  <2>1. /\ toChild # <<>> /\ toChild' = Tail(toChild) /\ UNCHANGED <<fromChild, alive, lines>>
        /\ \/ asked' = asked
           \/ asked' = asked \cup {[id |-> Head(toChild).id, method |-> Head(toChild).method,
                                    body |-> Head(toChild).body]}
    BY <1>3 DEF ServerReads
  <2>2. toChild \in Seq(SmallWrites) /\ Len(toChild) <= PipeSize
    BY DEF WayBounds
  <2>3. Head(toChild) \in SmallWrites
    BY <2>1, <2>2, SeqParts
  <2>4. [id |-> Head(toChild).id, method |-> Head(toChild).method,
         body |-> Head(toChild).body] \in SmallQueries
    BY <2>3 DEF SmallWrites, SmallQueries
  <2>5. toChild' \in Seq(SmallWrites) /\ Len(toChild') <= PipeSize
    <3> HIDE DEF SmallWrites
    <3>1. toChild' \in Seq(SmallWrites) /\ Len(toChild') = Len(toChild) - 1 /\ Len(toChild) \in Nat
      BY <2>1, <2>2, HeadTailProperties
    <3> QED
      BY <2>2, <3>1, Sizes
  <2> QED
    BY <1>1, <2>1, <2>4, <2>5 DEF WayBounds
<1>4. CASE ServerAnswers
  <2>1. PICK query \in asked :
          /\ Emits(AnswerTo(query)) \/ Emits(Line("error", query.id, 0))
          /\ asked' = asked \ {query} /\ UNCHANGED <<toChild, alive>>
    BY <1>4 DEF ServerAnswers
  <2>2. query \in SmallQueries /\ query.id \in Nat
    BY DEF WayBounds, SmallQueries
  <2>3. AnswerTo(query) \in Lines /\ Line("error", query.id, 0) \in Lines
    BY <2>2, LineIsSmall DEF Kinds
  <2> QED
    BY <1>2, <2>1, <2>3
<1>5. CASE ServerChatters
  <2>1. UNCHANGED <<toChild, alive, asked>>
    BY <1>5 DEF ServerChatters
  <2>2. \E kind \in {"note", "noise", "request"}, i \in Nat : Emits(Line(kind, i, 0))
    BY <1>5, SizesAssumption DEF ServerChatters
  <2>3. PICK line \in Lines : Emits(line)
    BY <2>2, LineIsSmall DEF Kinds
  <2> QED
    BY <1>2, <2>1, <2>3
<1>6. CASE ServerDies
  <2>1. alive' = FALSE /\ UNCHANGED <<toChild, asked, lines>>
    BY <1>6 DEF ServerDies
  <2>2. fromChild' = fromChild \/ \E line \in Lines : fromChild' = Append(fromChild, Text(line))
    BY <1>6, LineIsSmall DEF ServerDies, WayBounds, Kinds
  <2>3. fromChild' \in Seq(Pieces)
    <3>1. fromChild \in Seq(Pieces)
      BY DEF WayBounds
    <3> QED
      BY <2>2, <3>1, PieceIsPiece, SeqParts
  <2> QED
    BY <1>1, <2>1, <2>3 DEF WayBounds
<1> QED
  BY <1>3, <1>4, <1>5, <1>6 DEF ServerNext

\* Type correctness: with the pages numbered, the ids, the bodies and the lines of a
\* session stay within what its pages and calls make of them, and no pipe holds more
\* than fits (McpClient.cpp:13-97, Transport.cpp:24-92).
THEOREM SessionTypes == Spec => []TypeOK
<1>1. Init => BoundInv
  <2> SUFFICES ASSUME Init PROVE BoundInv
    OBVIOUS
  <2>1. /\ pc = "new" /\ method = "initialize" /\ id = 0 /\ cursor = 0 /\ left = 0 /\ calls = 0
        /\ result = NoAnswer /\ fooled = FALSE
    BY DEF Init
  <2>2. left \in 0..RequestSize /\ calls <= MaxCalls /\ cursor <= Pages /\ id <= Pages + 1 + calls
    BY <2>1, Sizes
  <2>3. result \in Results
    BY <2>1, Sizes DEF NoAnswer, Results
  <2>4. ClientBounds
    <3>1. IdBound
      BY <2>1, <2>2 DEF IdBound
    <3>2. fooled \in BOOLEAN
      BY <2>1
    <3> QED
      BY <2>1, <2>2, <2>3, <3>1, <3>2 DEF ClientBounds
  <2>5. /\ toChild = <<>> /\ buf = <<>> /\ fromChild = <<>> /\ asked = {} /\ alive = TRUE
        /\ lines = 0
    BY DEF Init
  <2>6. lines \in 0..MaxLines /\ Len(toChild) <= PipeSize
    BY <2>5, Sizes
  <2>7. WayBounds
    BY <2>5, <2>6 DEF WayBounds
  <2> QED
    BY <2>4, <2>7 DEF BoundInv
<1>2. AnswerInv /\ ListInv /\ BoundInv /\ [Next]_vars => BoundInv'
  <2>1. ASSUME BoundInv, UNCHANGED vars PROVE BoundInv'
    BY <2>1 DEF BoundInv, ClientBounds, IdBound, WayBounds, vars, clientVars, serverVars
  <2> QED
    BY <2>1, ClientStepBounds, ClientStepWay, ServerBounds DEF Next, BoundInv
<1>3. AnswerInv /\ ListInv /\ StreamInv /\ BoundInv => TypeOK
  <2> SUFFICES ASSUME Counters, PagesInOrder, ClientBounds, WayBounds, StreamInv PROVE TypeOK
    BY DEF AnswerInv, ListInv, BoundInv
  <2>1. id \in 0..(Pages + MaxCalls + 1) /\ cursor \in 0..Pages /\ calls \in 0..MaxCalls
    <3>1. /\ id \in Nat /\ calls \in Nat /\ cursor \in Nat
          /\ calls <= MaxCalls /\ cursor <= Pages /\ id <= Pages + 1 + calls
      BY DEF Counters, ClientBounds, IdBound
    <3> QED
      BY <3>1, Sizes
  <2>2. tools \in Seq(1..Pages)
    <3>1. tools \in Seq(Nat) /\ Len(tools) <= Pages /\ \A n \in 1..Len(tools) : tools[n] = n
      BY DEF PagesInOrder
    <3>2. \A n \in 1..Len(tools) : tools[n] \in 1..Pages
      BY <3>1, Sizes
    <3> QED
      BY <3>1, <3>2, SeqNarrows
  <2>3. answered \subseteq 1..id
    BY DEF StreamInv, IdsMade
  <2> QED
    BY <2>1, <2>2, <2>3 DEF TypeOK, Counters, ClientBounds, WayBounds, Results
<1>4. Init => ListInv
  BY ListStarts
<1> QED
  BY <1>1, <1>2, <1>3, <1>4, StepLists, AnswerInvariance, StreamInvariance, PTL DEF Spec
=============================================================================
